-------------------------- MODULE ConversionsProofs --------------------------
(***************************************************************************)
(* The pure algorithms are right for inputs of any length and any size of  *)
(* the buffers.                                                            *)
(***************************************************************************)
EXTENDS MCConversions, FiniteSetTheorems, SequenceTheorems, WellFoundedInduction, TLAPS

-----------------------------------------------------------------------------
(* Induction and recursion                                                 *)

\* A set of numbers that is not empty has a least one.
LEMMA Least ==
    ASSUME NEW S \in SUBSET Nat, S # {}
    PROVE  \E i \in S : \A j \in S : i <= j
<1> DEFINE Below == {p \in Nat \X Nat : p[1] < p[2]}
<1>1. Below = OpToRel(<, Nat)
  BY Zenon DEF OpToRel
<1>2. IsWellFoundedOn(Below, Nat)
  BY <1>1, NatLessThanWellFounded, Zenon
<1> HIDE DEF Below
<1>3. PICK i \in S : \A j \in S : ~ (<<j, i>> \in Below)
  BY <1>2, WFMin, Zenon
<1>4. \A j \in S : <<j, i>> \in Below <=> j < i
  BY DEF Below
<1>5. \A j \in S : j \in Nat /\ ~ (j < i)
  BY <1>3, <1>4
<1>6. \A j \in S : i <= j
  BY <1>5
<1> QED
  BY <1>6

\* Induction over the numbers: what is in S when all below it are.
LEMMA Up ==
    ASSUME NEW S, \A k \in Nat : (\A j \in 0 .. k - 1 : j \in S) => k \in S
    PROVE  \A k \in Nat : k \in S
<1> SUFFICES ASSUME NEW k \in Nat \ S PROVE FALSE
  OBVIOUS
<1>1. PICK least \in Nat \ S : \A j \in Nat \ S : least <= j
  BY Least
<1>2. \A j \in 0 .. least - 1 : j \in S
  BY <1>1
<1> QED
  BY <1>1, <1>2

\* A function defined by recursion exists: its value at i is given, or is made
\* from its value at an argument of smaller measure.
Descends(D, n, mu, B, next) ==
    /\ n \in Nat /\ mu \in [D -> 0 .. n] /\ B \in SUBSET D
    /\ next \in [D \ B -> D] /\ \A i \in D \ B : mu[next[i]] < mu[i]

Solves(f, D, B, base, next, make) ==
    \A i \in D : f[i] = IF i \in B THEN base[i] ELSE make[i][f[next[i]]]

LEMMA Recursion ==
    ASSUME NEW D, NEW T, NEW n, NEW mu, NEW B, NEW base, NEW next, NEW make,
           Descends(D, n, mu, B, next), base \in [B -> T], make \in [D \ B -> [T -> T]]
    PROVE  \E f \in [D -> T] : Solves(f, D, B, base, next, make)
<1> USE DEF Descends, Solves
<1> DEFINE Below(k) == {i \in D : mu[i] < k}
           Fits(f, k) == \A i \in Below(k) : f[i] = IF i \in B THEN base[i] ELSE make[i][f[next[i]]]
           S == {k \in Nat : \E f \in [Below(k) -> T] : Fits(f, k)}
<1>1. ASSUME NEW k \in Nat, \A j \in 0 .. k - 1 : j \in S
      PROVE  k \in S
  <2>1. CASE k = 0
    <3>1. Below(k) = {}
      BY <2>1
    <3>2. [i \in Below(k) |-> base[i]] \in [Below(k) -> T]
      BY <3>1
    <3> QED
      BY <3>1, <3>2
  <2>2. CASE k # 0
    <3>1. k - 1 \in S
      <4>1. k - 1 \in 0 .. k - 1
        BY <2>2
      <4> QED
        BY <1>1, <4>1
    <3>2. PICK f \in [Below(k - 1) -> T] : Fits(f, k - 1)
      BY <3>1
    <3> DEFINE V(i) == IF i \in B THEN base[i] ELSE make[i][f[next[i]]]
               g == [i \in Below(k) |-> V(i)]
    <3>3. \A i \in Below(k) \ B : next[i] \in Below(k - 1)
      BY <2>2
    <3>4. \A i \in Below(k) : V(i) \in T
      BY <3>3
    <3>5. g \in [Below(k) -> T]
      BY <3>4
    <3>6. \A i \in Below(k - 1) : i \in Below(k) /\ g[i] = f[i]
      BY <3>2, <2>2
    <3>7. Fits(g, k)
      BY <3>3, <3>6
    <3> QED
      BY <3>5, <3>7
  <2> QED
    BY <2>1, <2>2
<1>2. n + 1 \in S
  <2> HIDE DEF S
  <2>1. \A k \in Nat : k \in S
    BY <1>1, Up
  <2> QED
    BY <2>1
<1>3. Below(n + 1) = D
  OBVIOUS
<1> QED
  BY <1>2, <1>3

\* Two functions are the same if each value of theirs is or depends only on
\* the value at an argument of smaller measure.
Agree(f, g, D, n, mu) ==
    /\ n \in Nat /\ mu \in [D -> 0 .. n]
    /\ \A i \in D : f[i] = g[i] \/ \E j \in D : mu[j] < mu[i] /\ (f[j] = g[j] => f[i] = g[i])

Same(f, g, D) == \A i \in D : f[i] = g[i]

LEMMA RecursionUnique ==
    ASSUME NEW D, NEW n, NEW mu, NEW f, NEW g, Agree(f, g, D, n, mu)
    PROVE  Same(f, g, D)
<1> USE DEF Agree, Same
<1> DEFINE S == {k \in Nat : \A i \in D : mu[i] = k => f[i] = g[i]}
<1>1. ASSUME NEW k \in Nat, \A j \in 0 .. k - 1 : j \in S
      PROVE  k \in S
  <2> SUFFICES ASSUME NEW i \in D, mu[i] = k, f[i] # g[i]
               PROVE  FALSE
    OBVIOUS
  <2>1. PICK j \in D : mu[j] < mu[i] /\ (f[j] = g[j] => f[i] = g[i])
    BY DEF Agree
  <2>2. mu[j] \in 0 .. k - 1
    BY <2>1
  <2>3. mu[j] \in S
    BY <1>1, <2>2
  <2> QED
    BY <2>1, <2>3
<1>2. \A k \in Nat : k \in S
  <2> HIDE DEF S
  <2> QED
    BY <1>1, Up
<1>3. \A i \in D : mu[i] \in Nat /\ mu[i] \in S
  BY <1>2
<1> QED
  BY <1>3

\* What a loop writes, if every turn goes on further to the right.
LEMMA WrittenIs ==
    ASSUME NEW V, NEW turns \in Seq([put : Seq(V), next : Nat]),
           \A i \in 1 .. Len(turns) : turns[i].next > i
    PROVE  /\ WrittenFrom(turns) \in [Nat -> Seq(V)]
           /\ \A i \in 1 .. Len(turns) :
                 WrittenFrom(turns)[i] = turns[i].put \o WrittenFrom(turns)[turns[i].next]
           /\ \A i \in Nat : i > Len(turns) => WrittenFrom(turns)[i] = <<>>
<1> DEFINE n == Len(turns)
           mu == [i \in Nat |-> IF i \in 1 .. n THEN n + 1 - i ELSE 0]
           B == {i \in Nat : i \notin 1 .. n}
           base == [i \in B |-> <<>>]
           next == [i \in Nat \ B |-> turns[i].next]
           make == [i \in Nat \ B |-> [t \in Seq(V) |-> turns[i].put \o t]]
           Is(f) == f = [i \in Nat |-> IF i \in DOMAIN turns
                                       THEN turns[i].put \o f[turns[i].next] ELSE <<>>]
           w == WrittenFrom(turns)
<1>1. /\ n \in Nat /\ DOMAIN turns = 1 .. n
      /\ \A i \in 1 .. n : turns[i].put \in Seq(V)
      /\ \A i \in 1 .. n : turns[i].next \in Nat /\ turns[i].next > i
  <2>1. n \in Nat /\ DOMAIN turns = 1 .. n
    BY LenProperties
  <2>2. \A i \in 1 .. n : turns[i] \in [put : Seq(V), next : Nat]
    BY <2>1, ElementOfSeq
  <2> QED
    BY <2>1, <2>2
<1> HIDE DEF n
<1>2. Nat \ B = 1 .. n
  BY <1>1
<1>3. \A i \in 1 .. n : mu[turns[i].next] < mu[i]
  BY <1>1
<1>4. Descends(Nat, n, mu, B, next)
  <2>1. mu \in [Nat -> 0 .. n] /\ B \in SUBSET Nat /\ next \in [Nat \ B -> Nat]
    BY <1>1, <1>2
  <2> QED
    BY <1>1, <1>2, <1>3, <2>1 DEF Descends
<1>5. base \in [B -> Seq(V)] /\ make \in [Nat \ B -> [Seq(V) -> Seq(V)]]
  BY <1>1, <1>2
<1>6. PICK f \in [Nat -> Seq(V)] : Solves(f, Nat, B, base, next, make)
  <2> HIDE DEF mu, B, base, next, make
  <2> QED
    BY <1>4, <1>5, Recursion
<1>7. \A i \in Nat : f[i] = IF i \in DOMAIN turns THEN turns[i].put \o f[turns[i].next] ELSE <<>>
  BY <1>1, <1>2, <1>6 DEF Solves
<1>8. Is(w)
  <2>1. Is(f)
    BY <1>7
  <2> QED
    BY <2>1 DEF WrittenFrom
<1>9. w = [i \in Nat |-> w[i]]
  BY <1>8
<1>10. \A i \in Nat : w[i] = IF i \in DOMAIN turns THEN turns[i].put \o w[turns[i].next] ELSE <<>>
  BY <1>8
<1> HIDE DEF w
<1>11. /\ \A i \in 1 .. n : /\ w[i] = turns[i].put \o w[turns[i].next]
                             /\ f[i] = turns[i].put \o f[turns[i].next]
       /\ \A i \in Nat : i > n => w[i] = <<>>
  <2>1. \A i \in 1 .. n : i \in Nat /\ i \in DOMAIN turns
    BY <1>1
  <2>2. \A i \in Nat : i > n => i \notin DOMAIN turns
    BY <1>1
  <2> QED
    BY <1>7, <1>10, <2>1, <2>2
<1>12. Agree(w, f, Nat, n, mu)
  <2> SUFFICES ASSUME NEW i \in 1 .. n
               PROVE  \E j \in Nat : mu[j] < mu[i] /\ (w[j] = f[j] => w[i] = f[i])
    <3>1. \A i \in Nat : i \notin DOMAIN turns => w[i] = f[i]
      BY <1>7, <1>10
    <3>2. \A i \in Nat : i \notin 1 .. n => w[i] = f[i]
      BY <1>1, <3>1
    <3>3. n \in Nat /\ mu \in [Nat -> 0 .. n]
      BY <1>4 DEF Descends
    <3> HIDE DEF mu
    <3> QED
      BY <3>2, <3>3 DEF Agree
  <2>1. turns[i].next \in Nat /\ mu[turns[i].next] < mu[i]
    BY <1>1, <1>3
  <2>2. w[turns[i].next] = f[turns[i].next] => w[i] = f[i]
    BY <1>11
  <2> HIDE DEF mu
  <2> QED
    BY <2>1, <2>2
<1>13. Same(w, f, Nat)
  <2> HIDE DEF mu
  <2> QED
    BY <1>12, RecursionUnique
<1>14. w \in [Nat -> Seq(V)]
  BY <1>9, <1>13 DEF Same
<1> QED
  BY <1>11, <1>14 DEF w, n

\* What is in S from lo to hi, when all above it are.
LEMMA Down ==
    ASSUME NEW lo \in Nat, NEW hi \in Nat, NEW S,
           \A i \in lo .. hi : (\A j \in i + 1 .. hi : j \in S) => i \in S
    PROVE  \A i \in lo .. hi : i \in S
<1> DEFINE T == {k \in Nat : hi - k >= lo => hi - k \in S}
<1>1. ASSUME NEW k \in Nat, \A j \in 0 .. k - 1 : j \in T
      PROVE  k \in T
  <2> SUFFICES ASSUME hi - k >= lo PROVE hi - k \in S
    OBVIOUS
  <2>1. ASSUME NEW j \in hi - k + 1 .. hi
        PROVE  j \in S
    <3>1. hi - j \in 0 .. k - 1
      OBVIOUS
    <3>2. hi - j \in T
      BY <1>1, <3>1
    <3>3. hi - (hi - j) = j /\ j >= lo
      OBVIOUS
    <3> QED
      BY <3>2, <3>3
  <2>2. hi - k \in lo .. hi
    OBVIOUS
  <2> QED
    BY <2>1, <2>2
<1>2. \A k \in Nat : k \in T
  <2> HIDE DEF T
  <2> QED
    BY <1>1, Up
<1> SUFFICES ASSUME NEW i \in lo .. hi PROVE i \in S
  OBVIOUS
<1>3. hi - i \in Nat /\ hi - (hi - i) = i /\ i >= lo
  OBVIOUS
<1>4. hi - i \in T
  BY <1>2, <1>3
<1> QED
  BY <1>3, <1>4
\* There is at least one port number.
LEMMA WordNat == Word \in Nat \ {0}
  BY ByteIsPositive DEF Word

\* A number below twice the modulus wraps at most once.
LEMMA Wraps ==
    ASSUME NEW n \in Nat \ {0}, NEW k \in Nat, k < 2 * n
    PROVE  k % n = IF k < n THEN k ELSE k - n
  BY SMT

\* In 16 bits the size of a range is exact, unless the range is every port.
LEMMA SizeIs ==
    ASSUME NEW lo \in Port \ {0}, NEW hi \in Port, lo <= hi
    PROVE  RangeSize(lo, hi) = hi - lo + 1 /\ hi - lo + 1 \in Nat \ {0}
<1>1. hi - lo + 1 \in Nat \ {0} /\ hi - lo + 1 < Word
  BY WordNat DEF Port
<1>2. (hi - lo + 1) % Word = hi - lo + 1
  BY <1>1, WordNat, Wraps
<1> QED
  BY <1>1, <1>2 DEF RangeSize

\* A range that ends at Word or before is not left in its sum either.
LEMMA TurnIs ==
    ASSUME NEW lo \in Nat, NEW size \in Nat \ {0}, lo + size <= Word,
           NEW k \in Nat, k < 2 * size
    PROVE  (lo + (k % size)) % Word = IF k < size THEN lo + k ELSE lo + k - size
<1> DEFINE turn == k % size
<1>1. turn = IF k < size THEN k ELSE k - size
  BY Wraps
<1>2. lo + turn \in Nat /\ lo + turn < Word
  BY <1>1, WordNat
<1> HIDE DEF turn
<1>3. (lo + turn) % Word = lo + turn
  BY <1>2, WordNat, Wraps
<1> QED
  BY <1>1, <1>3 DEF turn

\* The i-th port tried is start + i steps into the range, going round once.
LEMMA PortAtIs ==
    ASSUME NEW lo \in Port \ {0}, NEW hi \in Port, lo <= hi,
           NEW start \in 0 .. hi - lo, NEW i \in 0 .. hi - lo
    PROVE  PortAt(lo, RangeSize(lo, hi), start, i)
               = IF lo + start + i <= hi THEN lo + start + i
                 ELSE lo + start + i - (hi - lo + 1)
<1> DEFINE size == RangeSize(lo, hi)
<1>1. /\ size = hi - lo + 1 /\ size \in Nat \ {0}
      /\ lo \in Nat /\ hi \in Nat /\ hi < Word
  BY SizeIs, WordNat DEF Port
<1>2. /\ start + i \in Nat /\ start + i < 2 * size /\ lo + size <= Word
      /\ start + i < size <=> lo + start + i <= hi
  BY <1>1, WordNat
<1> HIDE DEF size
<1>3. (lo + ((start + i) % size)) % Word
          = IF start + i < size THEN lo + (start + i) ELSE lo + (start + i) - size
  BY <1>1, <1>2, TurnIs
<1>4. PortAt(lo, size, start, i) = (lo + ((start + i) % size)) % Word
  BY DEF PortAt
<1> QED
  BY <1>1, <1>2, <1>3, <1>4 DEF size

\* Every port of the range is tried once, and no other (network.c:168-185).
THEOREM EveryPortOnce ==
    ASSUME NEW lo \in Port \ {0}, NEW hi \in Port, lo <= hi, NEW start \in 0 .. hi - lo
    PROVE  /\ \A i \in 0 .. hi - lo : PortAt(lo, RangeSize(lo, hi), start, i) \in lo .. hi
           /\ \A p \in lo .. hi : \E i \in 0 .. hi - lo :
                 PortAt(lo, RangeSize(lo, hi), start, i) = p
           /\ \A i, j \in 0 .. hi - lo :
                 PortAt(lo, RangeSize(lo, hi), start, i) = PortAt(lo, RangeSize(lo, hi), start, j)
                     => i = j
<1> USE SizeIs
<1>1. lo \in Nat /\ hi \in Nat
  BY WordNat DEF Port
<1>2. \A i \in 0 .. hi - lo : PortAt(lo, RangeSize(lo, hi), start, i) \in lo .. hi
  BY <1>1, PortAtIs
<1>3. ASSUME NEW p \in lo .. hi
      PROVE  \E i \in 0 .. hi - lo : PortAt(lo, RangeSize(lo, hi), start, i) = p
  <2> DEFINE i == IF lo + start <= p THEN p - lo - start ELSE p - lo - start + (hi - lo + 1)
  <2>1. i \in 0 .. hi - lo
    BY <1>1
  <2>2. PortAt(lo, RangeSize(lo, hi), start, i) = p
    BY <1>1, <2>1, PortAtIs
  <2> QED
    BY <2>1, <2>2
<1>4. ASSUME NEW i \in 0 .. hi - lo, NEW j \in 0 .. hi - lo,
             PortAt(lo, RangeSize(lo, hi), start, i) = PortAt(lo, RangeSize(lo, hi), start, j)
      PROVE  i = j
  BY <1>1, <1>4, PortAtIs
<1> QED
  BY <1>2, <1>3, <1>4

\* Wherever the search starts, it ends with a free port of the range if there
\* is one (network.c:149-191).
THEOREM SearchIsComplete ==
    ASSUME NEW lo \in Port \ {0}, NEW hi \in Port, lo <= hi, NEW start \in 0 .. hi - lo,
           NEW free \in SUBSET Port
    PROVE  FindsFree(lo, hi, start, free)
<1> DEFINE size == RangeSize(lo, hi)
           Bound(i) == PortAt(lo, size, start, i) \in free
           found == net_create_listening_socket_range(lo, hi, start, free)
           usable == free \cap (lo .. hi)
<1>1. size - 1 = hi - lo /\ ~ (lo > hi)
  BY SizeIs, WordNat DEF Port
<1>2. CASE usable = {}
  <2>1. \A i \in 0 .. size - 1 : ~ Bound(i)
    BY <1>1, <1>2, EveryPortOnce
  <2>2. found = INVALID_SOCKET_T
    BY <2>1 DEF net_create_listening_socket_range
  <2> QED
    BY <1>2, <2>2 DEF FindsFree
<1>3. CASE usable # {}
  <2> DEFINE tries == {i \in 0 .. size - 1 : Bound(i)}
             Earliest(i) == Bound(i) /\ \A j \in 0 .. i - 1 : ~ Bound(j)
             first == CHOOSE i \in 0 .. size - 1 : Earliest(i)
  <2>1. tries \in SUBSET Nat /\ tries # {}
    <3>1. tries \in SUBSET Nat
      BY <1>1, WordNat DEF Port
    <3>2. PICK p \in lo .. hi : p \in free
      BY <1>3
    <3>3. PICK i \in 0 .. hi - lo : PortAt(lo, RangeSize(lo, hi), start, i) = p
      BY EveryPortOnce
    <3>4. i \in tries
      BY <1>1, <3>2, <3>3
    <3> QED
      BY <3>1, <3>4
  <2>2. PICK i \in tries : \A j \in tries : i <= j
    BY <2>1, Least
  <2>3. i \in 0 .. size - 1 /\ Earliest(i)
    <3>1. \A j \in 0 .. i - 1 : j \in 0 .. size - 1 /\ j < i
      BY <1>1, <2>1, <2>2, WordNat DEF Port
    <3>2. \A j \in 0 .. i - 1 : ~ Bound(j)
      BY <2>2, <3>1, <2>1
    <3> QED
      BY <2>2, <3>2
  <2>4. first \in 0 .. size - 1 /\ Earliest(first)
    BY <2>3
  <2>5. ~ \A j \in 0 .. size - 1 : ~ Bound(j)
    BY <2>4
  <2>6. found = PortAt(lo, size, start, first)
    BY <1>1, <2>5 DEF net_create_listening_socket_range
  <2>7. found \in usable
    BY <1>1, <2>4, <2>6, EveryPortOnce
  <2> QED
    BY <1>3, <2>7 DEF FindsFree
<1> QED
  BY <1>2, <1>3

\* The bytes of PASV and of PORT name the port they were made from
\* (protocol.c:303-348, parser.py:134-165).
THEOREM BytesCarryPort ==
    ASSUME NEW port \in Port
    PROVE  Carries(port)
<1> DEFINE high == port \div Byte
           low == port % Byte
<1>1. Byte \in Nat \ {0} /\ port \in Nat /\ port < Byte * Byte
  BY ByteIsPositive, WordNat DEF Port, Word
<1>2. low \in 0 .. Byte - 1 /\ high \in Nat /\ port = high * Byte + low
  BY <1>1, SMT
<1>3. high < Byte
  BY <1>1, <1>2, SMT
<1> HIDE DEF high, low
<1>4. high % Byte = high /\ low % Byte = low
  <2>1. \A k \in 0 .. Byte - 1 : k \in Nat /\ k < 2 * Byte /\ k < Byte
    BY <1>1
  <2> QED
    BY <1>1, <1>2, <1>3, <2>1, Wraps
<1>5. port % Word = port
  BY <1>1, WordNat, Wraps DEF Port, Word
<1>6. parse_pasv_response(proto_address_to_pasv(port)) = port
  BY <1>1, <1>2, <1>4 DEF high, low, parse_pasv_response, proto_address_to_pasv
<1>7. proto_parse_port(format_port_command(port)) = port
  BY <1>1, <1>2, <1>3, <1>5 DEF high, low, proto_parse_port, format_port_command
<1> QED
  BY <1>6, <1>7 DEF Carries

-----------------------------------------------------------------------------
(* Counting                                                                *)

LEMMA RankNat ==
    ASSUME NEW S, NEW n \in Nat
    PROVE  IsFiniteSet(S \cap 1 .. n) /\ Rank(S, n) \in Nat
<1>1. IsFiniteSet(1 .. n) /\ S \cap 1 .. n \subseteq 1 .. n
  BY FS_Interval
<1>2. IsFiniteSet(S \cap 1 .. n)
  BY <1>1, FS_Subset
<1> QED
  BY <1>2, FS_CardinalityType DEF Rank

LEMMA RankZero == ASSUME NEW S PROVE Rank(S, 0) = 0
<1>1. S \cap 1 .. 0 = {}
  OBVIOUS
<1> QED
  BY <1>1, FS_EmptySet DEF Rank

LEMMA RankNext ==
    ASSUME NEW S, NEW n \in Nat
    PROVE  Rank(S, n + 1) = IF n + 1 \in S THEN Rank(S, n) + 1 ELSE Rank(S, n)
<1>1. CASE n + 1 \in S
  <2>1. S \cap 1 .. n + 1 = (S \cap 1 .. n) \cup {n + 1} /\ n + 1 \notin S \cap 1 .. n
    BY <1>1
  <2> QED
    BY <1>1, <2>1, RankNat, FS_AddElement DEF Rank
<1>2. CASE n + 1 \notin S
  <2>1. S \cap 1 .. n + 1 = S \cap 1 .. n
    BY <1>2
  <2> QED
    BY <1>2, <2>1 DEF Rank
<1> QED
  BY <1>1, <1>2

\* The rank grows by at most one with each number, and by one with each of S.
LEMMA RankGrows ==
    ASSUME NEW S, NEW m \in Nat, NEW n \in Nat, m <= n
    PROVE  Rank(S, m) <= Rank(S, n) /\ Rank(S, n) - Rank(S, m) <= n - m
<1> DEFINE T == {k \in Nat : Rank(S, m) <= Rank(S, m + k) /\ Rank(S, m + k) - Rank(S, m) <= k}
<1>1. ASSUME NEW k \in Nat, \A j \in 0 .. k - 1 : j \in T
      PROVE  k \in T
  <2>1. CASE k = 0
    <3>1. m + k = m
      BY <2>1
    <3>2. Rank(S, m) \in Nat
      BY RankNat
    <3> QED
      BY <2>1, <3>1, <3>2
  <2>2. CASE k # 0
    <3>1. k - 1 \in T
      <4>1. k - 1 \in 0 .. k - 1
        BY <2>2
      <4> QED
        BY <1>1, <4>1
    <3>2. m + (k - 1) \in Nat /\ (m + (k - 1)) + 1 = m + k /\ m + k \in Nat
      BY <2>2
    <3>3. Rank(S, m + k) = IF m + k \in S THEN Rank(S, m + (k - 1)) + 1 ELSE Rank(S, m + (k - 1))
      BY <3>2, RankNext
    <3>4. Rank(S, m) \in Nat /\ Rank(S, m + k) \in Nat /\ Rank(S, m + (k - 1)) \in Nat
      BY <3>2, RankNat
    <3> QED
      BY <2>2, <3>1, <3>3, <3>4
  <2> QED
    BY <2>1, <2>2
<1>2. n - m \in T
  <2>1. n - m \in Nat
    OBVIOUS
  <2> HIDE DEF T
  <2> QED
    BY <1>1, <2>1, Up
<1>3. m + (n - m) = n
  OBVIOUS
<1> QED
  BY <1>2, <1>3

LEMMA RankOrders ==
    ASSUME NEW S, NEW m \in Nat, NEW n \in S, n \in Nat, m < n
    PROVE  Rank(S, m) < Rank(S, n)
<1>1. n - 1 \in Nat /\ m <= n - 1 /\ (n - 1) + 1 = n
  OBVIOUS
<1>2. Rank(S, n) = Rank(S, n - 1) + 1
  BY <1>1, RankNext
<1>3. Rank(S, m) <= Rank(S, n - 1)
  BY <1>1, RankGrows
<1>4. Rank(S, m) \in Nat /\ Rank(S, n - 1) \in Nat
  BY <1>1, RankNat
<1> QED
  BY <1>2, <1>3, <1>4


-----------------------------------------------------------------------------
(* Sequences and loops                                                     *)

LEMMA FunctionIsSeq ==
    ASSUME NEW T, NEW n \in Nat, NEW f \in [1 .. n -> T]
    PROVE  f \in Seq(T) /\ Len(f) = n
  OBVIOUS

\* A part of a sequence, as its index runs.
IsPart(t, s, o, e) == Len(t) = e - o /\ \A i \in 1 .. e - o : t[i] = s[o + i]

LEMMA PartOf ==
    ASSUME NEW V, NEW s \in Seq(V), NEW o \in Nat, NEW e \in Nat, o <= e, e <= Len(s)
    PROVE  SubSeq(s, o + 1, e) \in Seq(V) /\ IsPart(SubSeq(s, o + 1, e), s, o, e)
<1> DEFINE t == SubSeq(s, o + 1, e)
<1>1. \A i \in 1 .. Len(s) : s[i] \in V
  BY ElementOfSeq
<1>2. \A i \in o + 1 .. e : s[i] \in V
  <2>1. Len(s) \in Nat
    OBVIOUS
  <2>2. \A i \in o + 1 .. e : i \in 1 .. Len(s)
    BY <2>1
  <2> QED
    BY <1>1, <2>2
<1>3. e - o \in Nat /\ \A i \in 1 .. e - o : o + i \in o + 1 .. e
  OBVIOUS
<1>4. t = [i \in 1 .. e - o |-> s[o + i]]
  <2>1. e - (o + 1) + 1 = e - o /\ \A i \in 1 .. e - o : (o + 1) + i - 1 = o + i
    OBVIOUS
  <2> QED
    BY <2>1
<1>5. t \in [1 .. e - o -> V]
  BY <1>2, <1>3, <1>4
<1> HIDE DEF t
<1>6. t \in Seq(V) /\ Len(t) = e - o
  BY <1>3, <1>5, FunctionIsSeq
<1>7. IsPart(t, s, o, e)
  BY <1>4, <1>6 DEF IsPart
<1> QED
  BY <1>6, <1>7 DEF t

IsPrepended(t, v, s) == /\ Len(t) = Len(s) + 1 /\ t[1] = v
                   /\ \A k \in 1 .. Len(s) : t[k + 1] = s[k]

LEMMA Prepended ==
    ASSUME NEW V, NEW v \in V, NEW s \in Seq(V)
    PROVE  <<v>> \o s \in Seq(V) /\ IsPrepended(<<v>> \o s, v, s)
<1>1. <<v>> \in Seq(V) /\ Len(<<v>>) = 1 /\ <<v>>[1] = v
  OBVIOUS
<1>2. \A k \in 1 .. Len(s) : k + 1 \in 1 .. 1 + Len(s) /\ ~ (k + 1 <= 1) /\ k + 1 - 1 = k
  OBVIOUS
<1>3. Len(s) \in Nat
  OBVIOUS
<1> DEFINE t == <<v>> \o s
<1>4. /\ t \in Seq(V) /\ Len(t) = Len(s) + 1 /\ t[1] = v
      /\ \A k \in 1 .. Len(s) : t[k + 1] = s[k]
  BY <1>1, <1>2, <1>3, ConcatProperties
<1> HIDE DEF t
<1>5. t \in Seq(V) /\ IsPrepended(t, v, s)
  BY <1>4 DEF IsPrepended
<1> QED
  BY <1>5 DEF t

\* Induction over sequences, from the left.
Grows(S, T) == /\ <<>> \in S
               /\ \A s \in Seq(T), t \in T : s \in S => Append(s, t) \in S

LEMMA SnocInduction ==
    ASSUME NEW T, NEW S, Grows(S, T)
    PROVE  Seq(T) \subseteq S
<1> DEFINE N == {k \in Nat : \A s \in Seq(T) : Len(s) = k => s \in S}
<1>1. ASSUME NEW k \in Nat, \A j \in 0 .. k - 1 : j \in N
      PROVE  k \in N
  <2> SUFFICES ASSUME NEW s \in Seq(T), Len(s) = k PROVE s \in S
    OBVIOUS
  <2>1. CASE s = <<>>
    BY <2>1 DEF Grows
  <2>2. CASE s # <<>>
    <3>1. PICK u \in Seq(T), t \in T : s = Append(u, t)
      BY <2>2, SequenceEmptyOrAppend, Zenon
    <3>5. Len(s) = Len(u) + 1
      BY <3>1, AppendProperties
    <3>2. k - 1 \in 0 .. k - 1
      <4>1. k # 0
        BY <2>2, EmptySeq
      <4> QED
        BY <4>1
    <3>3. k - 1 \in N
      BY <1>1, <3>2
    <3>4. u \in S
      <4>1. Len(u) = k - 1
        BY <3>5
      <4> QED
        BY <3>3, <4>1
    <3> QED
      BY <3>1, <3>4 DEF Grows
  <2> QED
    BY <2>1, <2>2
<1>2. \A k \in Nat : k \in N
  <2> HIDE DEF N
  <2> QED
    BY <1>1, Up
<1>3. ASSUME NEW s \in Seq(T) PROVE s \in S
  <2>1. Len(s) \in Nat
    OBVIOUS
  <2>2. Len(s) \in N
    BY <1>2, <2>1
  <2> QED
    BY <2>2
<1> QED
  BY <1>3

\* A loop every turn of which goes on further to the right, and what it writes.
Moves(turns, V) == /\ turns \in Seq([put : Seq(V), next : Nat])
                   /\ \A i \in 1 .. Len(turns) : turns[i].next > i

Steps(w, turns, V) ==
    /\ w \in [Nat -> Seq(V)]
    /\ \A i \in 1 .. Len(turns) : w[i] = turns[i].put \o w[turns[i].next]
    /\ \A i \in Nat : i > Len(turns) => w[i] = <<>>

LEMMA WritesSteps ==
    ASSUME NEW V, NEW turns, Moves(turns, V)
    PROVE  Steps(WrittenFrom(turns), turns, V)
  BY WrittenIs DEF Moves, Steps

LEMMA WrittenType ==
    ASSUME NEW V, NEW turns, Moves(turns, V)
    PROVE  Written(turns) \in Seq(V)
  BY WritesSteps DEF Steps, Written

\* One loop is the same as another from its turn n + 1 on.
Shifted(turns, later, n) ==
    /\ Len(turns) = n + Len(later)
    /\ \A i \in 1 .. Len(later) : /\ turns[n + i].put = later[i].put
                                  /\ turns[n + i].next = n + later[i].next

LEMMA WrittenShifted ==
    ASSUME NEW V, NEW turns, Moves(turns, V), NEW later, Moves(later, V), NEW n \in Nat,
           Shifted(turns, later, n)
    PROVE  WrittenFrom(turns)[n + 1] = Written(later)
<1> DEFINE w == WrittenFrom(turns)
           v == WrittenFrom(later)
           m == Len(later)
           S == {i \in 1 .. m + 1 : w[n + i] = v[i]}
<1>1. m \in Nat /\ Len(turns) = n + m
  BY DEF Moves, Shifted
<1>2. /\ \A i \in 1 .. m : v[i] = later[i].put \o v[later[i].next]
      /\ \A i \in Nat : i > m => v[i] = <<>>
  BY WritesSteps DEF Steps
<1>3. /\ \A i \in 1 .. n + m : w[i] = turns[i].put \o w[turns[i].next]
      /\ \A i \in Nat : i > n + m => w[i] = <<>>
  BY <1>1, WritesSteps DEF Steps
<1>4. \A i \in 1 .. m : /\ turns[n + i].put = later[i].put /\ turns[n + i].next = n + later[i].next
                        /\ later[i].next \in Nat /\ later[i].next > i
  <2>1. \A i \in 1 .. m : later[i] \in [put : Seq(V), next : Nat]
    BY ElementOfSeq DEF Moves
  <2> QED
    BY <2>1 DEF Moves, Shifted
<1> HIDE DEF w, v, m
<1>5. ASSUME NEW i \in 1 .. m + 1, \A j \in i + 1 .. m + 1 : j \in S
      PROVE  w[n + i] = v[i]
  <2>1. CASE i = m + 1
    <3>1. n + i \in Nat /\ n + i > n + m /\ i \in Nat /\ i > m
      BY <1>1, <2>1
    <3> QED
      BY <1>2, <1>3, <3>1
  <2>2. CASE i \in 1 .. m
    <3> DEFINE k == later[i].next
    <3>1. n + i \in 1 .. n + m
      BY <1>1, <2>2
    <3>2. w[n + i] = later[i].put \o w[n + k] /\ v[i] = later[i].put \o v[k] /\ k \in Nat /\ k > i
      BY <1>2, <1>3, <1>4, <2>2, <3>1
    <3> HIDE DEF k
    <3>3. CASE k <= m + 1
      <4>1. k \in i + 1 .. m + 1
        BY <1>1, <3>2, <3>3
      <4> QED
        BY <1>5, <3>2, <4>1
    <3>4. CASE ~ (k <= m + 1)
      <4>1. n + k \in Nat /\ n + k > n + m /\ k > m
        BY <1>1, <3>2, <3>4
      <4> QED
        BY <1>2, <1>3, <3>2, <4>1
    <3> QED
      BY <3>3, <3>4
  <2> QED
    BY <1>1, <2>1, <2>2
<1>6. 1 \in S
  <2>1. \A i \in 1 .. m + 1 : (\A j \in i + 1 .. m + 1 : j \in S) => i \in S
    BY <1>5
  <2>2. 1 \in Nat /\ m + 1 \in Nat /\ 1 \in 1 .. m + 1
    BY <1>1
  <2> HIDE DEF S
  <2> QED
    BY <2>1, <2>2, Down
<1> QED
  BY <1>6 DEF w, v, Written

\* A sequence whose first element is known is what comes after it, prepended.
LEMMA OneTurn ==
    ASSUME NEW V, NEW turns, Moves(turns, V), Len(turns) > 0
    PROVE  Written(turns) = turns[1].put \o WrittenFrom(turns)[turns[1].next]
<1>1. Len(turns) \in Nat
  BY DEF Moves
<1>2. 1 \in 1 .. Len(turns)
  BY <1>1
<1>3. Steps(WrittenFrom(turns), turns, V)
  BY WritesSteps
<1>4. WrittenFrom(turns)[1] = turns[1].put \o WrittenFrom(turns)[turns[1].next]
  BY <1>2, <1>3 DEF Steps
<1> QED
  BY <1>4 DEF Written

LEMMA NoTurn ==
    ASSUME NEW V, NEW turns, Moves(turns, V), Len(turns) = 0
    PROVE  Written(turns) = <<>>
<1>1. 1 \in Nat /\ 1 > Len(turns)
  OBVIOUS
<1> QED
  BY <1>1, WritesSteps DEF Steps, Written

\* Concatenation is associative, and <<>> is its unit.
LEMMA Joins ==
    ASSUME NEW V, NEW a \in Seq(V), NEW b \in Seq(V), NEW c \in Seq(V)
    PROVE  /\ a \o b \in Seq(V) /\ Len(a \o b) = Len(a) + Len(b)
           /\ (a \o b) \o c = a \o (b \o c) /\ a \o <<>> = a /\ <<>> \o a = a
  BY ConcatProperties, ConcatAssociative, ConcatEmptySeq

Associate(a, b, c) == (a \o b) \o c = a \o (b \o c)

LEMMA Assoc ==
    ASSUME NEW V, NEW a \in Seq(V), NEW b \in Seq(V), NEW c \in Seq(V)
    PROVE  Associate(a, b, c)
  BY ConcatAssociative DEF Associate

\* Turns that each write one part and go on to the next.
PartTurns(parts) == [i \in DOMAIN parts |-> [put |-> parts[i], next |-> i + 1]]

LEMMA PartTurnsMove ==
    ASSUME NEW V, NEW parts \in Seq(Seq(V))
    PROVE  Moves(PartTurns(parts), V) /\ Len(PartTurns(parts)) = Len(parts)
           /\ \A i \in 1 .. Len(parts) : /\ PartTurns(parts)[i].put = parts[i]
                                         /\ PartTurns(parts)[i].next = i + 1
<1> DEFINE t == PartTurns(parts)
           n == Len(parts)
<1>1. n \in Nat /\ DOMAIN parts = 1 .. n /\ \A i \in 1 .. n : parts[i] \in Seq(V)
  BY LenProperties, ElementOfSeq
<1>2. t = [i \in 1 .. n |-> [put |-> parts[i], next |-> i + 1]]
  BY <1>1 DEF PartTurns
<1> HIDE DEF t, n
<1>3. \A i \in 1 .. n : t[i] = [put |-> parts[i], next |-> i + 1]
  BY <1>2
<1>4. \A i \in 1 .. n : i + 1 \in Nat /\ i + 1 > i
  BY <1>1
<1>5. t \in [1 .. n -> [put : Seq(V), next : Nat]]
  BY <1>1, <1>2, <1>4
<1>6. t \in Seq([put : Seq(V), next : Nat]) /\ Len(t) = n
  BY <1>1, <1>5, FunctionIsSeq
<1>7. \A i \in 1 .. n : t[i].put = parts[i] /\ t[i].next = i + 1 /\ t[i].next > i
  <2>1. ASSUME NEW i \in 1 .. n PROVE t[i].put = parts[i] /\ t[i].next = i + 1
    <3>1. t[i] = [put |-> parts[i], next |-> i + 1]
      BY <1>3
    <3> QED
      BY <3>1
  <2> QED
    BY <1>4, <2>1
<1>8. Moves(t, V)
  BY <1>6, <1>7 DEF Moves
<1> QED
  BY <1>6, <1>7, <1>8 DEF t, n

LEMMA ConcatType ==
    ASSUME NEW V, NEW parts \in Seq(Seq(V))
    PROVE  Concat(parts) \in Seq(V)
  BY PartTurnsMove, WrittenType DEF Concat, PartTurns

LEMMA ConcatNone == ASSUME NEW V PROVE Concat(<<>>) = <<>>
<1>1. <<>> \in Seq(Seq(V)) /\ Len(<<>>) = 0
  OBVIOUS
<1>2. Moves(PartTurns(<<>>), V) /\ Len(PartTurns(<<>>)) = 0
  BY <1>1, PartTurnsMove
<1>3. Concat(<<>>) = Written(PartTurns(<<>>))
  BY DEF Concat, PartTurns
<1> QED
  BY <1>2, <1>3, NoTurn

LEMMA ConcatSnoc ==
    ASSUME NEW V, NEW parts \in Seq(Seq(V)), NEW p \in Seq(V)
    PROVE  Concat(Append(parts, p)) = Concat(parts) \o p
<1> DEFINE more == Append(parts, p)
           n == Len(parts)
           w == WrittenFrom(PartTurns(more))
           v == WrittenFrom(PartTurns(parts))
           S == {i \in 1 .. n + 1 : w[i] = v[i] \o p}
<1>1. n \in Nat
  OBVIOUS
<1>2. /\ more \in Seq(Seq(V)) /\ Len(more) = n + 1 /\ \A i \in 1 .. n : more[i] = parts[i]
      /\ more[n + 1] = p
  BY <1>1, AppendProperties
<1> HIDE DEF more, n
<1>3. /\ v \in [Nat -> Seq(V)] /\ \A i \in 1 .. n : v[i] = parts[i] \o v[i + 1]
      /\ \A i \in Nat : i > n => v[i] = <<>>
  <2>1. /\ Moves(PartTurns(parts), V) /\ Len(PartTurns(parts)) = n
        /\ \A i \in 1 .. n : PartTurns(parts)[i].put = parts[i] /\ PartTurns(parts)[i].next = i + 1
    BY PartTurnsMove DEF n
  <2>2. Steps(v, PartTurns(parts), V)
    BY <2>1, WritesSteps
  <2> HIDE DEF v
  <2> QED
    BY <2>1, <2>2 DEF Steps
<1>4. /\ w \in [Nat -> Seq(V)] /\ \A i \in 1 .. n + 1 : w[i] = more[i] \o w[i + 1]
      /\ \A i \in Nat : i > n + 1 => w[i] = <<>>
  <2>1. /\ Moves(PartTurns(more), V) /\ Len(PartTurns(more)) = n + 1
        /\ \A i \in 1 .. n + 1 : PartTurns(more)[i].put = more[i] /\ PartTurns(more)[i].next = i + 1
    BY <1>2, PartTurnsMove
  <2>2. Steps(w, PartTurns(more), V)
    BY <2>1, WritesSteps
  <2> HIDE DEF w
  <2> QED
    BY <2>1, <2>2 DEF Steps
<1> HIDE DEF w, v
<1>5. \A i \in 1 .. n : parts[i] \in Seq(V)
  BY <1>1, ElementOfSeq DEF n
<1>6. w[n + 1] = v[n + 1] \o p
  <2>1. n + 1 \in 1 .. n + 1 /\ (n + 1) + 1 \in Nat /\ (n + 1) + 1 > n + 1 /\ n + 1 > n
        /\ n + 1 \in Nat
    BY <1>1
  <2>2. w[n + 1] = p \o <<>> /\ v[n + 1] = <<>>
    BY <1>2, <1>3, <1>4, <2>1
  <2> QED
    BY <2>2, Joins
<1>7. ASSUME NEW i \in 1 .. n, w[i + 1] = v[i + 1] \o p PROVE w[i] = v[i] \o p
  <2>1. i \in 1 .. n + 1 /\ i + 1 \in Nat
    BY <1>1
  <2> DEFINE a == parts[i]
             b == v[i + 1]
  <2>2. w[i] = a \o (b \o p)
    BY <1>2, <1>4, <1>7, <2>1
  <2>3. b \in Seq(V) /\ a \in Seq(V) /\ v[i] = a \o b
    BY <1>3, <1>5, <2>1
  <2> HIDE DEF a, b
  <2>4. (a \o b) \o p = a \o (b \o p)
    BY <2>3, Joins
  <2> QED
    BY <2>2, <2>3, <2>4
<1>8. 1 \in S
  <2>1. ASSUME NEW i \in 1 .. n + 1, \A j \in i + 1 .. n + 1 : j \in S
        PROVE  i \in S
    <3>1. CASE i = n + 1
      BY <1>6, <3>1
    <3>2. CASE i # n + 1
      <4>1. i \in 1 .. n /\ i + 1 \in i + 1 .. n + 1
        BY <1>1, <3>2
      <4> QED
        BY <1>7, <2>1, <4>1
    <3> QED
      BY <3>1, <3>2
  <2>2. 1 \in Nat /\ n + 1 \in Nat /\ 1 \in 1 .. n + 1
    BY <1>1
  <2> HIDE DEF S
  <2> QED
    BY <2>1, <2>2, Down
<1> QED
  BY <1>8 DEF Concat, PartTurns, Written, w, v, more

-----------------------------------------------------------------------------
(* ASCII transfers                                                         *)

\* What is left to write of a segment that came after the first o bytes of a
\* stream, at each byte of it: one byte for each byte of K.
CrlfLeft(bytes, o, K, i, left) ==
    /\ Len(left) = Rank(K, o + Len(bytes)) - Rank(K, o + i - 1)
    /\ \A j \in i .. Len(bytes) :
          o + j \in K => left[Rank(K, o + j) - Rank(K, o + i - 1)] = bytes[j]

CrlfTurns(bytes) == [i \in DOMAIN bytes |->
                         IF PairAt(bytes, i) THEN [put |-> <<"LF">>, next |-> i + 2]
                         ELSE [put |-> <<bytes[i]>>, next |-> i + 1]]

LEMMA CrlfTurnsAre ==
    ASSUME NEW V, NEW bytes \in Seq(V)
    PROVE  LET w == WrittenFrom(CrlfTurns(bytes)) IN
           /\ w \in [Nat -> Seq(V)]
           /\ \A i \in 1 .. Len(bytes) :
                 w[i] = IF PairAt(bytes, i) THEN <<"LF">> \o w[i + 2]
                        ELSE <<bytes[i]>> \o w[i + 1]
           /\ \A i \in Nat : i > Len(bytes) => w[i] = <<>>
<1> DEFINE turns == CrlfTurns(bytes)
           n == Len(bytes)
<1>1. n \in Nat /\ DOMAIN bytes = 1 .. n /\ \A i \in 1 .. n : bytes[i] \in V
  BY LenProperties, ElementOfSeq
<1>2. \A i \in 1 .. n : PairAt(bytes, i) => "LF" \in V
  BY <1>1 DEF PairAt
<1>3. \A i \in 1 .. n : /\ turns[i] \in [put : Seq(V), next : Nat] /\ turns[i].next > i
                        /\ turns[i].put = IF PairAt(bytes, i) THEN <<"LF">> ELSE <<bytes[i]>>
                        /\ turns[i].next = IF PairAt(bytes, i) THEN i + 2 ELSE i + 1
  BY <1>1, <1>2 DEF CrlfTurns
<1>4. turns \in Seq([put : Seq(V), next : Nat]) /\ Len(turns) = n
  <2>1. turns = [i \in 1 .. n |-> turns[i]]
    BY <1>1 DEF CrlfTurns
  <2> HIDE DEF turns, n
  <2>2. turns \in [1 .. n -> [put : Seq(V), next : Nat]]
    BY <1>3, <2>1
  <2> QED
    BY <1>1, <2>2, FunctionIsSeq
<1> HIDE DEF turns, n
<1>5. /\ WrittenFrom(turns) \in [Nat -> Seq(V)]
      /\ \A i \in 1 .. n : WrittenFrom(turns)[i] = turns[i].put \o WrittenFrom(turns)[turns[i].next]
      /\ \A i \in Nat : i > n => WrittenFrom(turns)[i] = <<>>
  BY <1>3, <1>4, WrittenIs
<1>6. \A i \in 1 .. n :
         WrittenFrom(turns)[i] = IF PairAt(bytes, i) THEN <<"LF">> \o WrittenFrom(turns)[i + 2]
                                 ELSE <<bytes[i]>> \o WrittenFrom(turns)[i + 1]
  BY <1>3, <1>5
<1> QED
  BY <1>5, <1>6 DEF turns, n

LEMMA CrlfConverts ==
    ASSUME NEW V, NEW bytes \in Seq(V), NEW o \in Nat, NEW K,
           \A i \in 1 .. Len(bytes) : o + i \in K <=> ~ PairAt(bytes, i)
    PROVE  LET w == Written(CrlfTurns(bytes))
           IN  w \in Seq(V) /\ CrlfLeft(bytes, o, K, 1, w)
<1> DEFINE n == Len(bytes)
           w == WrittenFrom(CrlfTurns(bytes))
           R(k) == Rank(K, o + k)
           S == {i \in 1 .. n + 1 : CrlfLeft(bytes, o, K, i, w[i])}
<1>1. n \in Nat /\ \A i \in 1 .. n : bytes[i] \in V
  BY LenProperties, ElementOfSeq
<1>2. w \in [Nat -> Seq(V)]
  BY CrlfTurnsAre
<1>3. \A i \in 1 .. n : w[i] = IF PairAt(bytes, i) THEN <<"LF">> \o w[i + 2]
                               ELSE <<bytes[i]>> \o w[i + 1]
  BY CrlfTurnsAre
<1>4. w[n + 1] = <<>>
  BY <1>1, CrlfTurnsAre
<1> HIDE DEF w, n
<1>5. \A k \in 0 .. n : R(k) \in Nat
  <2> SUFFICES ASSUME NEW k \in 0 .. n PROVE R(k) \in Nat
    OBVIOUS
  <2>1. o + k \in Nat
    BY <1>1
  <2> QED
    BY <2>1, RankNat
<1>6. \A k \in 0 .. n - 1 : R(k + 1) = IF o + k + 1 \in K THEN R(k) + 1 ELSE R(k)
  <2> SUFFICES ASSUME NEW k \in 0 .. n - 1
               PROVE  R(k + 1) = IF o + k + 1 \in K THEN R(k) + 1 ELSE R(k)
    OBVIOUS
  <2>1. o + k \in Nat /\ o + (k + 1) = (o + k) + 1
    OBVIOUS
  <2> QED
    BY <2>1, RankNext
<1>7. \A k \in 0 .. n, j \in 0 .. n : k < j /\ o + j \in K => R(k) < R(j)
  <2> SUFFICES ASSUME NEW k \in 0 .. n, NEW j \in 0 .. n, k < j, o + j \in K
               PROVE  R(k) < R(j)
    OBVIOUS
  <2>1. o + k \in Nat /\ o + j \in Nat /\ o + k < o + j
    BY <1>1
  <2> QED
    BY <2>1, RankOrders
<1> DEFINE Is(i, left) == /\ Len(left) = R(n) - R(i - 1)
                          /\ \A j \in i .. n : o + j \in K => left[R(j) - R(i - 1)] = bytes[j]
<1>8. \A i \in 1 .. n + 1 : CrlfLeft(bytes, o, K, i, w[i]) <=> Is(i, w[i])
  <2>1. \A i \in 1 .. n + 1 : o + i - 1 = o + (i - 1)
    BY <1>1
  <2> QED
    BY <2>1 DEF CrlfLeft, n
<1> HIDE DEF R
<1>9. Is(n + 1, w[n + 1])
  <2>1. (n + 1) - 1 = n /\ Len(<<>>) = 0
    BY <1>1
  <2>2. R(n) \in Nat
    BY <1>1, <1>5
  <2>3. \A j \in n + 1 .. n : FALSE
    BY <1>1
  <2> QED
    BY <1>4, <2>1, <2>2, <2>3
<1>10. ASSUME NEW i \in 1 .. n, ~ PairAt(bytes, i), Is(i + 1, w[i + 1])
       PROVE  Is(i, w[i])
  <2>1. w[i] = <<bytes[i]>> \o w[i + 1] /\ w[i + 1] \in Seq(V) /\ bytes[i] \in V
    <3>1. i + 1 \in Nat
      OBVIOUS
    <3> QED
      BY <1>1, <1>2, <1>3, <1>10, <3>1
  <2>2. Len(w[i]) = Len(w[i + 1]) + 1 /\ w[i][1] = bytes[i]
        /\ \A k \in 1 .. Len(w[i + 1]) : w[i][k + 1] = w[i + 1][k]
    <3>1. IsPrepended(w[i], bytes[i], w[i + 1])
      BY <2>1, Prepended
    <3> QED
      BY <3>1 DEF IsPrepended
  <2>3. R(i) = R(i - 1) + 1
    <3>1. i - 1 \in 0 .. n - 1 /\ o + (i - 1) + 1 = o + i /\ (i - 1) + 1 = i
      BY <1>1
    <3> QED
      BY <1>6, <1>10, <3>1 DEF n
  <2>4. R(i) \in Nat /\ R(i - 1) \in Nat /\ R(n) \in Nat /\ (i + 1) - 1 = i
    BY <1>1, <1>5
  <2>5. Len(w[i + 1]) = R(n) - R(i)
    BY <1>10, <2>4
  <2>6. ASSUME NEW j \in i .. n, o + j \in K
        PROVE  w[i][R(j) - R(i - 1)] = bytes[j]
    <3>1. CASE j = i
      BY <2>2, <2>3, <2>4, <3>1
    <3>2. CASE j # i
      <4>1. j \in i + 1 .. n /\ R(j) \in Nat /\ R(i) < R(j) /\ R(j) <= R(n)
        <5>1. j \in i + 1 .. n /\ j \in 0 .. n /\ i \in 0 .. n
          BY <3>2, <1>1
        <5>2. R(j) <= R(n)
          BY <1>1, <5>1, RankGrows DEF R
        <5> QED
          BY <1>5, <1>7, <2>6, <5>1, <5>2
      <4>2. w[i + 1][R(j) - R(i)] = bytes[j]
        BY <1>10, <2>4, <2>6, <4>1
      <4>3. R(j) - R(i) \in 1 .. Len(w[i + 1]) /\ (R(j) - R(i)) + 1 = R(j) - R(i - 1)
        BY <2>3, <2>4, <2>5, <4>1
      <4> QED
        BY <2>2, <4>2, <4>3
    <3> QED
      BY <3>1, <3>2
  <2> QED
    BY <2>2, <2>3, <2>4, <2>5, <2>6
<1>11. ASSUME NEW i \in 1 .. n, PairAt(bytes, i), Is(i + 2, w[i + 2])
       PROVE  Is(i, w[i])
  <2>1. /\ i + 1 \in 1 .. n /\ bytes[i + 1] = "LF" /\ ~ PairAt(bytes, i + 1)
        /\ o + (i + 1) \in K /\ o + i \notin K
    <3>1. i \in Nat /\ i < n /\ bytes[i + 1] = "LF"
      BY <1>1, <1>11 DEF PairAt, n
    <3>2. i + 1 \in 1 .. n
      BY <1>1, <3>1
    <3>3. ~ PairAt(bytes, i + 1)
      BY <3>1 DEF PairAt
    <3> QED
      BY <1>11, <3>1, <3>2, <3>3 DEF n
  <2>2. w[i] = <<"LF">> \o w[i + 2] /\ w[i + 2] \in Seq(V) /\ "LF" \in V
    <3>1. i + 2 \in Nat
      OBVIOUS
    <3>2. w[i] = <<"LF">> \o w[i + 2]
      BY <1>3, <1>11
    <3> QED
      BY <1>1, <1>2, <2>1, <3>1, <3>2
  <2>3. Len(w[i]) = Len(w[i + 2]) + 1 /\ w[i][1] = "LF"
        /\ \A k \in 1 .. Len(w[i + 2]) : w[i][k + 1] = w[i + 2][k]
    <3>1. IsPrepended(w[i], "LF", w[i + 2])
      BY <2>2, Prepended
    <3> QED
      BY <3>1 DEF IsPrepended
  <2>4. R(i) = R(i - 1) /\ R(i + 1) = R(i) + 1
    <3>1. /\ i - 1 \in 0 .. n - 1 /\ o + (i - 1) + 1 = o + i /\ (i - 1) + 1 = i
          /\ i \in 0 .. n - 1 /\ o + i + 1 = o + (i + 1)
      BY <1>1, <2>1
    <3> QED
      BY <1>6, <2>1, <3>1
  <2>5. R(i) \in Nat /\ R(i + 1) \in Nat /\ R(i - 1) \in Nat /\ R(n) \in Nat /\ (i + 2) - 1 = i + 1
    BY <1>1, <1>5, <2>1
  <2>6. Len(w[i + 2]) = R(n) - R(i + 1)
    BY <1>11, <2>5
  <2>7. ASSUME NEW j \in i .. n, o + j \in K
        PROVE  w[i][R(j) - R(i - 1)] = bytes[j]
    <3>1. CASE j = i
      BY <2>1, <2>7, <3>1
    <3>2. CASE j = i + 1
      <4>1. R(j) - R(i - 1) = 1
        BY <2>4, <2>5, <3>2
      <4> QED
        BY <2>1, <2>3, <3>2, <4>1
    <3>3. CASE j # i /\ j # i + 1
      <4>1. j \in i + 2 .. n /\ R(j) \in Nat /\ R(i + 1) < R(j) /\ R(j) <= R(n)
        <5>1. j \in i + 2 .. n /\ j \in 0 .. n /\ i + 1 \in 0 .. n /\ i + 1 < j
          BY <3>3, <1>1
        <5>2. R(j) <= R(n)
          BY <1>1, <5>1, RankGrows DEF R
        <5> QED
          BY <1>5, <1>7, <2>7, <5>1, <5>2
      <4>2. w[i + 2][R(j) - R(i + 1)] = bytes[j]
        BY <1>11, <2>5, <2>7, <4>1
      <4>3. R(j) - R(i + 1) \in 1 .. Len(w[i + 2])
        BY <2>5, <2>6, <4>1
      <4>4. (R(j) - R(i + 1)) + 1 = R(j) - R(i - 1)
        BY <2>4, <2>5, <4>1
      <4> QED
        BY <2>3, <4>2, <4>3, <4>4
    <3> QED
      BY <3>1, <3>2, <3>3
  <2> QED
    BY <2>3, <2>4, <2>5, <2>6, <2>7
<1>12. \A i \in 1 .. n + 1 : i \in S
  <2>1. ASSUME NEW i \in 1 .. n + 1, \A j \in i + 1 .. n + 1 : j \in S
        PROVE  Is(i, w[i])
    <3>1. CASE i = n + 1
      BY <1>9, <3>1
    <3>2. CASE i \in 1 .. n /\ ~ PairAt(bytes, i)
      <4>1. i + 1 \in i + 1 .. n + 1 /\ i + 1 \in 1 .. n + 1
        BY <1>1, <3>2
      <4>2. Is(i + 1, w[i + 1])
        BY <1>8, <2>1, <4>1
      <4> HIDE DEF Is
      <4> QED
        BY <1>10, <3>2, <4>2
    <3>3. CASE i \in 1 .. n /\ PairAt(bytes, i)
      <4>1. i + 2 \in i + 1 .. n + 1 /\ i + 2 \in 1 .. n + 1
        BY <1>1, <3>3 DEF PairAt, n
      <4>2. Is(i + 2, w[i + 2])
        BY <1>8, <2>1, <4>1
      <4> HIDE DEF Is
      <4> QED
        BY <1>11, <3>3, <4>2
    <3> QED
      BY <1>1, <3>1, <3>2, <3>3
  <2>2. \A i \in 1 .. n + 1 : (\A j \in i + 1 .. n + 1 : j \in S) => i \in S
    BY <1>8, <2>1
  <2>3. 1 \in Nat /\ n + 1 \in Nat
    BY <1>1
  <2> HIDE DEF S
  <2> QED
    BY <2>2, <2>3, Down
<1>13. CrlfLeft(bytes, o, K, 1, w[1]) /\ w[1] \in Seq(V)
  BY <1>1, <1>2, <1>12
<1> QED
  BY <1>13 DEF Written, w

\* crlf_to_lf into a buffer as large as its input never fails.
LEMMA CrlfToLf ==
    ASSUME NEW V, Small[1] \notin V, NEW bytes \in Seq(V), NEW o \in Nat, NEW K,
           NEW size \in Nat, Len(bytes) <= size,
           \A i \in 1 .. Len(bytes) : o + i \in K <=> ~ PairAt(bytes, i)
    PROVE  LET w == crlf_to_lf(bytes, size)
           IN  /\ w \in Seq(V) /\ w # Small /\ CrlfLeft(bytes, o, K, 1, w)
               /\ w = Written(CrlfTurns(bytes))
<1> DEFINE w == Written(CrlfTurns(bytes))
<1>1. w \in Seq(V) /\ CrlfLeft(bytes, o, K, 1, w)
  BY CrlfConverts
<1>2. crlf_to_lf(bytes, size) = Within(size, w)
  BY DEF crlf_to_lf, CrlfTurns
<1> HIDE DEF w
<1>3. Len(w) <= Len(bytes)
  <2>1. Len(bytes) \in Nat /\ o + Len(bytes) \in Nat /\ o + 1 - 1 = o
    OBVIOUS
  <2>2. Len(w) = Rank(K, o + Len(bytes)) - Rank(K, o)
    BY <1>1, <2>1 DEF CrlfLeft
  <2>3. Rank(K, o + Len(bytes)) - Rank(K, o) <= (o + Len(bytes)) - o
    BY <2>1, RankGrows
  <2> QED
    BY <2>1, <2>2, <2>3
<1>4. Within(size, w) = w
  BY <1>1, <1>3 DEF Within
<1>5. w # Small
  <2>1. Len(w) = 1 => w[1] \in V
    <3>1. Len(w) = 1 => 1 \in 1 .. Len(w)
      OBVIOUS
    <3> QED
      BY <1>1, <3>1, ElementOfSeq
  <2>2. Len(Small) = 1
    BY DEF Small
  <2> QED
    BY <2>1, <2>2
<1> QED
  BY <1>1, <1>2, <1>4, <1>5 DEF w

\* The cuts of a stream grow up to its length.
LEMMA CutsGrow ==
    ASSUME NEW stream, Len(stream) \in Nat, NEW cuts \in Seq(Nat), IsCut(stream, cuts)
    PROVE  /\ \A k \in 1 .. Len(cuts) : Start(cuts, k) \in Nat /\ Start(cuts, k) < cuts[k]
                                        /\ cuts[k] - Start(cuts, k) <= Buffer
           /\ \A j, k \in 1 .. Len(cuts) : j < k => cuts[j] <= Start(cuts, k)
           /\ \A k \in 1 .. Len(cuts) : cuts[k] <= Len(stream)
<1> DEFINE m == Len(cuts)
<1>1. m \in Nat /\ DOMAIN cuts = 1 .. m /\ \A k \in 1 .. m : cuts[k] \in Nat
  BY LenProperties, ElementOfSeq
<1>2. cuts = <<>> <=> m = 0
  BY <1>1
<1> HIDE DEF m
<1>3. \A k \in 1 .. m : Start(cuts, k) \in Nat
  BY <1>1 DEF Start
<1>4. \A k \in 1 .. m : Start(cuts, k) < cuts[k] /\ cuts[k] - Start(cuts, k) <= Buffer
  <2>1. \A k \in 1 .. m : cuts[k] - Start(cuts, k) \in 1 .. Buffer
    BY <1>1 DEF IsCut
  <2> SUFFICES ASSUME NEW k \in 1 .. m
               PROVE  Start(cuts, k) < cuts[k] /\ cuts[k] - Start(cuts, k) <= Buffer
    OBVIOUS
  <2>2. cuts[k] \in Nat /\ Start(cuts, k) \in Nat /\ cuts[k] - Start(cuts, k) \in 1 .. Buffer
    BY <1>1, <1>3, <2>1
  <2> QED
    BY <2>2, BufferIsPositive
<1>5. ASSUME NEW j \in 1 .. m PROVE \A k \in 1 .. m : j < k => cuts[j] <= Start(cuts, k)
  <2> DEFINE S == {k \in Nat : k \in j + 1 .. m => cuts[j] <= Start(cuts, k)}
  <2>1. ASSUME NEW k \in Nat, \A i \in 0 .. k - 1 : i \in S
        PROVE  k \in S
    <3> SUFFICES ASSUME k \in j + 1 .. m PROVE cuts[j] <= Start(cuts, k)
      OBVIOUS
    <3>1. Start(cuts, k) = cuts[k - 1] /\ k - 1 \in 1 .. m
      BY <1>1 DEF Start
    <3>2. CASE k = j + 1
      <4>1. k - 1 = j
        BY <3>2
      <4> QED
        BY <1>1, <3>1, <4>1
    <3>3. CASE k # j + 1
      <4>1. k - 1 \in 0 .. k - 1 /\ k - 1 \in j + 1 .. m
        BY <1>1, <3>3
      <4>2. cuts[j] <= Start(cuts, k - 1)
        BY <2>1, <4>1
      <4> QED
        BY <1>1, <1>3, <1>4, <3>1, <4>2
    <3> QED
      BY <3>2, <3>3
  <2>2. \A k \in Nat : k \in S
    <3> HIDE DEF S
    <3> QED
      BY <2>1, Up
  <2> QED
    BY <1>1, <2>2
<1>6. \A k \in 1 .. m : cuts[k] <= Len(stream)
  <2> SUFFICES ASSUME NEW k \in 1 .. m PROVE cuts[k] <= Len(stream)
    OBVIOUS
  <2>1. Len(stream) = cuts[m] /\ m \in 1 .. m
    BY <1>1, <1>2 DEF IsCut, m
  <2>2. CASE k = m
    BY <1>1, <2>1, <2>2
  <2>3. CASE k # m
    <3>1. cuts[k] <= Start(cuts, m) /\ Start(cuts, m) < cuts[m] /\ Start(cuts, m) \in Nat
      BY <1>1, <1>3, <1>4, <1>5, <2>1, <2>3
    <3> QED
      BY <1>1, <2>1, <3>1
  <2> QED
    BY <2>2, <2>3
<1> QED
  BY <1>3, <1>4, <1>5, <1>6 DEF m

\* What the loop stores: as Kept, with the CRs that recv split from their LF.
Taken(stream, cuts) == {i \in DOMAIN stream : PairAt(stream, i) => i \in Range(cuts)}

\* Of a segment, all is taken but the CR of its pairs.
LEMMA TakenOfSegment ==
    ASSUME NEW V, NEW stream \in Seq(V), NEW cuts \in Seq(Nat), IsCut(stream, cuts),
           NEW k \in 1 .. Len(cuts)
    PROVE  LET o == Start(cuts, k)
               segment == Segment(stream, cuts, k)
           IN  /\ segment \in Seq(V) /\ Len(segment) = cuts[k] - o
               /\ \A i \in 1 .. Len(segment) : segment[i] = stream[o + i]
               /\ \A i \in 1 .. Len(segment) :
                     o + i \in Taken(stream, cuts) <=> ~ PairAt(segment, i)
<1> DEFINE o == Start(cuts, k)
           e == cuts[k]
           n == Len(stream)
           segment == Segment(stream, cuts, k)
<1>1. /\ n \in Nat /\ DOMAIN stream = 1 .. n /\ \A i \in 1 .. n : stream[i] \in V
      /\ DOMAIN cuts = 1 .. Len(cuts) /\ Len(cuts) \in Nat
      /\ \A j \in 1 .. Len(cuts) : cuts[j] \in Nat
  BY LenProperties, ElementOfSeq
<1>2. /\ o \in Nat /\ o < e /\ e <= n /\ e \in Nat
      /\ \A j \in 1 .. Len(cuts) : (j < k => cuts[j] <= o) /\ (j > k => e <= Start(cuts, j))
      /\ \A j \in 1 .. Len(cuts) : Start(cuts, j) < cuts[j] /\ Start(cuts, j) \in Nat
  BY <1>1, CutsGrow
<1>3. segment \in Seq(V) /\ Len(segment) = e - o /\ \A i \in 1 .. e - o : segment[i] = stream[o + i]
  <2>1. segment = SubSeq(stream, o + 1, e)
    BY DEF Segment
  <2> HIDE DEF o, e, n, segment
  <2>2. IsPart(segment, stream, o, e) /\ segment \in Seq(V)
    <3>1. o <= e /\ e <= Len(stream)
      BY <1>2 DEF n
    <3> QED
      BY <1>2, <2>1, <3>1, PartOf
  <2> QED
    BY <2>2 DEF IsPart
<1>4. \A i \in 1 .. n : i \in Range(cuts) <=> \E j \in 1 .. Len(cuts) : cuts[j] = i
  BY <1>1 DEF Range
<1> HIDE DEF o, e, n, segment
<1>5. ASSUME NEW i \in 1 .. e - o
      PROVE  o + i \in Taken(stream, cuts) <=> ~ PairAt(segment, i)
  <2>1. o + i \in 1 .. n
    BY <1>1, <1>2
  <2>2. CASE i = e - o
    <3>1. o + i = e /\ ~ PairAt(segment, i)
      BY <1>2, <1>3, <2>2 DEF PairAt
    <3>2. e \in Range(cuts)
      BY <1>1, <1>4, <2>1, <3>1 DEF e
    <3> QED
      BY <1>1, <2>1, <3>1, <3>2 DEF Taken
  <2>3. CASE i # e - o
    <3>1. i + 1 \in 1 .. e - o /\ o + i < e /\ o + i < n /\ o + (i + 1) = (o + i) + 1
      BY <1>1, <1>2, <2>3
    <3>2. \A j \in 1 .. Len(cuts) : cuts[j] # o + i
      <4> SUFFICES ASSUME NEW j \in 1 .. Len(cuts), cuts[j] = o + i PROVE FALSE
        OBVIOUS
      <4>1. CASE j < k
        BY <1>2, <4>1
      <4>2. CASE j = k
        BY <3>1, <4>2, <1>2 DEF e
      <4>3. CASE j > k
        BY <1>2, <3>1, <4>3
      <4> QED
        BY <1>1, <4>1, <4>2, <4>3
    <3>3. o + i \notin Range(cuts)
      BY <1>4, <2>1, <3>2
    <3>4. segment[i] = stream[o + i] /\ segment[i + 1] = stream[(o + i) + 1]
      BY <1>3, <3>1
    <3>5. i < Len(segment) /\ o + i < Len(stream)
      BY <1>2, <1>3, <2>3, <3>1 DEF n
    <3>6. PairAt(segment, i) <=> PairAt(stream, o + i)
      BY <3>4, <3>5 DEF PairAt
    <3> QED
      BY <1>1, <2>1, <3>3, <3>6 DEF Taken
  <2> QED
    BY <2>2, <2>3
<1> QED
  BY <1>3, <1>5 DEF o, e, segment

\* WriteAt replaces its bytes and leaves the others.
IsWritten(f, file, at, bytes) ==
    LET end == at + Len(bytes)
    IN  /\ Len(f) = IF end > Len(file) THEN end ELSE Len(file)
        /\ \A i \in 1 .. Len(bytes) : f[at + i] = bytes[i]
        /\ \A i \in 1 .. Len(file) : i \notin at + 1 .. end => f[i] = file[i]

LEMMA WriteAtIs ==
    ASSUME NEW W, "zero" \in W, NEW file \in Seq(W), NEW bytes \in Seq(W), NEW at \in Nat
    PROVE  WriteAt(file, at, bytes) \in Seq(W)
           /\ IsWritten(WriteAt(file, at, bytes), file, at, bytes)
<1> DEFINE end == at + Len(bytes)
           n == IF end > Len(file) THEN end ELSE Len(file)
           f == WriteAt(file, at, bytes)
<1>1. /\ Len(bytes) \in Nat /\ Len(file) \in Nat
      /\ \A i \in 1 .. Len(bytes) : bytes[i] \in W
      /\ DOMAIN file = 1 .. Len(file) /\ \A i \in 1 .. Len(file) : file[i] \in W
  BY LenProperties, ElementOfSeq
<1>2. f = [i \in 1 .. n |-> IF i \in at + 1 .. end THEN bytes[i - at]
                            ELSE IF i \in DOMAIN file THEN file[i] ELSE "zero"]
  BY DEF WriteAt
<1>3. end \in Nat /\ n \in Nat /\ n >= end /\ n >= Len(file)
  BY <1>1
<1>4. \A i \in 1 .. n : f[i] = IF i \in at + 1 .. end THEN bytes[i - at]
                               ELSE IF i \in DOMAIN file THEN file[i] ELSE "zero"
  BY <1>2
<1>5. \A i \in 1 .. n : f[i] \in W
  <2> HIDE DEF f, n
  <2>1. \A i \in at + 1 .. end : i - at \in 1 .. Len(bytes)
    BY <1>1
  <2> QED
    BY <1>1, <1>4, <2>1
<1>6. f \in [1 .. n -> W]
  <2>1. f = [i \in 1 .. n |-> f[i]]
    BY <1>2
  <2> HIDE DEF f, n
  <2> QED
    BY <1>5, <2>1
<1>7. f \in Seq(W) /\ Len(f) = n
  <2> HIDE DEF f, n
  <2> QED
    BY <1>3, <1>6, FunctionIsSeq
<1> HIDE DEF f
<1>8. \A i \in 1 .. Len(bytes) : f[at + i] = bytes[i]
  <2> SUFFICES ASSUME NEW i \in 1 .. Len(bytes) PROVE f[at + i] = bytes[i]
    OBVIOUS
  <2>1. at + i \in at + 1 .. end /\ at + i \in 1 .. n /\ (at + i) - at = i
    BY <1>1, <1>3
  <2> HIDE DEF n
  <2> QED
    BY <1>4, <2>1
<1>9. \A i \in 1 .. Len(file) : i \notin at + 1 .. end => f[i] = file[i]
  <2>1. \A i \in 1 .. Len(file) : i \in 1 .. n
    BY <1>1, <1>3
  <2> HIDE DEF n
  <2> QED
    BY <1>1, <1>4, <2>1
<1>10. IsWritten(f, file, at, bytes)
  BY <1>7, <1>8, <1>9 DEF IsWritten
<1> QED
  BY <1>7, <1>10 DEF f

Results(W) == [status : {OK, INTERNAL_ERROR}, file : Seq(W),
               total_received : Nat, total_written : Nat]

LEMMA ReceivedIsResult ==
    ASSUME NEW V, NEW segment \in Seq(V), NEW r \in Results(V \cup {"zero"}), NEW at \in Nat
    PROVE  Received(r, segment, at) \in Results(V \cup {"zero"})
<1> DEFINE W == V \cup {"zero"}
           w == Written(CrlfTurns(segment))
           bytes == crlf_to_lf(segment, Buffer)
<1>1. w \in Seq(V)
  BY CrlfTurnsAre DEF Written
<1>2. bytes = Small \/ bytes = w
  BY DEF crlf_to_lf, CrlfTurns, Within
<1>3. w \in Seq(W)
  BY <1>1, SeqMonotonic
<1>4. r \in Results(W)
  OBVIOUS
<1> DEFINE res == Received(r, segment, at)
<1>5. res = IF r.status # OK THEN r
            ELSE IF bytes = Small THEN [r EXCEPT !.status = INTERNAL_ERROR]
            ELSE [r EXCEPT !.file = WriteAt(r.file, at, bytes),
                           !.total_received = r.total_received + Len(segment),
                           !.total_written = r.total_written + Len(bytes)]
  BY DEF Received
<1>6. bytes # Small => WriteAt(r.file, at, bytes) \in Seq(W) /\ Len(bytes) \in Nat
  <2>1. "zero" \in W /\ r.file \in Seq(W)
    BY <1>4 DEF Results
  <2>2. bytes # Small => bytes \in Seq(W) /\ Len(bytes) \in Nat
    BY <1>2, <1>3
  <2> HIDE DEF w, bytes, W
  <2> QED
    BY <2>1, <2>2, WriteAtIs
<1>7. Len(segment) \in Nat
  OBVIOUS
<1> HIDE DEF W, bytes, res
<1>8. res \in Results(W)
  <2>1. CASE r.status # OK
    BY <1>4, <1>5, <2>1
  <2>2. CASE r.status = OK /\ bytes = Small
    BY <1>4, <1>5, <2>2 DEF Results
  <2>3. CASE r.status = OK /\ bytes # Small
    <3>1. r.total_received + Len(segment) \in Nat /\ r.total_written + Len(bytes) \in Nat
      BY <1>4, <1>6, <1>7, <2>3 DEF Results
    <3>2. r = [status |-> r.status, file |-> r.file, total_received |-> r.total_received,
               total_written |-> r.total_written] /\ r.status \in {OK, INTERNAL_ERROR}
      BY <1>4 DEF Results
    <3>3. res = [status |-> r.status, file |-> WriteAt(r.file, at, bytes),
                 total_received |-> r.total_received + Len(segment),
                 total_written |-> r.total_written + Len(bytes)]
      BY <1>5, <2>3, <3>2
    <3> QED
      BY <1>6, <2>3, <3>1, <3>2, <3>3 DEF Results
  <2> QED
    BY <2>1, <2>2, <2>3
<1> QED
  BY <1>8 DEF W, res

\* The receiving loop, turn by turn.
IsReceiving(turn, file, offset, stream, cuts) ==
    /\ turn[0] = Begun(file)
    /\ \A k \in 1 .. Len(cuts) :
          turn[k] = Received(turn[k - 1], Segment(stream, cuts, k),
                             offset + turn[k - 1].total_written)
    /\ transfer_receive_file_ascii(file, offset, stream, cuts) = turn[Len(cuts)]

LEMMA Receives ==
    ASSUME NEW V, NEW file \in Seq(V), NEW offset \in Nat, NEW stream \in Seq(V),
           NEW cuts \in Seq(Nat), IsCut(stream, cuts)
    PROVE  \E turn : IsReceiving(turn, file, offset, stream, cuts)
<1> DEFINE m == Len(cuts)
           T == Results(V \cup {"zero"})
           D == 0 .. m
           B == {0}
           mu == [k \in D |-> k]
           base == [k \in B |-> Begun(file)]
           next == [k \in D \ B |-> k - 1]
           make == [k \in D \ B |-> [r \in T |->
                       Received(r, Segment(stream, cuts, k), offset + r.total_written)]]
           Is(f) == f = [k \in 0 .. Len(cuts) |->
                            IF k = 0 THEN Begun(file)
                            ELSE Received(f[k - 1], Segment(stream, cuts, k),
                                          offset + f[k - 1].total_written)]
           turn == CHOOSE f : Is(f)
<1>1. m \in Nat
  OBVIOUS
<1>2. D \ B = 1 .. m
  BY <1>1
<1>3. Descends(D, m, mu, B, next)
  BY <1>1, <1>2 DEF Descends
<1>4. base \in [B -> T]
  <2>1. file \in Seq(V \cup {"zero"})
    BY SeqMonotonic
  <2>2. Begun(file) \in T
    BY <2>1 DEF Begun, Results
  <2> HIDE DEF T
  <2> QED
    BY <2>2
<1>5. make \in [D \ B -> [T -> T]]
  <2>1. ASSUME NEW k \in 1 .. m, NEW r \in T
        PROVE  Received(r, Segment(stream, cuts, k), offset + r.total_written) \in T
    <3>1. offset + r.total_written \in Nat
      BY DEF Results
    <3>2. Segment(stream, cuts, k) \in Seq(V)
      BY TakenOfSegment
    <3> QED
      BY <3>1, <3>2, ReceivedIsResult
  <2> HIDE DEF T, D, B, m
  <2> QED
    BY <1>2, <2>1
<1>6. PICK f \in [D -> T] : Solves(f, D, B, base, next, make)
  <2> HIDE DEF mu, B, base, next, make, T, D, m
  <2> QED
    BY <1>3, <1>4, <1>5, Recursion
<1>7. \A k \in D : f[k] = IF k = 0 THEN Begun(file)
                          ELSE Received(f[k - 1], Segment(stream, cuts, k),
                                        offset + f[k - 1].total_written)
  <2>1. \A k \in 1 .. m : k - 1 \in D /\ f[k - 1] \in T
    <3>1. \A k \in 1 .. m : k - 1 \in D
      BY <1>1
    <3> HIDE DEF T, D
    <3> QED
      BY <3>1
  <2> QED
    BY <1>1, <1>2, <1>6, <2>1 DEF Solves
<1>8. Is(turn)
  <2>1. Is(f)
    BY <1>7
  <2> QED
    BY <2>1
<1>9. transfer_receive_file_ascii(file, offset, stream, cuts) = turn[m]
  BY DEF transfer_receive_file_ascii
<1> HIDE DEF turn
<1>10. turn[0] = Begun(file) /\ \A k \in 1 .. m :
          turn[k] = Received(turn[k - 1], Segment(stream, cuts, k),
                             offset + turn[k - 1].total_written)
  <2>1. \A k \in 0 .. m : turn[k] = IF k = 0 THEN Begun(file)
                                   ELSE Received(turn[k - 1], Segment(stream, cuts, k),
                                                 offset + turn[k - 1].total_written)
    BY <1>8
  <2>2. 0 \in 0 .. m /\ \A k \in 1 .. m : k \in 0 .. m /\ k # 0
    BY <1>1
  <2> HIDE DEF m
  <2> QED
    BY <2>1, <2>2
<1>11. IsReceiving(turn, file, offset, stream, cuts)
  BY <1>9, <1>10 DEF IsReceiving
<1> QED
  BY <1>11

\* What the file holds when the first c bytes of the stream have arrived.
StoredTo(r, W, file, offset, stream, K, c) ==
    LET end == offset + Rank(K, c)
    IN  /\ r.status = OK /\ r.total_received = c /\ r.total_written = Rank(K, c)
        /\ r.file \in Seq(W)
        /\ Len(r.file) = IF end > Len(file) THEN end ELSE Len(file)
        /\ \A i \in K : i <= c => r.file[offset + Rank(K, i)] = stream[i]
        /\ \A i \in 1 .. Len(file) : i \notin offset + 1 .. end => r.file[i] = file[i]
        /\ r = [status |-> r.status, file |-> r.file, total_received |-> r.total_received,
                total_written |-> r.total_written]

LEMMA StoresNext ==
    ASSUME NEW V, Small[1] \notin V, NEW file \in Seq(V), NEW offset \in 0 .. Len(file),
           NEW stream \in Seq(V), NEW K \in SUBSET (1 .. Len(stream)), NEW r,
           NEW o \in Nat, NEW e \in Nat, o < e, e <= Len(stream), e - o <= Buffer,
           NEW segment \in Seq(V), Len(segment) = e - o,
           \A i \in 1 .. Len(segment) : segment[i] = stream[o + i],
           \A i \in 1 .. Len(segment) : o + i \in K <=> ~ PairAt(segment, i),
           StoredTo(r, V \cup {"zero"}, file, offset, stream, K, o)
    PROVE  StoredTo(Received(r, segment, offset + r.total_written),
                    V \cup {"zero"}, file, offset, stream, K, e)
<1> DEFINE W == V \cup {"zero"}
           R(k) == Rank(K, k)
           bytes == crlf_to_lf(segment, Buffer)
           at == offset + r.total_written
           f == WriteAt(r.file, at, bytes)
           L == Len(file)
           res == Received(r, segment, at)
<1>1. L \in Nat /\ Buffer \in Nat /\ offset \in Nat /\ offset <= L
  BY BufferIsPositive
<1>2. /\ r.status = OK /\ r.total_received = o /\ r.total_written = R(o) /\ r.file \in Seq(W)
      /\ Len(r.file) = IF offset + R(o) > L THEN offset + R(o) ELSE L
      /\ \A i \in K : i <= o => r.file[offset + R(i)] = stream[i]
      /\ \A i \in 1 .. L : i \notin offset + 1 .. offset + R(o) => r.file[i] = file[i]
      /\ r = [status |-> r.status, file |-> r.file, total_received |-> r.total_received,
              total_written |-> r.total_written]
  BY DEF StoredTo
<1>3. bytes \in Seq(V) /\ bytes # Small /\ CrlfLeft(segment, o, K, 1, bytes)
  BY <1>1, CrlfToLf
<1>4. /\ R(o) \in Nat /\ R(e) \in Nat /\ R(o) <= R(e)
      /\ \A i \in K : i \in Nat /\ R(i) \in Nat
      /\ \A i \in K : i <= o => R(i) <= R(o)
      /\ \A i \in K : i > o => R(o) < R(i)
      /\ \A i \in K : i <= e => R(i) <= R(e)
  <2>1. R(o) \in Nat /\ R(e) \in Nat /\ R(o) <= R(e)
    <3>1. R(o) \in Nat /\ R(e) \in Nat
      BY RankNat
    <3>2. R(o) <= R(e)
      BY RankGrows
    <3> QED
      BY <3>1, <3>2
  <2>2. \A i \in K : i \in Nat
    OBVIOUS
  <2>3. \A i \in K : R(i) \in Nat
    BY <2>2, RankNat
  <2>4. \A i \in K : i <= o => R(i) <= R(o)
    BY <2>2, RankGrows
  <2>5. \A i \in K : i > o => R(o) < R(i)
    <3> SUFFICES ASSUME NEW i \in K, o < i PROVE R(o) < R(i)
      BY <2>2
    <3> QED
      BY <2>2, RankOrders
  <2>6. \A i \in K : i <= e => R(i) <= R(e)
    BY <2>2, RankGrows
  <2> QED
    BY <2>1, <2>2, <2>3, <2>4, <2>5, <2>6
<1> HIDE DEF R
<1>5. /\ Len(bytes) = R(e) - R(o)
      /\ \A j \in 1 .. e - o : o + j \in K => bytes[R(o + j) - R(o)] = stream[o + j]
  <2>1. o + Len(segment) = e /\ o + 1 - 1 = o
    OBVIOUS
  <2>2. Len(bytes) = R(e) - R(o)
    BY <1>3, <2>1 DEF CrlfLeft, R
  <2>3. \A j \in 1 .. e - o : o + j \in K => bytes[R(o + j) - R(o)] = segment[j]
    BY <1>3, <2>1 DEF CrlfLeft, R
  <2> QED
    BY <2>2, <2>3
<1>6. at \in Nat /\ at = offset + R(o) /\ at + Len(bytes) = offset + R(e)
  BY <1>1, <1>2, <1>4, <1>5
<1> HIDE DEF bytes, at
<1>7. /\ f \in Seq(W)
      /\ Len(f) = IF offset + R(e) > Len(r.file) THEN offset + R(e) ELSE Len(r.file)
      /\ \A i \in 1 .. Len(bytes) : f[at + i] = bytes[i]
      /\ \A i \in 1 .. Len(r.file) : i \notin at + 1 .. offset + R(e) => f[i] = r.file[i]
  <2>1. bytes \in Seq(W) /\ "zero" \in W
    BY <1>3, SeqMonotonic
  <2> HIDE DEF W
  <2>2. f \in Seq(W) /\ IsWritten(f, r.file, at, bytes)
    BY <1>2, <1>6, <2>1, WriteAtIs
  <2> HIDE DEF f
  <2> QED
    BY <1>6, <2>2 DEF IsWritten
<1> HIDE DEF f, W
<1>8. res = [status |-> OK, file |-> f, total_received |-> o + Len(segment),
             total_written |-> R(o) + Len(bytes)]
  <2>1. res = [r EXCEPT !.file = f, !.total_received = r.total_received + Len(segment),
                        !.total_written = r.total_written + Len(bytes)]
    BY <1>2, <1>3 DEF Received, f, bytes
  <2> QED
    BY <1>2, <2>1
<1>9. o + Len(segment) = e /\ R(o) + Len(bytes) = R(e)
  BY <1>4, <1>5
<1>10. Len(f) = IF offset + R(e) > L THEN offset + R(e) ELSE L
  BY <1>1, <1>2, <1>4, <1>7
<1>11. ASSUME NEW i \in K, i <= e PROVE f[offset + R(i)] = stream[i]
  <2>1. CASE i <= o
    <3>1. offset + R(i) \in 1 .. Len(r.file) /\ offset + R(i) \notin at + 1 .. offset + R(e)
      <4>1. i \in Nat /\ 0 < i
        OBVIOUS
      <4>2. Rank(K, 0) < Rank(K, i)
        BY <4>1, RankOrders
      <4>3. R(i) \in Nat /\ R(i) <= R(o) /\ 0 < R(i)
        BY <1>4, <2>1, <4>2, RankZero DEF R
      <4>4. R(o) \in Nat /\ offset + R(o) <= Len(r.file) /\ Len(r.file) \in Nat
        BY <1>1, <1>2, <1>4
      <4>5. at = offset + R(o) /\ offset \in Nat
        BY <1>1, <1>6
      <4> HIDE DEF L, f, R, at
      <4>6. offset + R(i) \in 1 .. Len(r.file)
        <5>1. offset + R(i) \in Nat /\ offset + R(i) > 0 /\ offset + R(i) <= offset + R(o)
          BY <4>3, <4>4, <4>5
        <5>2. offset + R(o) \in Nat /\ offset + R(o) <= Len(r.file) /\ Len(r.file) \in Nat
          BY <4>4, <4>5
        <5> QED
          BY <5>1, <5>2
      <4>7. offset + R(i) \notin at + 1 .. offset + R(e)
        BY <4>3, <4>4, <4>5
      <4> QED
        BY <4>6, <4>7
    <3> QED
      BY <1>2, <1>7, <2>1, <3>1
  <2>2. CASE ~ (i <= o)
    <3>1. i \in Nat /\ i - o \in 1 .. e - o /\ o + (i - o) = i
      BY <1>4, <1>11, <2>2
    <3>2. bytes[R(i) - R(o)] = stream[i]
      BY <1>5, <3>1
    <3>3. R(i) \in Nat /\ R(o) < R(i) /\ R(i) <= R(e)
      BY <1>4, <1>11, <2>2, <3>1
    <3>4. R(i) - R(o) \in 1 .. Len(bytes) /\ at + (R(i) - R(o)) = offset + R(i)
      <4>1. R(o) \in Nat /\ R(e) \in Nat /\ Len(bytes) = R(e) - R(o)
        BY <1>4, <1>5
      <4>2. at = offset + R(o) /\ offset \in Nat
        BY <1>1, <1>6
      <4>3. at + (R(i) - R(o)) = offset + R(i)
        BY <3>3, <4>1, <4>2
      <4>4. R(i) - R(o) \in 1 .. Len(bytes)
        BY <3>3, <4>1
      <4> QED
        BY <4>3, <4>4
    <3> QED
      BY <1>7, <3>2, <3>4
  <2> QED
    BY <2>1, <2>2
<1>12. ASSUME NEW i \in 1 .. L, i \notin offset + 1 .. offset + R(e)
       PROVE  f[i] = file[i]
  <2>1. i \in 1 .. Len(r.file) /\ i \notin at + 1 .. offset + R(e)
        /\ i \notin offset + 1 .. offset + R(o)
    <3>1. R(o) \in Nat /\ R(e) \in Nat /\ R(o) <= R(e) /\ L \in Nat /\ offset \in Nat
      BY <1>1, <1>4
    <3>2. Len(r.file) \in Nat /\ L <= Len(r.file)
      BY <1>2, <3>1
    <3>3. i \in 1 .. Len(r.file)
      BY <3>1, <3>2
    <3>4. at = offset + R(o)
      BY <1>6
    <3>5. i \notin at + 1 .. offset + R(e)
      <4> DEFINE ro == R(o)
                 re == R(e)
                 last == offset + re
                 from == at + 1
                 start == offset + 1
      <4>5. ro \in Nat /\ re \in Nat /\ offset \in Nat /\ at = offset + ro
        BY <3>1, <3>4
      <4> HIDE DEF ro, re
      <4>6. last \in Nat /\ start \in Nat
        BY <4>5
      <4>7. from \in Nat /\ start <= from
        BY <4>5
      <4>1. last \in Nat /\ from \in Nat /\ start \in Nat /\ start <= from
        BY <4>6, <4>7
      <4> HIDE DEF last, from, start
      <4>2. \A k \in from .. last : k \in start .. last
        BY <4>1
      <4>3. i \notin start .. last
        BY <1>12 DEF start, last, re
      <4>4. i \notin from .. last
        BY <4>2, <4>3
      <4> QED
        BY <4>4 DEF from, last, re
    <3>6. i \notin offset + 1 .. offset + R(o)
      BY <1>12, <3>1
    <3> QED
      BY <3>3, <3>5, <3>6
  <2> QED
    BY <1>2, <1>7, <2>1
<1>13. /\ res.status = OK /\ res.total_received = e /\ res.total_written = R(e) /\ res.file = f
       /\ res = [status |-> res.status, file |-> res.file,
                 total_received |-> res.total_received, total_written |-> res.total_written]
  BY <1>8, <1>9
<1> HIDE DEF res, L
<1> QED
  BY <1>7, <1>10, <1>11, <1>12, <1>13 DEF StoredTo, res, R, L, W, at

\* What an upload stores, split CRLFs included.
UploadStores(file, offset, stream, cuts) ==
    LET r == transfer_receive_file_ascii(file, offset, stream, cuts)
        taken == Taken(stream, cuts)
        end  == offset + Cardinality(taken)
    IN  /\ r.status = OK
        /\ r.total_received = Len(stream) /\ r.total_written = Cardinality(taken)
        /\ Len(r.file) = IF end > Len(file) THEN end ELSE Len(file)
        /\ \A i \in taken : r.file[offset + Rank(taken, i)] = stream[i]
        /\ \A i \in DOMAIN file : i \notin offset + 1 .. end => r.file[i] = file[i]

LEMMA UploadTakes ==
    ASSUME NEW V, Small[1] \notin V, NEW file \in Seq(V), NEW offset \in 0 .. Len(file),
           NEW stream \in Seq(V), NEW cuts \in Seq(Nat), IsCut(stream, cuts)
    PROVE  UploadStores(file, offset, stream, cuts)
<1> DEFINE K == Taken(stream, cuts)
           W == V \cup {"zero"}
           m == Len(cuts)
           c(k) == IF k = 0 THEN 0 ELSE cuts[k]
<1>1. /\ m \in Nat /\ Len(stream) \in Nat /\ DOMAIN stream = 1 .. Len(stream)
      /\ \A k \in 1 .. m : cuts[k] \in Nat
  BY LenProperties, ElementOfSeq
<1>2. K \in SUBSET (1 .. Len(stream))
  BY <1>1 DEF Taken
<1> HIDE DEF K, m
<1>3. PICK turn : IsReceiving(turn, file, offset, stream, cuts)
  <2>1. offset \in Nat
    OBVIOUS
  <2> QED
    BY <2>1, Receives
<1> DEFINE Is(k) == StoredTo(turn[k], W, file, offset, stream, K, c(k))
           S == {k \in Nat : k <= m => Is(k)}
<1>4. Is(0)
  <2>1. turn[0] = Begun(file) /\ c(0) = 0 /\ Rank(K, 0) = 0 /\ offset + 0 = offset
    BY <1>3, RankZero DEF IsReceiving
  <2>2. file \in Seq(W) /\ Len(file) \in Nat /\ ~ (offset > Len(file))
    BY SeqMonotonic
  <2>3. \A i \in K : ~ (i <= 0)
    BY <1>2
  <2>4. Begun(file) = [status |-> OK, file |-> file, total_received |-> 0, total_written |-> 0]
    BY DEF Begun
  <2> HIDE DEF c, W
  <2> QED
    BY <2>1, <2>2, <2>3, <2>4 DEF StoredTo
<1>5. ASSUME NEW k \in 1 .. m, Is(k - 1) PROVE Is(k)
  <2> DEFINE o == Start(cuts, k)
             e == cuts[k]
             segment == Segment(stream, cuts, k)
  <2>1. c(k - 1) = o /\ c(k) = e
    BY DEF Start
  <2>2. /\ o \in Nat /\ e \in Nat /\ o < e /\ e <= Len(stream) /\ e - o <= Buffer
    BY <1>1, CutsGrow DEF m
  <2>3. /\ segment \in Seq(V) /\ Len(segment) = e - o
        /\ \A i \in 1 .. Len(segment) : segment[i] = stream[o + i]
        /\ \A i \in 1 .. Len(segment) : o + i \in K <=> ~ PairAt(segment, i)
    BY TakenOfSegment DEF K, m
  <2>4. turn[k] = Received(turn[k - 1], segment, offset + turn[k - 1].total_written)
    BY <1>3 DEF IsReceiving, m
  <2>5. StoredTo(turn[k - 1], W, file, offset, stream, K, o)
    BY <1>5, <2>1
  <2>6. StoredTo(Received(turn[k - 1], segment, offset + turn[k - 1].total_written),
                 W, file, offset, stream, K, e)
    <3> HIDE DEF o, e, segment
    <3> QED
      BY <1>2, <2>2, <2>3, <2>5, StoresNext
  <2> QED
    BY <2>1, <2>4, <2>6
<1>6. Is(m)
  <2>1. ASSUME NEW k \in Nat, \A j \in 0 .. k - 1 : j \in S
        PROVE  k \in S
    <3> SUFFICES ASSUME k <= m PROVE Is(k)
      OBVIOUS
    <3>1. CASE k = 0
      BY <1>4, <3>1
    <3>2. CASE k # 0
      <4>1. k \in 1 .. m /\ k - 1 \in 0 .. k - 1 /\ k - 1 <= m
        BY <1>1, <3>2
      <4>2. Is(k - 1)
        BY <2>1, <4>1
      <4> HIDE DEF Is
      <4> QED
        BY <1>5, <4>1, <4>2
    <3> QED
      BY <3>1, <3>2
  <2>2. \A k \in Nat : k \in S
    <3> HIDE DEF S
    <3> QED
      BY <2>1, Up
  <2>3. m \in S
    BY <1>1, <2>2
  <2> HIDE DEF Is
  <2>4. m <= m => Is(m)
    BY <2>3
  <2>5. m <= m
    BY <1>1
  <2> QED
    BY <2>4, <2>5
<1>7. c(m) = Len(stream) /\ turn[m] = transfer_receive_file_ascii(file, offset, stream, cuts)
  BY <1>1, <1>3 DEF IsCut, IsReceiving, m
<1>8. Rank(K, Len(stream)) = Cardinality(K)
  <2>1. K \cap 1 .. Len(stream) = K
    BY <1>2
  <2> QED
    BY <2>1 DEF Rank
<1>9. StoredTo(transfer_receive_file_ascii(file, offset, stream, cuts), W, file, offset,
               stream, K, Len(stream))
  <2> HIDE DEF c
  <2> QED
    BY <1>6, <1>7
<1>10. \A i \in K : i <= Len(stream)
  BY <1>1, <1>2
<1>11. DOMAIN file = 1 .. Len(file)
  OBVIOUS
<1> QED
  BY <1>8, <1>9, <1>10, <1>11 DEF StoredTo, UploadStores, K

\* An upload in ASCII mode stores the stream with every CRLF as LF, from its
\* offset on, whatever the size of the buffer and however recv cuts the stream
\* between the CRLFs; cut inside one, it still takes every byte and leaves the
\* rest of the file (transfer.c:409-490).
THEOREM UploadExact ==
    ASSUME NEW V, Small[1] \notin V, NEW file \in Seq(V), NEW offset \in 0 .. Len(file),
           NEW stream \in Seq(V), NEW cuts \in Seq(Nat), IsCut(stream, cuts)
    PROVE  UploadIsExact(file, offset, stream, cuts)
<1>1. UploadStores(file, offset, stream, cuts)
  BY UploadTakes
<1>2. Split(stream, cuts) = {} => Taken(stream, cuts) = Kept(stream)
  BY DEF Split, Taken, Kept
<1> QED
  BY <1>1, <1>2 DEF UploadStores, UploadIsExact


\* How much of the stream the first i bytes of a file make.
Ends(file, i) == i + Rank({j \in 1 .. Len(file) : file[j] = "LF"}, i)

LEMMA EndsAre ==
    ASSUME NEW V, NEW file \in Seq(V), NEW i \in 0 .. Len(file)
    PROVE  /\ Ends(file, i) \in Nat
           /\ i < Len(file) => Ends(file, i + 1) = Ends(file, i) + IF file[i + 1] = "LF" THEN 2 ELSE 1
           /\ \A j \in i .. Len(file) : /\ Ends(file, i) <= Ends(file, j)
                                        /\ Ends(file, j) - Ends(file, i) <= 2 * (j - i)
<1> DEFINE n == Len(file)
           L == {j \in 1 .. n : file[j] = "LF"}
<1>1. n \in Nat /\ i \in Nat
  OBVIOUS
<1>2. \A j \in 0 .. n : Ends(file, j) = j + Rank(L, j)
  BY DEF Ends
<1>3. \A j \in 1 .. n : j \in L <=> file[j] = "LF"
  OBVIOUS
<1> HIDE DEF n, L
<1>4. Rank(L, i) \in Nat /\ Rank(L, i + 1) = IF i + 1 \in L THEN Rank(L, i) + 1 ELSE Rank(L, i)
  BY <1>1, RankNat, RankNext
<1>5. Ends(file, i) \in Nat
  BY <1>1, <1>2, <1>4 DEF n
<1>6. ASSUME i < n
      PROVE  Ends(file, i + 1) = Ends(file, i) + IF file[i + 1] = "LF" THEN 2 ELSE 1
  <2>1. i \in 0 .. n /\ i + 1 \in 0 .. n /\ i + 1 \in 1 .. n
    BY <1>1, <1>6
  <2>2. /\ Ends(file, i) = i + Rank(L, i) /\ Ends(file, i + 1) = (i + 1) + Rank(L, i + 1)
        /\ i + 1 \in L <=> file[i + 1] = "LF"
    BY <1>2, <1>3, <2>1
  <2> QED
    BY <1>1, <1>4, <2>2
<1>7. ASSUME NEW j \in i .. n
      PROVE  Ends(file, i) <= Ends(file, j) /\ Ends(file, j) - Ends(file, i) <= 2 * (j - i)
  <2>1. j \in Nat /\ i <= j /\ i \in 0 .. n /\ j \in 0 .. n
    BY <1>1
  <2>2. Rank(L, i) <= Rank(L, j) /\ Rank(L, j) - Rank(L, i) <= j - i /\ Rank(L, j) \in Nat
    BY <1>1, <2>1, RankNat, RankGrows
  <2>3. Ends(file, i) = i + Rank(L, i) /\ Ends(file, j) = j + Rank(L, j)
    BY <1>2, <2>1
  <2> QED
    BY <1>1, <1>4, <2>1, <2>2, <2>3
<1> QED
  BY <1>5, <1>6, <1>7 DEF n

\* What sent holds after its first p bytes, if v is what the file has there.
HoldsAt(sent, p, v) == IF v = "LF" THEN sent[p + 1] = "CR" /\ sent[p + 2] = "LF"
                       ELSE sent[p + 1] = v

\* No LF without a CR before it.
Paired(sent) == \A q \in 1 .. Len(sent) : sent[q] = "LF" => q > 1 /\ sent[q - 1] = "CR"

\* sent is the bytes o + 1 .. e of the file, with a CR before each LF.
Expands(sent, file, o, e) ==
    /\ Len(sent) = Ends(file, e) - Ends(file, o)
    /\ \A i \in o .. e - 1 : HoldsAt(sent, Ends(file, i) - Ends(file, o), file[i + 1])
    /\ Paired(sent)

\* Where a byte of one of two parts of the stream is in the whole.
LEMMA InFirst ==
    ASSUME NEW a \in Nat, NEW b \in Nat, NEW c \in Nat, NEW i \in Nat, NEW j \in Nat,
           NEW k \in {1, 2}, a <= i, j >= i + k, j <= b, b <= c
    PROVE  i - a + k \in 1 .. c - a /\ i - a + k <= b - a
  OBVIOUS

IsSecond(p, len, first, q) == p \in 1 .. len /\ ~ (p <= first) /\ p - first = q

LEMMA InSecond ==
    ASSUME NEW a \in Nat, NEW b \in Nat, NEW c \in Nat, NEW i \in Nat, NEW j \in Nat,
           NEW k \in {1, 2}, a <= b, b <= i, j >= i + k, j <= c
    PROVE  IsSecond(i - a + k, c - a, b - a, i - b + k)
  BY DEF IsSecond

LEMMA ExpandsJoined ==
    ASSUME NEW V, NEW file \in Seq(V), NEW W, NEW s \in Seq(W), NEW t \in Seq(W),
           NEW o \in Nat, NEW e \in Nat, NEW g \in Nat, o <= e, e <= g, g <= Len(file),
           Expands(s, file, o, e), Expands(t, file, e, g)
    PROVE  Expands(s \o t, file, o, g)
<1> DEFINE u == s \o t
           E(i) == Ends(file, i)
           m == Len(s)
<1>1. /\ m \in Nat /\ Len(t) \in Nat /\ Len(u) = m + Len(t)
      /\ \A q \in 1 .. m + Len(t) : u[q] = IF q <= m THEN s[q] ELSE t[q - m]
  BY ConcatProperties
<1>2. \A i \in 0 .. Len(file) :
         /\ E(i) \in Nat
         /\ i < Len(file) => E(i + 1) = E(i) + IF file[i + 1] = "LF" THEN 2 ELSE 1
         /\ \A j \in i .. Len(file) : E(i) <= E(j)
  BY EndsAre
<1>3. Len(file) \in Nat
  OBVIOUS
<1>4. m = E(e) - E(o) /\ Len(t) = E(g) - E(e)
  BY DEF Expands
<1>5. /\ \A i \in o .. e - 1 : HoldsAt(s, E(i) - E(o), file[i + 1])
      /\ \A i \in e .. g - 1 : HoldsAt(t, E(i) - E(e), file[i + 1])
      /\ \A q \in 1 .. m : s[q] = "LF" => q > 1 /\ s[q - 1] = "CR"
      /\ \A q \in 1 .. Len(t) : t[q] = "LF" => q > 1 /\ t[q - 1] = "CR"
  BY DEF Expands, Paired
<1>6. E(o) \in Nat /\ E(e) \in Nat /\ E(g) \in Nat /\ E(o) <= E(e) /\ E(e) <= E(g)
  BY <1>2, <1>3
<1> HIDE DEF u, m, E
<1>7. Len(u) = E(g) - E(o)
  BY <1>1, <1>4, <1>6
<1>11. /\ m \in Nat /\ Len(t) \in Nat /\ m = E(e) - E(o) /\ Len(t) = E(g) - E(e)
       /\ E(o) \in Nat /\ E(e) \in Nat /\ E(g) \in Nat /\ E(o) <= E(e) /\ E(e) <= E(g)
  BY <1>1, <1>4, <1>6
<1>12. \A q \in 1 .. E(g) - E(o) :
          u[q] = IF q <= E(e) - E(o) THEN s[q] ELSE t[q - (E(e) - E(o))]
  <2>1. m + Len(t) = E(g) - E(o) /\ m = E(e) - E(o)
    BY <1>11
  <2> QED
    BY <1>1, <2>1
<1>8. ASSUME NEW i \in o .. g - 1 PROVE HoldsAt(u, E(i) - E(o), file[i + 1])
  <2>1. i \in 0 .. Len(file) /\ i < Len(file) /\ i + 1 \in 0 .. Len(file)
        /\ o \in 0 .. Len(file) /\ i \in o .. Len(file)
    BY <1>3
  <2>2. E(i) \in Nat /\ E(i + 1) \in Nat /\ E(o) <= E(i) /\ E(i + 1) >= E(i) + 1
    <3>1. E(i + 1) = E(i) + IF file[i + 1] = "LF" THEN 2 ELSE 1
      BY <1>2, <2>1
    <3>2. E(i) \in Nat /\ E(o) <= E(i)
      BY <1>2, <2>1
    <3> QED
      BY <3>1, <3>2
  <2>3. file[i + 1] = "LF" => E(i + 1) >= E(i) + 2
    <3>1. file[i + 1] = "LF" => E(i + 1) = E(i) + 2
      BY <1>2, <2>1
    <3> QED
      BY <2>2, <3>1
  <2>4. CASE i < e
    <3>1. i + 1 \in 0 .. Len(file) /\ e \in i + 1 .. Len(file) /\ i \in o .. e - 1
      BY <1>3, <2>1, <2>4
    <3>2. HoldsAt(s, E(i) - E(o), file[i + 1])
      BY <1>5, <3>1
    <3>3. E(i + 1) <= E(e)
      BY <1>2, <3>1
    <3>4. u[E(i) - E(o) + 1] = s[E(i) - E(o) + 1]
      <4>1. E(i) - E(o) + 1 \in 1 .. E(g) - E(o) /\ E(i) - E(o) + 1 <= E(e) - E(o)
        BY <1>6, <2>2, <3>3, InFirst
      <4> QED
        BY <1>12, <4>1
    <3>5. ASSUME file[i + 1] = "LF" PROVE u[E(i) - E(o) + 2] = s[E(i) - E(o) + 2]
      <4>1. E(i + 1) >= E(i) + 2
        BY <2>3, <3>5
      <4>2. E(i) - E(o) + 2 \in 1 .. E(g) - E(o) /\ E(i) - E(o) + 2 <= E(e) - E(o)
        BY <1>6, <2>2, <3>3, <4>1, InFirst
      <4> QED
        BY <1>12, <4>2
    <3> QED
      BY <3>2, <3>4, <3>5 DEF HoldsAt
  <2>5. CASE ~ (i < e)
    <3>1. i + 1 \in 0 .. Len(file) /\ g \in i + 1 .. Len(file) /\ i \in e .. g - 1
          /\ e \in 0 .. Len(file) /\ i \in e .. Len(file)
      BY <1>3, <2>1, <2>5
    <3>2. HoldsAt(t, E(i) - E(e), file[i + 1])
      BY <1>5, <3>1
    <3>3. E(i + 1) <= E(g) /\ E(e) <= E(i)
      BY <1>2, <3>1
    <3>4. u[E(i) - E(o) + 1] = t[E(i) - E(e) + 1]
      <4>1. IsSecond(E(i) - E(o) + 1, E(g) - E(o), E(e) - E(o), E(i) - E(e) + 1)
        BY <1>6, <2>2, <3>3, InSecond
      <4> QED
        BY <1>12, <4>1 DEF IsSecond
    <3>5. ASSUME file[i + 1] = "LF" PROVE u[E(i) - E(o) + 2] = t[E(i) - E(e) + 2]
      <4>1. E(i + 1) >= E(i) + 2
        BY <2>3, <3>5
      <4>2. IsSecond(E(i) - E(o) + 2, E(g) - E(o), E(e) - E(o), E(i) - E(e) + 2)
        BY <1>6, <2>2, <3>3, <4>1, InSecond
      <4> QED
        BY <1>12, <4>2 DEF IsSecond
    <3> QED
      BY <3>2, <3>4, <3>5 DEF HoldsAt
  <2> QED
    BY <2>4, <2>5
<1>9. ASSUME NEW q \in 1 .. Len(u), u[q] = "LF" PROVE q > 1 /\ u[q - 1] = "CR"
  <2>1. CASE q <= m
    <3>1. q \in 1 .. m /\ s[q] = "LF"
      BY <1>1, <1>9, <2>1
    <3>2. q > 1 /\ s[q - 1] = "CR"
      BY <1>5, <3>1
    <3>3. q - 1 \in 1 .. m + Len(t) /\ q - 1 <= m
      BY <1>1, <2>1, <3>2
    <3> QED
      BY <1>1, <3>2, <3>3
  <2>2. CASE ~ (q <= m)
    <3>1. q - m \in 1 .. Len(t) /\ t[q - m] = "LF"
      BY <1>1, <1>9, <2>2
    <3>2. q - m > 1 /\ t[(q - m) - 1] = "CR"
      BY <1>5, <3>1
    <3>3. q > 1 /\ q - 1 \in 1 .. m + Len(t) /\ ~ (q - 1 <= m) /\ (q - 1) - m = (q - m) - 1
      BY <1>1, <2>2, <3>2
    <3> QED
      BY <1>1, <3>2, <3>3
  <2> QED
    BY <2>1, <2>2
<1>10. Expands(u, file, o, g)
  BY <1>7, <1>8, <1>9 DEF Expands, Paired, E
<1> QED
  BY <1>10 DEF u

LEMMA ExpandsOne ==
    ASSUME NEW V, "CR" \in V, NEW file \in Seq(V), NEW i \in 0 .. Len(file), i < Len(file)
    PROVE  LET put == IF file[i + 1] = "LF" THEN <<"CR", "LF">> ELSE <<file[i + 1]>>
           IN  put \in Seq(V) /\ Expands(put, file, i, i + 1)
<1> DEFINE put == IF file[i + 1] = "LF" THEN <<"CR", "LF">> ELSE <<file[i + 1]>>
<1>1. i + 1 \in 1 .. Len(file) /\ file[i + 1] \in V /\ i \in Nat
  <2>1. i + 1 \in 1 .. Len(file)
    OBVIOUS
  <2> QED
    BY <2>1, ElementOfSeq
<1>2. /\ Ends(file, i) \in Nat
      /\ Ends(file, i + 1) = Ends(file, i) + IF file[i + 1] = "LF" THEN 2 ELSE 1
  BY EndsAre
<1>3. put \in Seq(V)
  BY <1>1
<1>4. Len(put) = Ends(file, i + 1) - Ends(file, i)
  BY <1>2
<1>5. Ends(file, i) - Ends(file, i) = 0 /\ HoldsAt(put, 0, file[i + 1])
  BY <1>2 DEF HoldsAt
<1>6. Paired(put)
  BY DEF Paired
<1>7. \A j \in i .. (i + 1) - 1 : j = i
  BY <1>1
<1> HIDE DEF put
<1>8. Expands(put, file, i, i + 1)
  BY <1>4, <1>5, <1>6, <1>7 DEF Expands
<1> QED
  BY <1>3, <1>8 DEF put

LEMMA ExpandsNone ==
    ASSUME NEW V, NEW file \in Seq(V), NEW i \in 0 .. Len(file)
    PROVE  Expands(<<>>, file, i, i)
<1>1. Ends(file, i) \in Nat /\ i \in Nat
  BY EndsAre
<1>2. Len(<<>>) = 0 /\ Ends(file, i) - Ends(file, i) = 0 /\ i .. i - 1 = {} /\ 1 .. 0 = {}
  BY <1>1
<1> QED
  BY <1>2 DEF Expands, Paired

LfTurns(bytes) == [i \in DOMAIN bytes |->
                      [put  |-> IF bytes[i] = "LF" THEN <<"CR", "LF">> ELSE <<bytes[i]>>,
                       next |-> i + 1]]

LEMMA LfTurnsAre ==
    ASSUME NEW V, "CR" \in V, NEW bytes \in Seq(V)
    PROVE  LET w == WrittenFrom(LfTurns(bytes)) IN
           /\ w \in [Nat -> Seq(V)]
           /\ \A i \in 1 .. Len(bytes) :
                 w[i] = (IF bytes[i] = "LF" THEN <<"CR", "LF">> ELSE <<bytes[i]>>) \o w[i + 1]
           /\ \A i \in Nat : i > Len(bytes) => w[i] = <<>>
<1> DEFINE turns == LfTurns(bytes)
           n == Len(bytes)
<1>1. n \in Nat /\ DOMAIN bytes = 1 .. n /\ \A i \in 1 .. n : bytes[i] \in V
  BY LenProperties, ElementOfSeq
<1>2. \A i \in 1 .. n : /\ turns[i] \in [put : Seq(V), next : Nat] /\ turns[i].next > i
                        /\ turns[i].put = IF bytes[i] = "LF" THEN <<"CR", "LF">> ELSE <<bytes[i]>>
                        /\ turns[i].next = i + 1
  BY <1>1 DEF LfTurns
<1>3. turns \in Seq([put : Seq(V), next : Nat]) /\ Len(turns) = n
  <2>1. turns = [i \in 1 .. n |-> turns[i]]
    BY <1>1 DEF LfTurns
  <2> HIDE DEF turns, n
  <2>2. turns \in [1 .. n -> [put : Seq(V), next : Nat]]
    BY <1>2, <2>1
  <2> QED
    BY <1>1, <2>2, FunctionIsSeq
<1> HIDE DEF turns, n
<1>4. /\ WrittenFrom(turns) \in [Nat -> Seq(V)]
      /\ \A i \in 1 .. n : WrittenFrom(turns)[i] = turns[i].put \o WrittenFrom(turns)[turns[i].next]
      /\ \A i \in Nat : i > n => WrittenFrom(turns)[i] = <<>>
  BY <1>2, <1>3, WrittenIs
<1>5. \A i \in 1 .. n :
         WrittenFrom(turns)[i] = (IF bytes[i] = "LF" THEN <<"CR", "LF">> ELSE <<bytes[i]>>)
                                 \o WrittenFrom(turns)[i + 1]
  BY <1>2, <1>4
<1> QED
  BY <1>4, <1>5 DEF turns, n

\* lf_to_crlf on a buffer of the file.
LEMMA LfConverts ==
    ASSUME NEW V, "CR" \in V, NEW file \in Seq(V), NEW o \in Nat, NEW e \in Nat,
           o <= e, e <= Len(file), NEW bytes \in Seq(V), Len(bytes) = e - o,
           \A i \in 1 .. e - o : bytes[i] = file[o + i]
    PROVE  /\ Written(LfTurns(bytes)) \in Seq(V)
           /\ Expands(Written(LfTurns(bytes)), file, o, e)
<1> DEFINE n == e - o
           w == WrittenFrom(LfTurns(bytes))
           S == {i \in 1 .. n + 1 : Expands(w[i], file, o + i - 1, e)}
<1>1. n \in Nat /\ Len(bytes) = n /\ Len(file) \in Nat
  OBVIOUS
<1>2. /\ w \in [Nat -> Seq(V)]
      /\ \A i \in 1 .. Len(bytes) :
            w[i] = (IF bytes[i] = "LF" THEN <<"CR", "LF">> ELSE <<bytes[i]>>) \o w[i + 1]
      /\ \A i \in Nat : i > Len(bytes) => w[i] = <<>>
  BY LfTurnsAre
<1> HIDE DEF w
<1>3. Expands(w[n + 1], file, e, e)
  <2>1. w[n + 1] = <<>> /\ e \in 0 .. Len(file)
    BY <1>1, <1>2
  <2> QED
    BY <2>1, ExpandsNone
<1>4. ASSUME NEW i \in 1 .. n, Expands(w[i + 1], file, o + i, e)
      PROVE  Expands(w[i], file, o + i - 1, e)
  <2> DEFINE a == o + i - 1
             put == IF file[a + 1] = "LF" THEN <<"CR", "LF">> ELSE <<file[a + 1]>>
  <2>1. a \in 0 .. Len(file) /\ a < Len(file) /\ a + 1 = o + i /\ a \in Nat /\ a + 1 \in Nat
        /\ a <= a + 1 /\ a + 1 <= e
    BY <1>1
  <2>2. w[i] = put \o w[i + 1] /\ w[i + 1] \in Seq(V)
    <3>1. i \in 1 .. Len(bytes) /\ i + 1 \in Nat /\ bytes[i] = file[o + i]
      BY <1>1
    <3> QED
      BY <1>2, <2>1, <3>1
  <2> HIDE DEF a
  <2>3. put \in Seq(V) /\ Expands(put, file, a, a + 1)
    BY <2>1, ExpandsOne
  <2>4. Expands(w[i + 1], file, a + 1, e)
    BY <1>4, <2>1
  <2> HIDE DEF put
  <2>5. Expands(put \o w[i + 1], file, a, e)
    BY <2>1, <2>2, <2>3, <2>4, ExpandsJoined
  <2> QED
    BY <2>2, <2>5 DEF a
<1> HIDE DEF n
<1>5. \A i \in 1 .. n + 1 : (\A j \in i + 1 .. n + 1 : j \in S) => i \in S
  <2> SUFFICES ASSUME NEW i \in 1 .. n + 1, \A j \in i + 1 .. n + 1 : j \in S
               PROVE  Expands(w[i], file, o + i - 1, e)
    OBVIOUS
  <2>1. CASE i = n + 1
    <3>1. o + i - 1 = e
      BY <2>1 DEF n
    <3> QED
      BY <1>3, <2>1, <3>1
  <2>2. CASE i # n + 1
    <3>1. i \in 1 .. n /\ i + 1 \in i + 1 .. n + 1 /\ o + (i + 1) - 1 = o + i
      BY <1>1, <2>2
    <3>2. Expands(w[i + 1], file, o + i, e)
      BY <3>1
    <3> QED
      BY <1>4, <3>1, <3>2
  <2> QED
    BY <2>1, <2>2
<1>6. 1 \in S
  <2>1. \A i \in 1 .. n + 1 : i \in S
    <3>1. 1 \in Nat /\ n + 1 \in Nat
      BY <1>1
    <3> HIDE DEF S
    <3> QED
      BY <1>5, <3>1, Down
  <2> QED
    BY <1>1, <2>1
<1>7. o + 1 - 1 = o
  OBVIOUS
<1> QED
  BY <1>2, <1>6, <1>7 DEF Written, w

ToRead(file, o) == IF Len(file) - o > Buffer THEN Buffer ELSE Len(file) - o
Chunk(file, o) == lf_to_crlf(SubSeq(file, o + 1, o + ToRead(file, o)), 2 * Buffer)

\* What one turn of the sending loop sends: never too much for its buffer.
LEMMA ChunkIs ==
    ASSUME NEW V, "CR" \in V, Small[1] \notin V, NEW file \in Seq(V), NEW o \in 0 .. Len(file),
           o < Len(file)
    PROVE  /\ ToRead(file, o) \in Nat /\ o < o + ToRead(file, o)
           /\ o + ToRead(file, o) <= Len(file)
           /\ Chunk(file, o) \in Seq(V) /\ Chunk(file, o) # Small
           /\ Expands(Chunk(file, o), file, o, o + ToRead(file, o))
<1> DEFINE n == Len(file)
           e == o + ToRead(file, o)
           bytes == SubSeq(file, o + 1, e)
           w == Written(LfTurns(bytes))
<1>1. n \in Nat /\ o \in Nat /\ Buffer \in Nat /\ Buffer > 0 /\ \A i \in 1 .. n : file[i] \in V
  <2>1. n \in Nat /\ \A i \in 1 .. n : file[i] \in V
    BY LenProperties, ElementOfSeq
  <2> QED
    BY <2>1, BufferIsPositive
<1>2. ToRead(file, o) \in Nat /\ o < e /\ e <= n /\ e \in Nat /\ e - o <= Buffer
  BY <1>1 DEF ToRead
<1> HIDE DEF n, e
<1>3. bytes \in Seq(V) /\ Len(bytes) = e - o /\ \A i \in 1 .. e - o : bytes[i] = file[o + i]
  <2>1. o <= e /\ e <= Len(file)
    BY <1>1, <1>2 DEF n
  <2>2. bytes \in Seq(V) /\ IsPart(bytes, file, o, e)
    BY <1>1, <1>2, <2>1, PartOf
  <2> HIDE DEF bytes
  <2> QED
    BY <2>2 DEF IsPart
<1> HIDE DEF bytes
<1>4. w \in Seq(V) /\ Expands(w, file, o, e)
  <2>1. o <= e /\ e <= Len(file)
    BY <1>1, <1>2 DEF n
  <2> QED
    BY <1>1, <1>2, <1>3, <2>1, LfConverts
<1>5. Chunk(file, o) = Within(2 * Buffer, w)
  BY DEF Chunk, lf_to_crlf, LfTurns, bytes, e
<1> HIDE DEF w
<1>6. Len(w) <= 2 * Buffer
  <2>1. o \in 0 .. Len(file) /\ e \in o .. Len(file)
    BY <1>1, <1>2 DEF n
  <2>2. Ends(file, e) - Ends(file, o) <= 2 * (e - o) /\ Ends(file, o) \in Nat
    BY <2>1, EndsAre
  <2>3. Ends(file, e) \in Nat
    <3>1. e \in 0 .. Len(file)
      BY <2>1
    <3> QED
      BY <3>1, EndsAre
  <2>4. Len(w) = Ends(file, e) - Ends(file, o)
    BY <1>4 DEF Expands
  <2> QED
    BY <1>1, <1>2, <2>2, <2>3, <2>4
<1>7. Within(2 * Buffer, w) = w
  <2>1. Len(w) \in Nat /\ 2 * Buffer \in Nat
    BY <1>1, <1>4
  <2> QED
    BY <1>6, <2>1 DEF Within
<1>8. w # Small
  <2>1. Len(w) = 1 => w[1] \in V
    <3>1. Len(w) = 1 => 1 \in 1 .. Len(w)
      OBVIOUS
    <3> QED
      BY <1>4, <3>1, ElementOfSeq
  <2>2. Len(Small) = 1
    BY DEF Small
  <2> QED
    BY <2>1, <2>2
<1> QED
  BY <1>2, <1>4, <1>5, <1>7, <1>8 DEF e, n

Replies(V) == [status : {OK, INTERNAL_ERROR}, sent : Seq(V)]

\* The sending loop, turn by turn.
IsSending(from, file) ==
    /\ from[Len(file)] = [status |-> OK, sent |-> <<>>]
    /\ \A o \in 0 .. Len(file) - 1 :
          from[o] = IF Chunk(file, o) = Small THEN [status |-> INTERNAL_ERROR, sent |-> <<>>]
                    ELSE [from[o + ToRead(file, o)] EXCEPT !.sent = Chunk(file, o) \o @]
    /\ \A o \in 0 .. Len(file) : transfer_send_file_ascii(file, o) = from[o]

LEMMA Sends ==
    ASSUME NEW V, "CR" \in V, Small[1] \notin V, NEW file \in Seq(V)
    PROVE  \E from : IsSending(from, file)
<1> DEFINE n == Len(file)
           T == Replies(V)
           D == 0 .. n
           B == {n}
           mu == [o \in D |-> n - o]
           base == [o \in B |-> [status |-> OK, sent |-> <<>>]]
           next == [o \in D \ B |-> o + ToRead(file, o)]
           Make(o, r) == IF Chunk(file, o) = Small THEN [status |-> INTERNAL_ERROR, sent |-> <<>>]
                         ELSE [r EXCEPT !.sent = Chunk(file, o) \o @]
           make == [o \in D \ B |-> [r \in T |-> Make(o, r)]]
           Is(f) == f = [o \in 0 .. Len(file) |->
                            IF o = Len(file) THEN [status |-> OK, sent |-> <<>>]
                            ELSE IF Chunk(file, o) = Small
                                 THEN [status |-> INTERNAL_ERROR, sent |-> <<>>]
                            ELSE [f[o + ToRead(file, o)] EXCEPT !.sent = Chunk(file, o) \o @]]
           from == CHOOSE f : Is(f)
<1>1. n \in Nat
  OBVIOUS
<1>2. D \ B = 0 .. n - 1
  BY <1>1
<1>3. \A o \in 0 .. n - 1 : /\ o + ToRead(file, o) \in D /\ n - (o + ToRead(file, o)) < n - o
                           /\ Chunk(file, o) \in Seq(V)
  <2> SUFFICES ASSUME NEW o \in 0 .. n - 1
               PROVE  /\ o + ToRead(file, o) \in D /\ n - (o + ToRead(file, o)) < n - o
                      /\ Chunk(file, o) \in Seq(V)
    OBVIOUS
  <2>1. o \in 0 .. Len(file) /\ o < Len(file)
    BY <1>1
  <2>2. ToRead(file, o) \in Nat /\ o < o + ToRead(file, o) /\ o + ToRead(file, o) <= n
        /\ Chunk(file, o) \in Seq(V)
    BY <2>1, ChunkIs
  <2> QED
    BY <1>1, <2>1, <2>2
<1>4. Descends(D, n, mu, B, next)
  <2>1. mu \in [D -> 0 .. n] /\ B \in SUBSET D /\ n \in D
    BY <1>1
  <2>2. next \in [D \ B -> D] /\ \A o \in D \ B : mu[next[o]] < mu[o]
    BY <1>2, <1>3
  <2> QED
    BY <1>1, <2>1, <2>2 DEF Descends
<1>5. base \in [B -> T]
  BY DEF Replies
<1>6. make \in [D \ B -> [T -> T]]
  <2>1. ASSUME NEW o \in 0 .. n - 1, NEW r \in T PROVE Make(o, r) \in T
    <3>1. CASE Chunk(file, o) = Small
      BY <3>1 DEF Replies
    <3>2. CASE Chunk(file, o) # Small
      <4>1. r \in [status : {OK, INTERNAL_ERROR}, sent : Seq(V)]
        BY DEF Replies
      <4>2. Chunk(file, o) \o r.sent \in Seq(V)
        BY <1>3, <4>1, ConcatProperties
      <4> QED
        BY <3>2, <4>1, <4>2 DEF Replies
    <3> QED
      BY <3>1, <3>2
  <2> HIDE DEF Make, T, D, B, n
  <2> QED
    BY <1>2, <2>1
<1>7. PICK f \in [D -> T] : Solves(f, D, B, base, next, make)
  <2> HIDE DEF mu, B, base, next, make, T, D, n
  <2> QED
    BY <1>4, <1>5, <1>6, Recursion
<1>8. \A o \in D : f[o] = IF o = n THEN [status |-> OK, sent |-> <<>>]
                          ELSE Make(o, f[o + ToRead(file, o)])
  <2>1. \A o \in 0 .. n - 1 : o + ToRead(file, o) \in D /\ f[o + ToRead(file, o)] \in T
    BY <1>3
  <2> HIDE DEF Make, T
  <2> QED
    BY <1>1, <1>2, <1>7, <2>1 DEF Solves
<1>9. Is(from)
  <2>1. Is(f)
    BY <1>8
  <2> QED
    BY <2>1
<1>10. \A o \in 0 .. n : transfer_send_file_ascii(file, o) = from[o]
  <2> SUFFICES ASSUME NEW o \in 0 .. n PROVE transfer_send_file_ascii(file, o) = from[o]
    OBVIOUS
  <2>1. ~ (o > Len(file))
    BY <1>1
  <2> QED
    BY <2>1 DEF transfer_send_file_ascii, Chunk, ToRead
<1>11. \A o \in 0 .. n : from[o] = IF o = n THEN [status |-> OK, sent |-> <<>>]
                                   ELSE Make(o, from[o + ToRead(file, o)])
  BY <1>9
<1> HIDE DEF from
<1>12. n \in 0 .. n /\ \A o \in 0 .. n - 1 : o \in 0 .. n /\ o # n
  BY <1>1
<1>13. IsSending(from, file)
  BY <1>10, <1>11, <1>12 DEF IsSending
<1> QED
  BY <1>13

LEMMA SentExpands ==
    ASSUME NEW V, "CR" \in V, Small[1] \notin V, NEW file \in Seq(V), NEW o \in 0 .. Len(file)
    PROVE  LET r == transfer_send_file_ascii(file, o)
           IN  r.status = OK /\ r.sent \in Seq(V) /\ Expands(r.sent, file, o, Len(file))
<1> DEFINE n == Len(file)
<1>1. n \in Nat
  OBVIOUS
<1>2. PICK from : IsSending(from, file)
  BY Sends
<1> DEFINE Is(i, r) == /\ r = [status |-> OK, sent |-> r.sent]
                       /\ r.sent \in Seq(V) /\ Expands(r.sent, file, i, n)
           S == {i \in 0 .. n : Is(i, from[i])}
<1>3. Is(n, from[n])
  <2>1. from[n] = [status |-> OK, sent |-> <<>>] /\ <<>> \in Seq(V)
    BY <1>2 DEF IsSending
  <2>2. Expands(<<>>, file, n, n)
    <3>1. n \in 0 .. Len(file)
      BY <1>1
    <3> QED
      BY <3>1, ExpandsNone
  <2> QED
    BY <2>1, <2>2
<1>4. ASSUME NEW i \in 0 .. n - 1, \A j \in i + 1 .. n : j \in S
      PROVE  Is(i, from[i])
  <2> DEFINE e == i + ToRead(file, i)
             chunk == Chunk(file, i)
  <2>1. i \in 0 .. Len(file) /\ i < Len(file) /\ i \in Nat
    BY <1>1
  <2>2. /\ e \in i + 1 .. n /\ e \in Nat /\ i <= e /\ e <= n
        /\ chunk \in Seq(V) /\ chunk # Small /\ Expands(chunk, file, i, e)
    <3>1. /\ ToRead(file, i) \in Nat /\ i < e /\ e <= n
          /\ chunk \in Seq(V) /\ chunk # Small /\ Expands(chunk, file, i, e)
      BY <2>1, ChunkIs
    <3> HIDE DEF chunk
    <3> QED
      BY <1>1, <2>1, <3>1
  <2>3. Is(e, from[e])
    BY <1>4, <2>2
  <2>4. from[i] = [from[e] EXCEPT !.sent = chunk \o @]
    BY <1>2, <2>2 DEF IsSending
  <2> HIDE DEF chunk, e
  <2>5. from[i] = [status |-> OK, sent |-> chunk \o from[e].sent]
    <3>1. from[e] = [status |-> OK, sent |-> from[e].sent]
      BY <2>3
    <3>2. from[i] = [from[e] EXCEPT !.sent = chunk \o from[e].sent]
      BY <2>4, <3>1
    <3> DEFINE r == from[e]
    <3>3. \A bytes : [[status |-> OK, sent |-> r.sent] EXCEPT !.sent = bytes]
                     = [status |-> OK, sent |-> bytes]
      OBVIOUS
    <3> QED
      BY <3>1, <3>2, <3>3
  <2>6. chunk \o from[e].sent \in Seq(V)
    BY <2>2, <2>3, ConcatProperties
  <2>7. Expands(chunk \o from[e].sent, file, i, n)
    <3>1. n \in Nat /\ n <= Len(file)
      BY <1>1
    <3>2. from[e].sent \in Seq(V) /\ Expands(from[e].sent, file, e, n)
      BY <2>3
    <3> HIDE DEF n
    <3> QED
      BY <2>1, <2>2, <3>1, <3>2, ExpandsJoined
  <2> QED
    BY <2>5, <2>6, <2>7
<1> HIDE DEF Is
<1>5. \A i \in 0 .. n : (\A j \in i + 1 .. n : j \in S) => i \in S
  <2> SUFFICES ASSUME NEW i \in 0 .. n, \A j \in i + 1 .. n : j \in S
               PROVE  Is(i, from[i])
    OBVIOUS
  <2>1. i = n \/ i \in 0 .. n - 1
    BY <1>1
  <2> QED
    BY <1>3, <1>4, <2>1
<1>6. \A i \in 0 .. n : i \in S
  <2> HIDE DEF S, n
  <2> QED
    BY <1>1, <1>5, Down
<1>7. Is(o, from[o])
  BY <1>6
<1>8. transfer_send_file_ascii(file, o) = from[o]
  BY <1>2 DEF IsSending
<1>9. Is(o, transfer_send_file_ascii(file, o))
  BY <1>7, <1>8
<1> HIDE DEF n
<1>10. /\ transfer_send_file_ascii(file, o).status = OK
       /\ transfer_send_file_ascii(file, o).sent \in Seq(V)
       /\ Expands(transfer_send_file_ascii(file, o).sent, file, o, n)
  <2> DEFINE r == transfer_send_file_ascii(file, o)
  <2>1. Is(o, r)
    BY <1>9
  <2> HIDE DEF r
  <2>2. r.status = OK /\ r.sent \in Seq(V) /\ Expands(r.sent, file, o, n)
    BY <2>1 DEF Is
  <2> QED
    BY <2>2 DEF r
<1> QED
  BY <1>10 DEF n

\* crlf_to_lf takes back what the sender has put in.
LEMMA Decodes ==
    ASSUME NEW V, "CR" \in V, Small[1] \notin V, NEW file \in Seq(V), NEW o \in 0 .. Len(file),
           NEW sent \in Seq(V), Expands(sent, file, o, Len(file))
    PROVE  Written(CrlfTurns(sent)) = SubSeq(file, o + 1, Len(file))
<1> DEFINE n == Len(file)
           E(i) == Ends(file, i)
           at(i) == E(i) - E(o) + 1
           w == WrittenFrom(CrlfTurns(sent))
           Rest(i) == [k \in 1 .. n - i |-> file[i + k]]
           S == {i \in o .. n : w[at(i)] = Rest(i)}
<1>1. n \in Nat /\ o \in Nat /\ o <= n /\ \A i \in 1 .. n : file[i] \in V
  <2>1. n \in Nat /\ \A i \in 1 .. n : file[i] \in V
    BY LenProperties, ElementOfSeq
  <2> QED
    BY <2>1
<1>2. /\ w \in [Nat -> Seq(V)]
      /\ \A i \in 1 .. Len(sent) : w[i] = IF PairAt(sent, i) THEN <<"LF">> \o w[i + 2]
                                         ELSE <<sent[i]>> \o w[i + 1]
      /\ \A i \in Nat : i > Len(sent) => w[i] = <<>>
  BY CrlfTurnsAre
<1>3. /\ Len(sent) = E(n) - E(o)
      /\ \A i \in o .. n - 1 : HoldsAt(sent, E(i) - E(o), file[i + 1])
  BY DEF Expands
<1>4. /\ \A i \in o .. n : E(i) \in Nat /\ E(o) <= E(i) /\ E(i) <= E(n)
      /\ \A i \in o .. n - 1 : E(i + 1) = E(i) + IF file[i + 1] = "LF" THEN 2 ELSE 1
  <2>1. \A i \in o .. n : i \in 0 .. Len(file) /\ i \in o .. Len(file) /\ Len(file) \in i .. Len(file)
    BY <1>1
  <2>2. \A i \in o .. n - 1 : i \in 0 .. Len(file) /\ i < Len(file)
    BY <1>1
  <2>3. \A i \in o .. n : E(i) \in Nat /\ E(o) <= E(i) /\ E(i) <= E(n)
    BY <2>1, EndsAre
  <2>4. \A i \in o .. n - 1 : E(i + 1) = E(i) + IF file[i + 1] = "LF" THEN 2 ELSE 1
    BY <2>2, EndsAre
  <2> QED
    BY <2>3, <2>4
<1>5. \A i \in o .. n : Rest(i) \in Seq(V) /\ Len(Rest(i)) = n - i
  <2> SUFFICES ASSUME NEW i \in o .. n PROVE Rest(i) \in Seq(V) /\ Len(Rest(i)) = n - i
    OBVIOUS
  <2>1. n - i \in Nat /\ \A k \in 1 .. n - i : file[i + k] \in V
    <3>1. \A k \in 1 .. n - i : i + k \in 1 .. n
      BY <1>1
    <3> QED
      BY <1>1, <3>1
  <2>2. Rest(i) \in [1 .. n - i -> V]
    BY <2>1
  <2> QED
    BY <2>1, <2>2, FunctionIsSeq
<1>6. \A i \in o .. n - 1 : Rest(i) = <<file[i + 1]>> \o Rest(i + 1)
  <2> SUFFICES ASSUME NEW i \in o .. n - 1 PROVE Rest(i) = <<file[i + 1]>> \o Rest(i + 1)
    OBVIOUS
  <2> DEFINE t == <<file[i + 1]>> \o Rest(i + 1)
  <2>1. i + 1 \in 1 .. n /\ i + 1 \in o .. n /\ i \in o .. n /\ file[i + 1] \in V
    BY <1>1
  <2>2. Rest(i + 1) \in Seq(V) /\ Len(Rest(i + 1)) = n - (i + 1)
    BY <1>5, <2>1
  <2>3. t \in Seq(V) /\ IsPrepended(t, file[i + 1], Rest(i + 1))
    BY <2>1, <2>2, Prepended
  <2>4. Rest(i) \in Seq(V) /\ Len(Rest(i)) = n - i
    BY <1>5, <2>1
  <2> HIDE DEF t
  <2>5. Len(t) = Len(Rest(i)) /\ Len(t) = n - i /\ n - i \in Nat
    BY <1>1, <2>2, <2>3, <2>4 DEF IsPrepended
  <2>6. ASSUME NEW k \in 1 .. n - i PROVE t[k] = Rest(i)[k]
    <3>1. CASE k = 1
      BY <2>3, <3>1 DEF IsPrepended
    <3>2. CASE k # 1
      <4>1. k - 1 \in 1 .. n - (i + 1) /\ (k - 1) + 1 = k /\ (i + 1) + (k - 1) = i + k
        BY <1>1, <3>2
      <4>2. t[k] = Rest(i + 1)[k - 1]
        BY <2>2, <2>3, <4>1 DEF IsPrepended
      <4>3. Rest(i + 1)[k - 1] = file[(i + 1) + (k - 1)] /\ Rest(i)[k] = file[i + k]
        BY <4>1
      <4> QED
        BY <4>1, <4>2, <4>3
    <3> QED
      BY <3>1, <3>2
  <2> HIDE DEF Rest
  <2>7. t \in Seq(V) /\ Rest(i) \in Seq(V) /\ Len(t) = Len(Rest(i))
        /\ \A k \in 1 .. Len(t) : t[k] = Rest(i)[k]
    BY <2>3, <2>4, <2>5, <2>6
  <2> DEFINE u == Rest(i)
  <2> HIDE DEF u
  <2>8. t = u
    BY <2>7, SeqEqual DEF u
  <2> QED
    BY <2>8 DEF t, u
<1> HIDE DEF w, n, Rest
<1>7. w[at(n)] = Rest(n)
  <2>1. at(n) \in Nat /\ at(n) > Len(sent)
    BY <1>1, <1>3, <1>4
  <2>2. w[at(n)] = <<>>
    BY <1>2, <2>1
  <2>3. Rest(n) \in Seq(V) /\ Len(Rest(n)) = 0
    <3>1. n \in o .. n /\ n - n = 0
      BY <1>1
    <3> QED
      BY <1>5, <3>1
  <2> QED
    BY <2>2, <2>3, EmptySeq
<1>8. ASSUME NEW i \in o .. n - 1, w[at(i + 1)] = Rest(i + 1) PROVE w[at(i)] = Rest(i)
  <2> DEFINE q == at(i)
  <2>1. i \in o .. n /\ i + 1 \in o .. n
    BY <1>1
  <2>2. E(i) \in Nat /\ E(i + 1) \in Nat /\ E(n) \in Nat /\ E(o) \in Nat /\ E(o) <= E(i)
        /\ E(i + 1) <= E(n)
    <3>1. o \in o .. n /\ n \in o .. n
      BY <1>1
    <3> QED
      BY <1>4, <2>1, <3>1
  <2>3. HoldsAt(sent, E(i) - E(o), file[i + 1])
    BY <1>3
  <2>4. CASE file[i + 1] = "LF"
    <3>1. E(i + 1) = E(i) + 2
      BY <1>4, <2>4
    <3>2. q \in 1 .. Len(sent) /\ q < Len(sent) /\ at(i + 1) = q + 2 /\ q + 1 = E(i) - E(o) + 2
      <4>1. Len(sent) = E(n) - E(o)
        BY <1>3
      <4>2. E(i) + 2 <= E(n)
        BY <2>2, <3>1
      <4>3. at(i + 1) = q + 2 /\ q + 1 = E(i) - E(o) + 2
        BY <2>2, <3>1
      <4>4. q \in 1 .. Len(sent) /\ q < Len(sent)
        BY <2>2, <4>1, <4>2
      <4> QED
        BY <4>3, <4>4
    <3>3. PairAt(sent, q)
      BY <2>3, <2>4, <3>2 DEF HoldsAt, PairAt
    <3>4. w[q] = <<"LF">> \o w[at(i + 1)]
      BY <1>2, <3>2, <3>3
    <3> HIDE DEF q, at
    <3> QED
      BY <1>6, <1>8, <2>4, <3>4 DEF q
  <2>5. CASE file[i + 1] # "LF"
    <3>1. E(i + 1) = E(i) + 1
      BY <1>4, <2>5
    <3>2. q \in 1 .. Len(sent) /\ at(i + 1) = q + 1 /\ q + 1 = E(i + 1) - E(o) + 1 /\ q \in Nat
      BY <1>3, <2>2, <3>1
    <3>3. sent[q] = file[i + 1]
      BY <2>3, <2>5 DEF HoldsAt
    <3>4. ~ PairAt(sent, q)
      <4> SUFFICES ASSUME q < Len(sent), sent[q + 1] = "LF" PROVE FALSE
        BY DEF PairAt
      <4>1. i + 1 \in o .. n - 1
        <5>1. E(i + 1) # E(n)
          BY <1>3, <2>2, <3>2
        <5> QED
          BY <1>1, <2>1, <5>1
      <4>2. HoldsAt(sent, E(i + 1) - E(o), file[(i + 1) + 1])
        BY <1>3, <4>1
      <4>3. sent[q + 1] # "LF"
        BY <3>2, <4>2 DEF HoldsAt
      <4> QED
        BY <4>3
    <3>5. w[q] = <<file[i + 1]>> \o w[at(i + 1)]
      BY <1>2, <3>2, <3>3, <3>4
    <3> HIDE DEF q, at
    <3> QED
      BY <1>6, <1>8, <3>5 DEF q
  <2> QED
    BY <2>4, <2>5
<1> HIDE DEF at, E
<1>9. \A i \in o .. n : (\A j \in i + 1 .. n : j \in S) => i \in S
  <2> SUFFICES ASSUME NEW i \in o .. n, \A j \in i + 1 .. n : j \in S
               PROVE  w[at(i)] = Rest(i)
    OBVIOUS
  <2>1. i = n \/ (i \in o .. n - 1 /\ i + 1 \in i + 1 .. n)
    BY <1>1
  <2> QED
    BY <1>7, <1>8, <2>1
<1>10. o \in S
  <2>1. \A i \in o .. n : i \in S
    <3> HIDE DEF S
    <3> QED
      BY <1>1, <1>9, Down
  <2> QED
    BY <1>1, <2>1
<1>11. at(o) = 1
  <2>1. E(o) \in Nat
    BY <1>1, <1>4
  <2> QED
    BY <2>1 DEF at
<1>12. Rest(o) = SubSeq(file, o + 1, n)
  <2>1. n - (o + 1) + 1 = n - o /\ \A k \in 1 .. n - o : o + 1 + k - 1 = o + k
    BY <1>1
  <2> QED
    BY <1>1, <2>1 DEF Rest
<1> QED
  BY <1>10, <1>11, <1>12 DEF Written, w, n

\* A download in ASCII mode sends the bytes of the file from the offset on, a
\* CR put before each LF, and a receiver that takes them out again has these
\* bytes; no read ends where this fails (transfer.c:310-357).
THEOREM DownloadExact ==
    ASSUME NEW V, "CR" \in V, Small[1] \notin V, NEW file \in Seq(V), NEW offset \in Nat
    PROVE  DownloadIsExact(file, offset)
<1> DEFINE r == transfer_send_file_ascii(file, offset)
<1>1. CASE offset > Len(file)
  <2>1. r = [status |-> IO_ERROR, sent |-> <<>>]
    BY <1>1 DEF transfer_send_file_ascii
  <2> HIDE DEF r
  <2> QED
    BY <1>1, <2>1 DEF DownloadIsExact, r
<1>2. CASE ~ (offset > Len(file))
  <2>1. offset \in 0 .. Len(file)
    BY <1>2
  <2>2. r.status = OK /\ r.sent \in Seq(V) /\ Expands(r.sent, file, offset, Len(file))
    BY <2>1, SentExpands
  <2> HIDE DEF r
  <2>3. Written(CrlfTurns(r.sent)) = SubSeq(file, offset + 1, Len(file))
    BY <2>1, <2>2, Decodes
  <2>4. crlf_to_lf(r.sent, Len(r.sent)) = Written(CrlfTurns(r.sent))
    <3> DEFINE K == {i \in 1 .. Len(r.sent) : ~ PairAt(r.sent, i)}
    <3>1. Len(r.sent) \in Nat /\ Len(r.sent) <= Len(r.sent) /\ 0 \in Nat
      BY <2>2
    <3>2. \A i \in 1 .. Len(r.sent) : 0 + i \in K <=> ~ PairAt(r.sent, i)
      <4>1. \A i \in 1 .. Len(r.sent) : 0 + i = i
        OBVIOUS
      <4> QED
        BY <4>1
    <3> HIDE DEF K
    <3> QED
      BY <2>2, <3>1, <3>2, CrlfToLf
  <2>5. \A i \in DOMAIN r.sent : r.sent[i] = "LF" => i > 1 /\ r.sent[i - 1] = "CR"
    BY <2>2 DEF Expands, Paired
  <2> QED
    BY <1>2, <2>2, <2>3, <2>4, <2>5 DEF DownloadIsExact, r
<1> QED
  BY <1>1, <1>2

-----------------------------------------------------------------------------
(* Paths: the tokens between slashes                                       *)

LEMMA MinIs ==
    ASSUME NEW S \in SUBSET Nat, NEW m \in S, \A y \in S : m <= y
    PROVE  Min(S) = m
<1>1. m \in S /\ \A y \in S : m =< y
  OBVIOUS
<1>2. Min(S) \in S /\ \A y \in S : Min(S) =< y
  BY <1>1 DEF Min
<1>3. Min(S) \in Nat /\ m \in Nat /\ Min(S) <= m /\ m <= Min(S)
  BY <1>1, <1>2
<1> HIDE DEF Min
<1> QED
  BY <1>3

\* e is where the run without a slash that i is in ends.
RunsTo(path, i, e) == /\ e \in i .. Len(path)
                      /\ e = Len(path) \/ path[e + 1] = "/"
                      /\ \A j \in i .. e - 1 : path[j + 1] # "/"

LEMMA RunEndIs ==
    ASSUME NEW V, NEW path \in Seq(V), NEW i \in 1 .. Len(path), NEW e, RunsTo(path, i, e)
    PROVE  RunEnd(path, i) = e
<1> DEFINE S == {j \in i .. Len(path) : j = Len(path) \/ path[j + 1] = "/"}
<1>1. Len(path) \in Nat
  OBVIOUS
<1>2. e \in S /\ S \in SUBSET Nat
  BY <1>1 DEF RunsTo
<1>3. \A y \in S : e <= y
  <2> SUFFICES ASSUME NEW y \in S, ~ (e <= y) PROVE FALSE
    OBVIOUS
  <2>1. y \in i .. e - 1 /\ y # Len(path)
    BY <1>1, <1>2
  <2> QED
    BY <2>1 DEF RunsTo
<1> HIDE DEF S
<1>4. Min(S) = e
  BY <1>2, <1>3, MinIs
<1> QED
  BY <1>4 DEF RunEnd, S

LEMMA RunEnds ==
    ASSUME NEW V, NEW path \in Seq(V), NEW i \in 1 .. Len(path)
    PROVE  \E e \in i .. Len(path) : RunsTo(path, i, e)
<1> DEFINE S == {j \in i .. Len(path) : j = Len(path) \/ path[j + 1] = "/"}
<1>1. Len(path) \in Nat /\ Len(path) \in S /\ S \in SUBSET Nat
  OBVIOUS
<1>2. PICK e \in S : \A j \in S : e <= j
  BY <1>1, Least
<1>3. \A j \in i .. e - 1 : path[j + 1] # "/"
  <2> SUFFICES ASSUME NEW j \in i .. e - 1, path[j + 1] = "/" PROVE FALSE
    OBVIOUS
  <2>1. j \in S /\ ~ (e <= j)
    BY <1>1, <1>2
  <2> QED
    BY <1>2, <2>1
<1>4. RunsTo(path, i, e)
  BY <1>1, <1>2, <1>3 DEF RunsTo
<1> QED
  BY <1>2, <1>4

TokenTurns(path) ==
    [i \in DOMAIN path |->
        IF path[i] = "/" THEN [put |-> <<>>, next |-> i + 1]
        ELSE [put |-> <<SubSeq(path, i, RunEnd(path, i))>>, next |-> RunEnd(path, i) + 1]]

LEMMA TokenTurnsMove ==
    ASSUME NEW V, NEW path \in Seq(V)
    PROVE  /\ Moves(TokenTurns(path), Seq(V)) /\ Len(TokenTurns(path)) = Len(path)
           /\ Tokens(path) = Written(TokenTurns(path))
<1> DEFINE t == TokenTurns(path)
           n == Len(path)
<1>1. n \in Nat /\ DOMAIN path = 1 .. n
  BY LenProperties
<1> HIDE DEF n
<1>2. \A i \in 1 .. n : \E e \in i .. n : RunEnd(path, i) = e
  BY RunEnds, RunEndIs DEF n
<1>3. \A i \in 1 .. n : t[i] \in [put : Seq(Seq(V)), next : Nat] /\ t[i].next > i
  <2> SUFFICES ASSUME NEW i \in 1 .. n
               PROVE  t[i] \in [put : Seq(Seq(V)), next : Nat] /\ t[i].next > i
    OBVIOUS
  <2>1. CASE path[i] = "/"
    <3>1. t[i] = [put |-> <<>>, next |-> i + 1]
      BY <1>1, <2>1 DEF TokenTurns
    <3>2. i + 1 \in Nat /\ i + 1 > i /\ <<>> \in Seq(Seq(V))
      BY <1>1
    <3> HIDE DEF t
    <3> QED
      BY <3>1, <3>2
  <2>2. CASE path[i] # "/"
    <3> DEFINE e == RunEnd(path, i)
               s == SubSeq(path, i, e)
    <3>1. t[i] = [put |-> <<s>>, next |-> e + 1]
      BY <1>1, <2>2 DEF TokenTurns
    <3>2. e \in i .. n
      BY <1>2
    <3> HIDE DEF e
    <3>3. e + 1 \in Nat /\ e + 1 > i /\ i \in Nat /\ e \in Nat
      BY <1>1, <3>2
    <3>4. s \in Seq(V)
      <4>1. \A j \in i .. e : path[j] \in V
        BY <1>1, <3>2, ElementOfSeq DEF n
      <4>2. i \in Int /\ e \in Int
        BY <3>3
      <4> QED
        BY <4>1, <4>2, SubSeqProperties
    <3> HIDE DEF t, s
    <3>5. <<s>> \in Seq(Seq(V))
      BY <3>4
    <3> QED
      BY <3>1, <3>3, <3>5
  <2> QED
    BY <2>1, <2>2
<1>4. t = [i \in 1 .. n |-> t[i]]
  BY <1>1 DEF TokenTurns
<1>5. Tokens(path) = Written(t)
  BY DEF Tokens, TokenTurns
<1> HIDE DEF t
<1>6. t \in [1 .. n -> [put : Seq(Seq(V)), next : Nat]]
  BY <1>3, <1>4
<1>7. t \in Seq([put : Seq(Seq(V)), next : Nat]) /\ Len(t) = n
  BY <1>1, <1>6, FunctionIsSeq
<1>8. Moves(t, Seq(V))
  BY <1>3, <1>7 DEF Moves
<1> QED
  BY <1>5, <1>7, <1>8 DEF t, n

\* Where the elements of a concatenation are.
Is2(c, a, b) == /\ Len(c) = Len(a) + Len(b)
                /\ \A i \in 1 .. Len(a) : c[i] = a[i]
                /\ \A i \in 1 .. Len(b) : c[Len(a) + i] = b[i]

LEMMA Elements ==
    ASSUME NEW V, NEW a \in Seq(V), NEW b \in Seq(V)
    PROVE  /\ a \o b \in Seq(V) /\ Is2(a \o b, a, b)
           /\ Len(a) \in Nat /\ Len(b) \in Nat /\ Len(a \o b) = Len(a) + Len(b)
<1> DEFINE c == a \o b
<1>1. Len(a) \in Nat /\ Len(b) \in Nat
  OBVIOUS
<1>2. /\ c \in Seq(V) /\ Len(c) = Len(a) + Len(b)
      /\ \A i \in 1 .. Len(a) + Len(b) : c[i] = IF i <= Len(a) THEN a[i] ELSE b[i - Len(a)]
  BY ConcatProperties
<1> HIDE DEF c
<1>3. \A i \in 1 .. Len(a) : i \in 1 .. Len(a) + Len(b) /\ i <= Len(a)
  BY <1>1
<1>4. \A i \in 1 .. Len(b) : Len(a) + i \in 1 .. Len(a) + Len(b) /\ ~ (Len(a) + i <= Len(a))
                             /\ Len(a) + i - Len(a) = i
  BY <1>1
<1>5. \A i \in 1 .. Len(a) : c[i] = a[i]
  BY <1>2, <1>3
<1>6. \A i \in 1 .. Len(b) : c[Len(a) + i] = b[i]
  BY <1>2, <1>4
<1>7. Is2(c, a, b)
  BY <1>2, <1>5, <1>6 DEF Is2
<1> QED
  BY <1>1, <1>2, <1>7 DEF c

LEMMA LaterPart ==
    ASSUME NEW V, NEW a \in Seq(V), NEW b \in Seq(V), NEW i \in 1 .. Len(b),
           NEW e \in i .. Len(b)
    PROVE  SubSeq(a \o b, Len(a) + i, Len(a) + e) = SubSeq(b, i, e)
<1>1. Len(a) \in Nat /\ Len(b) \in Nat
  OBVIOUS
<1>2. /\ Len(a) + i \in Len(a) + 1 .. Len(a) + Len(b)
      /\ Len(a) + e \in Len(a) + 1 .. Len(a) + Len(b)
      /\ Len(a) + i - Len(a) = i /\ Len(a) + e - Len(a) = e
  BY <1>1
<1>3. SubSeq(a \o b, Len(a) + i, Len(a) + e)
        = SubSeq(b, Len(a) + i - Len(a), Len(a) + e - Len(a))
  BY <1>2, SubSeqOfConcat2
<1> QED
  BY <1>2, <1>3

\* The tokens of what comes later do not depend on what comes before it.
LEMMA TokensShift ==
    ASSUME NEW V, NEW a \in Seq(V), NEW b \in Seq(V)
    PROVE  WrittenFrom(TokenTurns(a \o b))[Len(a) + 1] = Tokens(b)
<1> DEFINE c == a \o b
           n == Len(a)
           m == Len(b)
           u == TokenTurns(c)
           v == TokenTurns(b)
<1>1. n \in Nat /\ m \in Nat /\ c \in Seq(V) /\ Is2(c, a, b) /\ Len(c) = n + m
  BY Elements
<1>2. DOMAIN c = 1 .. n + m /\ DOMAIN b = 1 .. m
  BY <1>1, LenProperties
<1>3. \A i \in 1 .. m : c[n + i] = b[i]
  BY <1>1 DEF Is2
<1>4. \A i \in 1 .. m, e \in 1 .. m : i <= e => SubSeq(c, n + i, n + e) = SubSeq(b, i, e)
  <2> SUFFICES ASSUME NEW i \in 1 .. m, NEW e \in 1 .. m, i <= e
               PROVE  SubSeq(c, n + i, n + e) = SubSeq(b, i, e)
    OBVIOUS
  <2>1. e \in i .. m
    BY <1>1
  <2> QED
    BY <2>1, LaterPart
<1> HIDE DEF c, n, m
<1>5. ASSUME NEW i \in 1 .. m
      PROVE  u[n + i].put = v[i].put /\ u[n + i].next = n + v[i].next
  <2>1. n + i \in 1 .. n + m /\ n + i \in DOMAIN c /\ i \in DOMAIN b
    BY <1>1, <1>2
  <2>2. CASE b[i] = "/"
    <3>1. c[n + i] = "/"
      BY <1>3, <2>2
    <3>2. u[n + i] = [put |-> <<>>, next |-> n + i + 1]
      BY <2>1, <3>1 DEF TokenTurns
    <3>3. v[i] = [put |-> <<>>, next |-> i + 1]
      BY <2>1, <2>2 DEF TokenTurns
    <3>4. n + i + 1 = n + (i + 1)
      BY <1>1
    <3> QED
      BY <3>2, <3>3, <3>4
  <2>3. CASE b[i] # "/"
    <3>1. c[n + i] # "/"
      BY <1>3, <2>3
    <3>2. PICK e \in i .. m : RunsTo(b, i, e)
      BY RunEnds DEF m
    <3>3. RunEnd(b, i) = e
      BY <3>2, RunEndIs DEF m
    <3>4. RunsTo(c, n + i, n + e)
      <4>1. e = m \/ (e + 1 \in 1 .. m /\ b[e + 1] = "/")
        BY <1>1, <3>2 DEF RunsTo, m
      <4>2. n + e = n + m \/ c[n + e + 1] = "/"
        <5>1. n + (e + 1) = n + e + 1
          BY <1>1, <3>2
        <5> QED
          BY <1>3, <4>1, <5>1
      <4>3. \A j \in n + i .. n + e - 1 : c[j + 1] # "/"
        <5> SUFFICES ASSUME NEW j \in n + i .. n + e - 1 PROVE c[j + 1] # "/"
          OBVIOUS
        <5>1. j - n \in i .. e - 1 /\ (j - n) + 1 \in 1 .. m /\ n + ((j - n) + 1) = j + 1
          BY <1>1, <3>2
        <5>2. b[(j - n) + 1] # "/"
          BY <3>2, <5>1 DEF RunsTo
        <5>3. c[n + ((j - n) + 1)] = b[(j - n) + 1]
          BY <1>3, <5>1
        <5> QED
          BY <5>1, <5>2, <5>3
      <4>4. n + e \in n + i .. n + m
        BY <1>1, <3>2
      <4> QED
        BY <1>1, <4>2, <4>3, <4>4 DEF RunsTo
    <3>5. RunEnd(c, n + i) = n + e
      BY <1>1, <2>1, <3>4, RunEndIs
    <3>6. SubSeq(c, n + i, n + e) = SubSeq(b, i, e)
      <4>1. e \in 1 .. m /\ i <= e
        BY <1>1, <3>2
      <4> QED
        BY <1>4, <4>1
    <3>7. u[n + i] = [put |-> <<SubSeq(b, i, e)>>, next |-> n + e + 1]
      BY <2>1, <3>1, <3>5, <3>6 DEF TokenTurns
    <3>8. v[i] = [put |-> <<SubSeq(b, i, e)>>, next |-> e + 1]
      BY <2>1, <2>3, <3>3 DEF TokenTurns
    <3>9. n + e + 1 = n + (e + 1)
      BY <1>1, <3>2
    <3> HIDE DEF u, v
    <3> QED
      BY <3>7, <3>8, <3>9
  <2> QED
    BY <2>2, <2>3
<1>6. /\ Moves(u, Seq(V)) /\ Len(u) = n + m
      /\ Moves(v, Seq(V)) /\ Len(v) = m /\ Tokens(b) = Written(v)
  BY <1>1, TokenTurnsMove DEF m
<1> HIDE DEF u, v
<1>7. Shifted(u, v, n)
  BY <1>5, <1>6 DEF Shifted
<1>8. WrittenFrom(u)[n + 1] = Written(v)
  BY <1>1, <1>6, <1>7, WrittenShifted
<1> QED
  BY <1>6, <1>8 DEF c, n, u

\* A run of characters between two slashes.
Runs(V) == {t \in Seq(V) : Len(t) > 0 /\ \A i \in 1 .. Len(t) : t[i] # "/"}

\* What may follow a run.
Rest(b) == b = <<>> \/ b[1] = "/"

LEMMA TokensNone == ASSUME NEW V PROVE Tokens(<<>>) = <<>>
<1>1. <<>> \in Seq(V) /\ Len(<<>>) = 0
  OBVIOUS
<1> QED
  BY <1>1, TokenTurnsMove, NoTurn

LEMMA TokensSlash ==
    ASSUME NEW V, "/" \in V, NEW b \in Seq(V)
    PROVE  Tokens(<<"/">> \o b) = Tokens(b)
<1> DEFINE a == <<"/">>
           c == a \o b
           u == TokenTurns(c)
<1>1. a \in Seq(V) /\ Len(a) = 1 /\ a[1] = "/" /\ 1 \in 1 .. Len(a)
  OBVIOUS
<1> HIDE DEF a
<1>2. /\ c \in Seq(V) /\ Is2(c, a, b) /\ Len(c) = 1 + Len(b) /\ Len(b) \in Nat
  BY <1>1, Elements
<1>3. c[1] = "/" /\ 1 \in DOMAIN c /\ Len(c) > 0
  <2>1. c[1] = a[1]
    BY <1>1, <1>2 DEF Is2
  <2>2. DOMAIN c = 1 .. Len(c)
    BY <1>2, LenProperties
  <2> QED
    BY <1>1, <1>2, <2>1, <2>2
<1>4. u[1] = [put |-> <<>>, next |-> 2]
  <2>1. u[1] = [put |-> <<>>, next |-> 1 + 1]
    BY <1>3 DEF TokenTurns
  <2> QED
    BY <2>1
<1>5. WrittenFrom(u)[2] = Tokens(b)
  <2>1. Len(a) + 1 = 2
    BY <1>1
  <2> QED
    BY <1>1, <2>1, TokensShift
<1>6. Moves(u, Seq(V)) /\ Len(u) = Len(c) /\ Tokens(c) = Written(u)
  BY <1>2, TokenTurnsMove
<1>7. Tokens(c) = u[1].put \o WrittenFrom(u)[u[1].next]
  BY <1>3, <1>6, OneTurn
<1>8. Tokens(b) \in Seq(Seq(V))
  BY TokenTurnsMove, WrittenType
<1> HIDE DEF c, u
<1>9. Tokens(c) = <<>> \o Tokens(b)
  BY <1>4, <1>5, <1>7
<1> QED
  BY <1>8, <1>9, ConcatEmptySeq DEF a, c

LEMMA TokensRun ==
    ASSUME NEW V, NEW t \in Runs(V), NEW b \in Seq(V), Rest(b)
    PROVE  Tokens(t \o b) = <<t>> \o Tokens(b)
<1> DEFINE c == t \o b
           n == Len(t)
           u == TokenTurns(c)
<1>1. t \in Seq(V) /\ n \in Nat /\ n > 0 /\ (\A i \in 1 .. n : t[i] # "/")
  BY DEF Runs
<1>2. c \in Seq(V) /\ Is2(c, t, b) /\ Len(c) = n + Len(b) /\ Len(b) \in Nat
  BY <1>1, Elements
<1>3. DOMAIN c = 1 .. Len(c)
  BY <1>2, LenProperties
<1>4. SubSeq(c, 1, n) = t
  <2>1. 1 \in 1 .. n /\ n \in 1 .. n
    BY <1>1
  <2>2. SubSeq(c, 1, n) = SubSeq(t, 1, n)
    BY <1>1, <2>1, SubSeqOfConcat1
  <2> QED
    BY <1>1, <2>2, SubSeqFull
<1> HIDE DEF c, n
<1>5. \A i \in 1 .. n : c[i] # "/"
  BY <1>1, <1>2 DEF Is2, n
<1>6. 1 \in 1 .. n /\ 1 \in 1 .. Len(c) /\ Len(c) > 0
  BY <1>1, <1>2
<1>7. RunsTo(c, 1, n)
  <2>1. n = Len(c) \/ c[n + 1] = "/"
    <3>1. CASE b = <<>>
      <4>1. Len(b) = 0
        BY <3>1
      <4> QED
        BY <1>1, <1>2, <4>1
    <3>2. CASE b # <<>> /\ b[1] = "/"
      <4>1. Len(b) # 0
        BY <3>2, EmptySeq
      <4>2. 1 \in 1 .. Len(b)
        BY <1>2, <4>1
      <4> QED
        BY <1>2, <3>2, <4>2 DEF Is2, n
    <3> QED
      BY <3>1, <3>2 DEF Rest
  <2>2. \A j \in 1 .. n - 1 : j + 1 \in 1 .. n
    BY <1>1
  <2>3. n \in 1 .. Len(c)
    BY <1>1, <1>2
  <2> QED
    BY <1>5, <2>1, <2>2, <2>3 DEF RunsTo
<1>8. RunEnd(c, 1) = n
  BY <1>2, <1>6, <1>7, RunEndIs
<1>9. u[1] = [put |-> <<t>>, next |-> n + 1]
  BY <1>3, <1>4, <1>5, <1>6, <1>8 DEF TokenTurns
<1>10. WrittenFrom(u)[n + 1] = Tokens(b)
  BY <1>1, TokensShift DEF c, n
<1>11. Moves(u, Seq(V)) /\ Len(u) = Len(c) /\ Tokens(c) = Written(u)
  BY <1>2, TokenTurnsMove
<1>12. Tokens(c) = u[1].put \o WrittenFrom(u)[u[1].next]
  BY <1>6, <1>11, OneTurn
<1> HIDE DEF u
<1>13. Tokens(c) = <<t>> \o Tokens(b)
  BY <1>9, <1>10, <1>12
<1> QED
  BY <1>13 DEF c

LEMMA SplitAt ==
    ASSUME NEW V, NEW s \in Seq(V), NEW e \in 0 .. Len(s)
    PROVE  /\ SubSeq(s, 1, e) \in Seq(V) /\ IsPart(SubSeq(s, 1, e), s, 0, e)
           /\ SubSeq(s, e + 1, Len(s)) \in Seq(V)
           /\ IsPart(SubSeq(s, e + 1, Len(s)), s, e, Len(s))
           /\ SubSeq(s, 1, e) \o SubSeq(s, e + 1, Len(s)) = s
<1>1. Len(s) \in Nat /\ e \in Nat /\ e <= Len(s) /\ 0 \in Nat /\ 0 <= e
  OBVIOUS
<1>2. SubSeq(s, 0 + 1, e) \in Seq(V) /\ IsPart(SubSeq(s, 0 + 1, e), s, 0, e)
  BY <1>1, PartOf
<1>3. 0 + 1 = 1
  OBVIOUS
<1>4. SubSeq(s, e + 1, Len(s)) \in Seq(V) /\ IsPart(SubSeq(s, e + 1, Len(s)), s, e, Len(s))
  BY <1>1, PartOf
<1>5. SubSeq(s, 1, e) \o SubSeq(s, e + 1, Len(s)) = SubSeq(s, 1, Len(s))
  <2>1. 1 \in 1 .. Len(s) + 1 /\ e \in 1 - 1 .. Len(s) /\ Len(s) \in e .. Len(s)
    BY <1>1
  <2> QED
    BY <2>1, ConcatAdjacentSubSeq
<1>6. SubSeq(s, 1, Len(s)) = s
  BY SubSeqFull
<1> QED
  BY <1>2, <1>3, <1>4, <1>5, <1>6

\* Induction over paths: a path is empty, or has a slash or a run in front.
Spells(S, V) == /\ <<>> \in S
                /\ \A b \in Seq(V) : b \in S => <<"/">> \o b \in S
                /\ \A t \in Runs(V), b \in Seq(V) : b \in S /\ Rest(b) => t \o b \in S

LEMMA PathInduction ==
    ASSUME NEW V, NEW S, Spells(S, V)
    PROVE  Seq(V) \subseteq S
<1> DEFINE N == {k \in Nat : \A s \in Seq(V) : Len(s) = k => s \in S}
<1>1. ASSUME NEW k \in Nat, \A j \in 0 .. k - 1 : j \in N
      PROVE  k \in N
  <2> SUFFICES ASSUME NEW s \in Seq(V), Len(s) = k PROVE s \in S
    OBVIOUS
  <2>1. CASE s = <<>>
    BY <2>1 DEF Spells
  <2>2. CASE s # <<>>
    <3>1. k # 0 /\ 1 \in 1 .. Len(s) /\ DOMAIN s = 1 .. k
      <4>1. Len(s) # 0
        BY <2>2, EmptySeq
      <4> QED
        BY <4>1, LenProperties
    <3>2. PICK e \in 1 .. Len(s) : /\ s[1] = "/" => e = 1
                                   /\ s[1] # "/" => RunsTo(s, 1, e)
      BY <3>1, RunEnds
    <3> DEFINE t == SubSeq(s, 1, e)
               b == SubSeq(s, e + 1, Len(s))
    <3>3. e \in 0 .. Len(s) /\ e \in Nat /\ Len(s) - e \in 0 .. k - 1
      BY <3>1, <3>2
    <3>4. /\ t \in Seq(V) /\ IsPart(t, s, 0, e) /\ b \in Seq(V) /\ IsPart(b, s, e, Len(s))
          /\ t \o b = s
      BY <3>3, SplitAt
    <3> HIDE DEF t, b
    <3>5. /\ Len(t) = e /\ \A i \in 1 .. e : t[i] = s[i]
          /\ Len(b) = Len(s) - e /\ \A i \in 1 .. Len(s) - e : b[i] = s[e + i]
      <4>1. e - 0 = e /\ \A i \in 1 .. e : 0 + i = i
        BY <3>3
      <4> QED
        BY <3>4, <4>1 DEF IsPart
    <3>6. b \in S
      <4>1. Len(b) \in N
        BY <1>1, <3>3, <3>5
      <4> QED
        BY <3>4, <4>1
    <3>7. CASE s[1] = "/"
      <4>1. Len(t) = 1 /\ t[1] = "/"
        BY <3>2, <3>5, <3>7
      <4>2. t = <<"/">>
        BY <3>4, <4>1
      <4> QED
        BY <3>4, <3>6, <4>2 DEF Spells
    <3>8. CASE s[1] # "/"
      <4>1. RunsTo(s, 1, e)
        BY <3>2, <3>8
      <4>2. \A i \in 1 .. e : s[i] # "/"
        <5>1. \A i \in 1 .. e : i = 1 \/ (i - 1 \in 1 .. e - 1 /\ (i - 1) + 1 = i)
          BY <3>3
        <5> QED
          BY <3>8, <4>1, <5>1 DEF RunsTo
      <4>3. t \in Runs(V)
        <5>1. e > 0
          BY <3>2
        <5> QED
          BY <3>4, <3>5, <4>2, <5>1 DEF Runs
      <4>4. Rest(b)
        <5>1. CASE e = Len(s)
          <6>1. Len(b) = 0
            BY <3>3, <3>5, <5>1
          <6> QED
            BY <3>4, <6>1 DEF Rest
        <5>2. CASE e # Len(s)
          <6>1. 1 \in 1 .. Len(s) - e
            BY <3>2, <5>2
          <6> QED
            BY <3>5, <4>1, <5>2, <6>1 DEF RunsTo, Rest
        <5> QED
          BY <5>1, <5>2
      <4> QED
        BY <3>4, <3>6, <4>3, <4>4 DEF Spells
    <3> QED
      BY <3>7, <3>8
  <2> QED
    BY <2>1, <2>2
<1>2. \A k \in Nat : k \in N
  <2> HIDE DEF N
  <2> QED
    BY <1>1, Up
<1>3. ASSUME NEW s \in Seq(V) PROVE s \in S
  <2>1. Len(s) \in Nat /\ Len(s) \in N
    BY <1>2
  <2> QED
    BY <2>1
<1> QED
  BY <1>3

LEMMA TokensType ==
    ASSUME NEW V, NEW a \in Seq(V)
    PROVE  Tokens(a) \in Seq(Seq(V))
  BY TokenTurnsMove, WrittenType

LEMMA RestJoin ==
    ASSUME NEW V, NEW a \in Seq(V), NEW b \in Seq(V), Rest(a), Rest(b)
    PROVE  Rest(a \o b)
<1>1. CASE a = <<>>
  BY <1>1, Joins
<1>2. CASE a # <<>>
  <2>1. Len(a) # 0 /\ Len(a) \in Nat
    BY <1>2, EmptySeq
  <2>2. 1 \in 1 .. Len(a)
    BY <2>1
  <2>3. Is2(a \o b, a, b)
    BY Elements
  <2> QED
    BY <1>2, <2>2, <2>3 DEF Is2, Rest
<1> QED
  BY <1>1, <1>2

\* The tokens of a path and of what follows it at a slash.
LEMMA TokensJoin ==
    ASSUME NEW V, "/" \in V, NEW a \in Seq(V), NEW b \in Seq(V), Rest(b)
    PROVE  Tokens(a \o b) = Tokens(a) \o Tokens(b)
<1> DEFINE S == {x \in Seq(V) : Tokens(x \o b) = Tokens(x) \o Tokens(b)}
<1>1. Tokens(b) \in Seq(Seq(V))
  BY TokensType
<1>2. <<>> \in S
  <2>1. <<>> \in Seq(V) /\ <<>> \o b = b /\ Tokens(<<>>) = <<>>
    BY TokensNone, ConcatEmptySeq
  <2>2. <<>> \o Tokens(b) = Tokens(b)
    BY <1>1, ConcatEmptySeq
  <2> QED
    BY <2>1, <2>2
<1>3. ASSUME NEW x \in Seq(V), x \in S PROVE <<"/">> \o x \in S
  <2> DEFINE s == <<"/">>
  <2>1. s \in Seq(V)
    OBVIOUS
  <2> HIDE DEF s
  <2>2. (s \o x) \o b = s \o (x \o b) /\ s \o x \in Seq(V) /\ x \o b \in Seq(V)
    BY <2>1, Joins
  <2>3. Tokens(s \o x) = Tokens(x) /\ Tokens(s \o (x \o b)) = Tokens(x \o b)
    BY <2>2, TokensSlash DEF s
  <2>4. Tokens(x \o b) = Tokens(x) \o Tokens(b)
    BY <1>3
  <2>5. s \o x \in S
    BY <2>2, <2>3, <2>4
  <2> QED
    BY <2>5 DEF s
<1>4. ASSUME NEW t \in Runs(V), NEW x \in Seq(V), x \in S, Rest(x) PROVE t \o x \in S
  <2>1. t \in Seq(V) /\ <<t>> \in Seq(Seq(V))
    BY DEF Runs
  <2>2. (t \o x) \o b = t \o (x \o b) /\ t \o x \in Seq(V) /\ x \o b \in Seq(V)
    BY <2>1, Joins
  <2>3. Rest(x \o b)
    BY <1>4, RestJoin
  <2>4. Tokens(t \o x) = <<t>> \o Tokens(x) /\ Tokens(t \o (x \o b)) = <<t>> \o Tokens(x \o b)
    BY <1>4, <2>2, <2>3, TokensRun
  <2>5. Tokens(x \o b) = Tokens(x) \o Tokens(b)
    BY <1>4
  <2> DEFINE p == <<t>>
             q == Tokens(x)
             r == Tokens(b)
  <2>6. p \in Seq(Seq(V)) /\ q \in Seq(Seq(V)) /\ r \in Seq(Seq(V))
    BY <1>1, <2>1, TokensType
  <2>7. Tokens((t \o x) \o b) = p \o (q \o r) /\ Tokens(t \o x) \o r = (p \o q) \o r
    BY <2>2, <2>4, <2>5
  <2> HIDE DEF p, q
  <2>8. (p \o q) \o r = p \o (q \o r)
    <3>1. Associate(p, q, r)
      BY <2>6, Assoc
    <3> QED
      BY <3>1 DEF Associate
  <2> QED
    BY <2>2, <2>7, <2>8
<1>5. Spells(S, V)
  <2> HIDE DEF S
  <2> QED
    BY <1>2, <1>3, <1>4 DEF Spells
<1>6. a \in S
  <2> HIDE DEF S
  <2> QED
    BY <1>5, PathInduction
<1> QED
  BY <1>6

LEMMA SlashJoin ==
    ASSUME NEW V, "/" \in V, NEW a \in Seq(V), NEW b \in Seq(V)
    PROVE  /\ a \o (<<"/">> \o b) \in Seq(V)
           /\ Tokens(a \o (<<"/">> \o b)) = Tokens(a) \o Tokens(b)
<1> DEFINE s == <<"/">>
<1>1. s \in Seq(V) /\ Len(s) = 1 /\ s[1] = "/" /\ 1 \in 1 .. Len(s)
  OBVIOUS
<1> HIDE DEF s
<1>2. s \o b \in Seq(V) /\ Is2(s \o b, s, b)
  BY <1>1, Elements
<1>3. Rest(s \o b)
  BY <1>1, <1>2 DEF Is2, Rest
<1>4. a \o (s \o b) \in Seq(V) /\ Tokens(a \o (s \o b)) = Tokens(a) \o Tokens(s \o b)
  BY <1>2, <1>3, TokensJoin, Joins
<1>5. Tokens(s \o b) = Tokens(b)
  BY TokensSlash DEF s
<1> QED
  BY <1>4, <1>5 DEF s

\* What is left of a sequence from its element i on.
SuffixesOf(s) == [i \in 1 .. Len(s) + 1 |-> SubSeq(s, i, Len(s))]

AreSuffixes(rest, s, V) ==
    /\ rest[Len(s) + 1] = <<>> /\ rest[1] = s
    /\ \A i \in 1 .. Len(s) : rest[i + 1] \in Seq(V) /\ rest[i] = <<s[i]>> \o rest[i + 1]

LEMMA SuffixesAre ==
    ASSUME NEW V, NEW s \in Seq(V)
    PROVE  AreSuffixes(SuffixesOf(s), s, V)
<1> DEFINE rest == SuffixesOf(s)
<1>1. Len(s) \in Nat
  OBVIOUS
<1>2. Len(s) + 1 \in Int /\ Len(s) \in Int /\ Len(s) < Len(s) + 1
  BY <1>1
<1>3. SubSeq(s, Len(s) + 1, Len(s)) = <<>>
  BY <1>2, SubSeqEmpty
<1>4. ASSUME NEW i \in 1 .. Len(s)
      PROVE  /\ SubSeq(s, i + 1, Len(s)) \in Seq(V)
             /\ SubSeq(s, i, Len(s)) = <<s[i]>> \o SubSeq(s, i + 1, Len(s))
  <2>1. i \in 0 .. Len(s) /\ Len(s) \in i .. Len(s)
    BY <1>1
  <2> QED
    BY <2>1, SplitAt, SubSeqRecursiveFirst
<1>5. 1 \in 1 .. Len(s) + 1 /\ Len(s) + 1 \in 1 .. Len(s) + 1
      /\ \A i \in 1 .. Len(s) : i \in 1 .. Len(s) + 1 /\ i + 1 \in 1 .. Len(s) + 1
  BY <1>1
<1>6. rest[Len(s) + 1] = <<>>
  BY <1>3, <1>5 DEF SuffixesOf
<1>7. rest[1] = s
  BY <1>5, SubSeqFull DEF SuffixesOf
<1>8. ASSUME NEW i \in 1 .. Len(s)
      PROVE  rest[i + 1] \in Seq(V) /\ rest[i] = <<s[i]>> \o rest[i + 1]
  <2>1. rest[i] = SubSeq(s, i, Len(s)) /\ rest[i + 1] = SubSeq(s, i + 1, Len(s))
    BY <1>5 DEF SuffixesOf
  <2> HIDE DEF rest
  <2> QED
    BY <1>4, <2>1
<1> HIDE DEF rest
<1>9. AreSuffixes(rest, s, V)
  BY <1>6, <1>7, <1>8 DEF AreSuffixes
<1> QED
  BY <1>9 DEF rest

SingleTurns(path) ==
    [i \in DOMAIN path |->
        [put  |-> IF path[i] = "/" /\ i > 1 /\ path[i - 1] = "/" THEN <<>> ELSE <<path[i]>>,
         next |-> i + 1]]

LEMMA SingleTurnsMove ==
    ASSUME NEW V, NEW s \in Seq(V)
    PROVE  /\ Moves(SingleTurns(s), V) /\ Len(SingleTurns(s)) = Len(s)
           /\ Single(s) = Written(SingleTurns(s))
           /\ \A i \in 1 .. Len(s) :
                 /\ SingleTurns(s)[i].next = i + 1
                 /\ SingleTurns(s)[i].put
                       = IF s[i] = "/" /\ i > 1 /\ s[i - 1] = "/" THEN <<>> ELSE <<s[i]>>
<1> DEFINE n == Len(s)
           t == SingleTurns(s)
           Put(i) == IF s[i] = "/" /\ i > 1 /\ s[i - 1] = "/" THEN <<>> ELSE <<s[i]>>
<1>1. n \in Nat /\ DOMAIN s = 1 .. n /\ \A i \in 1 .. n : s[i] \in V
  BY LenProperties, ElementOfSeq
<1>2. t = [i \in 1 .. n |-> [put |-> Put(i), next |-> i + 1]]
  BY <1>1 DEF SingleTurns
<1>3. Single(s) = Written(t)
  BY DEF Single, SingleTurns
<1>4. \A i \in 1 .. n : Put(i) \in Seq(V)
  <2>1. \A i \in 1 .. n : <<s[i]>> \in Seq(V)
    BY <1>1
  <2>2. <<>> \in Seq(V)
    OBVIOUS
  <2> QED
    BY <2>1, <2>2
<1> HIDE DEF n, t, Put
<1>5. \A i \in 1 .. n : i + 1 \in Nat /\ i + 1 > i
  BY <1>1
<1>6. t \in [1 .. n -> [put : Seq(V), next : Nat]]
  BY <1>2, <1>4, <1>5
<1>7. t \in Seq([put : Seq(V), next : Nat]) /\ Len(t) = n
  BY <1>1, <1>6, FunctionIsSeq
<1>8. \A i \in 1 .. n : t[i].put = Put(i) /\ t[i].next = i + 1
  BY <1>2
<1>9. Moves(t, V)
  BY <1>5, <1>7, <1>8 DEF Moves
<1> QED
  BY <1>3, <1>7, <1>8, <1>9 DEF n, t, Put

Bare(V) == {t \in Seq(V) : \A i \in 1 .. Len(t) : t[i] # "/"}

LEMMA BareMore ==
    ASSUME NEW V, NEW t \in Bare(V), NEW c \in V, c # "/"
    PROVE  t \o <<c>> \in Bare(V) /\ t \o <<c>> # <<>>
<1> DEFINE u == <<c>>
<1>1. t \in Seq(V) /\ \A i \in 1 .. Len(t) : t[i] # "/"
  BY DEF Bare
<1>2. u \in Seq(V) /\ Len(u) = 1 /\ u[1] = c
  OBVIOUS
<1> HIDE DEF u
<1>3. /\ t \o u \in Seq(V) /\ Is2(t \o u, t, u) /\ Len(t) \in Nat /\ Len(t \o u) = Len(t) + 1
  BY <1>1, <1>2, Elements
<1>4. \A i \in 1 .. Len(t) + 1 : i \in 1 .. Len(t) \/ (i = Len(t) + 1 /\ 1 \in 1 .. 1)
  BY <1>3
<1>5. \A i \in 1 .. Len(t \o u) : (t \o u)[i] # "/"
  BY <1>1, <1>2, <1>3, <1>4 DEF Is2
<1>6. t \o u # <<>>
  <2>1. Len(t \o u) # Len(<<>>)
    BY <1>3
  <2> QED
    BY <2>1
<1> QED
  BY <1>3, <1>5, <1>6 DEF Bare, u

\* Runs of slashes separate the tokens as one slash does.
LEMMA SingleTokens ==
    ASSUME NEW V, "/" \in V, NEW s \in Seq(V)
    PROVE  Single(s) \in Seq(V) /\ Tokens(Single(s)) = Tokens(s)
<1> DEFINE n == Len(s)
           w == WrittenFrom(SingleTurns(s))
           rest == SuffixesOf(s)
           Before(i, t) == t # <<>> => i = 1 \/ s[i - 1] # "/"
           S == {i \in 1 .. n + 1 : \A t \in Bare(V) :
                    Before(i, t) => Tokens(t \o w[i]) = Tokens(t \o rest[i])}
           slash == <<"/">>
<1>1. n \in Nat /\ \A i \in 1 .. n : s[i] \in V
  BY ElementOfSeq
<1>2. /\ rest[n + 1] = <<>> /\ rest[1] = s
      /\ \A i \in 1 .. n : rest[i + 1] \in Seq(V) /\ rest[i] = <<s[i]>> \o rest[i + 1]
  <2>1. AreSuffixes(rest, s, V)
    BY SuffixesAre
  <2> HIDE DEF rest
  <2> QED
    BY <2>1 DEF AreSuffixes
<1>3. /\ w \in [Nat -> Seq(V)] /\ Single(s) = w[1]
      /\ \A i \in Nat : i > n => w[i] = <<>>
      /\ \A i \in 1 .. n :
            w[i] = (IF s[i] = "/" /\ i > 1 /\ s[i - 1] = "/" THEN <<>> ELSE <<s[i]>>) \o w[i + 1]
  <2> DEFINE u == SingleTurns(s)
  <2>1. /\ Moves(u, V) /\ Len(u) = n /\ Single(s) = Written(u)
        /\ \A i \in 1 .. n :
              /\ u[i].next = i + 1
              /\ u[i].put = IF s[i] = "/" /\ i > 1 /\ s[i - 1] = "/" THEN <<>> ELSE <<s[i]>>
    BY SingleTurnsMove
  <2> HIDE DEF u
  <2>2. Steps(WrittenFrom(u), u, V)
    BY <2>1, WritesSteps
  <2>3. Single(s) = WrittenFrom(u)[1]
    BY <2>1 DEF Written
  <2> QED
    BY <2>1, <2>2, <2>3 DEF Steps, u
<1> HIDE DEF n, w, rest
<1>4. <<>> \in Bare(V) /\ Bare(V) \subseteq Seq(V)
  BY DEF Bare
<1>5. ASSUME NEW i \in 1 .. n, i + 1 \in S
      PROVE  i \in S
  <2> SUFFICES ASSUME NEW t \in Bare(V), Before(i, t)
               PROVE  Tokens(t \o w[i]) = Tokens(t \o rest[i])
    BY <1>1
  <2> DEFINE x == w[i + 1]
             y == rest[i + 1]
  <2>1. x \in Seq(V) /\ y \in Seq(V) /\ t \in Seq(V) /\ s[i] \in V
    <3>1. y \in Seq(V) /\ s[i] \in V
      BY <1>1, <1>2
    <3>2. i + 1 \in Nat /\ w \in [Nat -> Seq(V)]
      BY <1>1, <1>3
    <3>3. x \in Seq(V)
      BY <3>2
    <3> QED
      BY <1>4, <3>1, <3>3
  <2>2. \A v \in Bare(V) : (v # <<>> => s[i] # "/") => Tokens(v \o x) = Tokens(v \o y)
    <3>1. (i + 1) - 1 = i /\ i + 1 # 1
      BY <1>1
    <3> QED
      BY <1>5, <3>1
  <2>3. rest[i] = <<s[i]>> \o y
    BY <1>2
  <2>4. w[i] = (IF s[i] = "/" /\ i > 1 /\ s[i - 1] = "/" THEN <<>> ELSE <<s[i]>>) \o x
    BY <1>3
  <2> HIDE DEF x, y
  <2>5. CASE s[i] # "/"
    <3> DEFINE c == <<s[i]>>
    <3>1. t \o c \in Bare(V) /\ t \o c # <<>>
      BY <2>1, <2>5, BareMore
    <3>2. Tokens((t \o c) \o x) = Tokens((t \o c) \o y)
      BY <2>2, <2>5, <3>1
    <3>3. w[i] = c \o x /\ rest[i] = c \o y
      BY <2>3, <2>4, <2>5
    <3>4. c \in Seq(V)
      BY <2>1
    <3> HIDE DEF c, Before, S
    <3>5. (t \o c) \o x = t \o (c \o x)
      <4>1. Associate(t, c, x)
        BY <2>1, <3>4, Assoc
      <4> QED
        BY <4>1 DEF Associate
    <3>6. (t \o c) \o y = t \o (c \o y)
      <4>1. Associate(t, c, y)
        BY <2>1, <3>4, Assoc
      <4> QED
        BY <4>1 DEF Associate
    <3> QED
      BY <3>2, <3>3, <3>5, <3>6
  <2>6. CASE s[i] = "/"
    <3>1. Tokens(x) = Tokens(y)
      <4>1. Tokens(<<>> \o x) = Tokens(<<>> \o y)
        BY <1>4, <2>2
      <4> QED
        BY <2>1, <4>1, ConcatEmptySeq
    <3>2. rest[i] = slash \o y
      BY <2>3, <2>6
    <3>3. Tokens(t \o (slash \o y)) = Tokens(t) \o Tokens(y)
      BY <2>1, SlashJoin
    <3>4. CASE i > 1 /\ s[i - 1] = "/"
      <4>1. t = <<>>
        BY <2>1, <3>4
      <4>2. w[i] = x
        BY <2>1, <2>4, <2>6, <3>4, ConcatEmptySeq
      <4>3. t \o x = x
        BY <2>1, <4>1, ConcatEmptySeq
      <4>4. Tokens(t) \o Tokens(y) = Tokens(y)
        BY <2>1, <4>1, TokensNone, TokensType, ConcatEmptySeq
      <4> QED
        BY <3>1, <3>2, <3>3, <4>2, <4>3, <4>4
    <3>5. CASE ~ (i > 1 /\ s[i - 1] = "/")
      <4>1. w[i] = slash \o x
        BY <2>4, <2>6, <3>5
      <4>2. Tokens(t \o (slash \o x)) = Tokens(t) \o Tokens(x)
        BY <2>1, SlashJoin
      <4> HIDE DEF slash
      <4> QED
        BY <3>1, <3>2, <3>3, <4>1, <4>2
    <3> QED
      BY <3>4, <3>5
  <2> QED
    BY <2>5, <2>6
<1>6. n + 1 \in S
  <2>1. n + 1 \in Nat /\ n + 1 > n /\ n + 1 \in 1 .. n + 1
    BY <1>1
  <2>2. w[n + 1] = rest[n + 1]
    BY <1>2, <1>3, <2>1
  <2> QED
    BY <2>1, <2>2
<1>7. 1 \in S
  <2>1. ASSUME NEW i \in 1 .. n + 1, \A j \in i + 1 .. n + 1 : j \in S
        PROVE  i \in S
    <3>1. CASE i = n + 1
      BY <1>6, <3>1
    <3>2. CASE i # n + 1
      <4>1. i \in 1 .. n /\ i + 1 \in i + 1 .. n + 1
        BY <1>1, <3>2
      <4> HIDE DEF S
      <4> QED
        BY <1>5, <2>1, <4>1
    <3> QED
      BY <3>1, <3>2
  <2>2. 1 \in Nat /\ n + 1 \in Nat /\ 1 \in 1 .. n + 1
    BY <1>1
  <2> HIDE DEF S
  <2> QED
    BY <2>1, <2>2, Down
<1>8. Tokens(<<>> \o w[1]) = Tokens(<<>> \o rest[1])
  BY <1>4, <1>7
<1>9. w[1] \in Seq(V) /\ rest[1] = s
  <2>1. 1 \in Nat
    OBVIOUS
  <2> QED
    BY <1>2, <1>3, <2>1
<1> QED
  BY <1>3, <1>8, <1>9, ConcatEmptySeq

-----------------------------------------------------------------------------
(* Paths: what normalizing them keeps                                      *)

NoBack(V) == V \ {"\\"}

LEMMA SlashedIs ==
    ASSUME NEW V, "/" \in V, NEW p \in Seq(V)
    PROVE  /\ Slashed(p) \in Seq(NoBack(V)) /\ Len(Slashed(p)) = Len(p)
           /\ \A i \in 1 .. Len(p) : Slashed(p)[i] = IF p[i] = "\\" THEN "/" ELSE p[i]
<1> DEFINE n == Len(p)
           s == Slashed(p)
<1>1. n \in Nat /\ DOMAIN p = 1 .. n /\ \A i \in 1 .. n : p[i] \in V
  BY LenProperties, ElementOfSeq
<1>2. s = [i \in 1 .. n |-> IF p[i] = "\\" THEN "/" ELSE p[i]]
  BY <1>1 DEF Slashed
<1>3. \A i \in 1 .. n : (IF p[i] = "\\" THEN "/" ELSE p[i]) \in NoBack(V)
  BY <1>1 DEF NoBack
<1> HIDE DEF n, s
<1>4. s \in [1 .. n -> NoBack(V)] /\ \A i \in 1 .. n : s[i] = IF p[i] = "\\" THEN "/" ELSE p[i]
  BY <1>2, <1>3
<1>5. s \in Seq(NoBack(V)) /\ Len(s) = n
  BY <1>1, <1>4, FunctionIsSeq
<1> QED
  BY <1>4, <1>5 DEF n, s

LEMMA SlashedSame ==
    ASSUME NEW V, NEW p \in Seq(NoBack(V))
    PROVE  Slashed(p) = p
<1>1. DOMAIN p = 1 .. Len(p) /\ \A i \in 1 .. Len(p) : p[i] \in NoBack(V)
  BY LenProperties, ElementOfSeq
<1>2. \A i \in DOMAIN p : p[i] # "\\"
  BY <1>1 DEF NoBack
<1>3. p = [i \in DOMAIN p |-> p[i]]
  <2>1. p \in [1 .. Len(p) -> NoBack(V)]
    BY LenProperties
  <2> QED
    BY <1>1, <2>1
<1> QED
  BY <1>2, <1>3 DEF Slashed

LEMMA SlashedJoin ==
    ASSUME NEW V, "/" \in V, NEW a \in Seq(V), NEW b \in Seq(V)
    PROVE  Slashed(a \o b) = Slashed(a) \o Slashed(b)
<1> DEFINE c == a \o b
           x == Slashed(a)
           y == Slashed(b)
           z == x \o y
           s == Slashed(c)
           n == Len(a)
           m == Len(b)
<1>1. n \in Nat /\ m \in Nat /\ c \in Seq(V) /\ Is2(c, a, b) /\ Len(c) = n + m
  BY Elements
<1>2. /\ x \in Seq(NoBack(V)) /\ Len(x) = n
      /\ \A i \in 1 .. n : x[i] = IF a[i] = "\\" THEN "/" ELSE a[i]
  BY SlashedIs
<1>3. /\ y \in Seq(NoBack(V)) /\ Len(y) = m
      /\ \A i \in 1 .. m : y[i] = IF b[i] = "\\" THEN "/" ELSE b[i]
  BY SlashedIs
<1>4. /\ s \in Seq(NoBack(V)) /\ Len(s) = n + m
      /\ \A i \in 1 .. n + m : s[i] = IF c[i] = "\\" THEN "/" ELSE c[i]
  BY <1>1, SlashedIs
<1>6. (\A i \in 1 .. n : c[i] = a[i]) /\ \A i \in 1 .. m : c[n + i] = b[i]
  BY <1>1 DEF Is2
<1> HIDE DEF x, y
<1>5. z \in Seq(NoBack(V)) /\ Is2(z, x, y) /\ Len(z) = n + m
  <2>1. x \in Seq(NoBack(V)) /\ y \in Seq(NoBack(V)) /\ Len(x) = n /\ Len(y) = m
    BY <1>2, <1>3
  <2>2. z \in Seq(NoBack(V)) /\ Is2(z, x, y) /\ Len(z) = Len(x) + Len(y)
    BY <2>1, Elements
  <2> QED
    BY <2>1, <2>2
<1>7. (\A i \in 1 .. n : z[i] = x[i]) /\ \A i \in 1 .. m : z[n + i] = y[i]
  BY <1>2, <1>3, <1>5 DEF Is2
<1> HIDE DEF c, z, s, n, m
<1>8. \A i \in 1 .. n + m : s[i] = z[i]
  <2> SUFFICES ASSUME NEW i \in 1 .. n + m PROVE s[i] = z[i]
    OBVIOUS
  <2>1. CASE i \in 1 .. n
    <3>1. c[i] = a[i]
      BY <1>6, <2>1
    <3> QED
      BY <1>2, <1>4, <1>7, <2>1, <3>1
  <2>2. CASE i \notin 1 .. n
    <3>1. i - n \in 1 .. m /\ n + (i - n) = i
      BY <1>1, <2>2
    <3>2. c[i] = b[i - n]
      BY <1>6, <3>1
    <3>3. z[i] = y[i - n]
      BY <1>7, <3>1
    <3> QED
      BY <1>3, <1>4, <3>1, <3>2, <3>3
  <2> QED
    BY <2>1, <2>2
<1>9. s = z
  BY <1>4, <1>5, <1>8, SeqEqual
<1> QED
  BY <1>9 DEF s, z, x, y, c

\* The tokens of a path once its slashes are in order.
NamesOf(p) == Tokens(Slashed(p))

LEMMA LastSlash ==
    ASSUME NEW V, "/" \in V, NEW z \in Seq(V), Len(z) > 1, Last(z) = "/"
    PROVE  Front(z) \in Seq(V) /\ Tokens(Front(z)) = Tokens(z)
<1> DEFINE n == Len(z)
           a == SubSeq(z, 1, n - 1)
           b == SubSeq(z, n - 1 + 1, n)
           s == <<"/">>
<1>1. n \in Nat /\ n - 1 \in 0 .. n /\ n - 1 + 1 = n /\ n - (n - 1) = 1 /\ 1 \in 1 .. 1
  OBVIOUS
<1>2. a \in Seq(V) /\ b \in Seq(V) /\ IsPart(b, z, n - 1, n) /\ a \o b = z
  BY <1>1, SplitAt
<1>3. z[n] = "/" /\ Front(z) = a
  BY DEF Last, Front
<1> HIDE DEF n, a, b
<1>4. Len(b) = 1 /\ b[1] = "/"
  BY <1>1, <1>2, <1>3 DEF IsPart
<1>5. b = s
  BY <1>2, <1>4
<1>6. <<>> \in Seq(V) /\ s \in Seq(V)
  OBVIOUS
<1>7. s \o <<>> = s
  BY <1>6, ConcatEmptySeq
<1>8. Tokens(a \o (s \o <<>>)) = Tokens(a) \o Tokens(<<>>)
  BY <1>2, <1>6, SlashJoin
<1> HIDE DEF s
<1>9. Tokens(a) \o <<>> = Tokens(a)
  BY <1>2, TokensType, ConcatEmptySeq
<1> QED
  BY <1>2, <1>3, <1>5, <1>7, <1>8, <1>9, TokensNone

\* proto_normalize_path changes no token.
LEMMA NormalTokens ==
    ASSUME NEW V, "/" \in V, NEW p \in Seq(V)
    PROVE  /\ proto_normalize_path(p) \in Seq(NoBack(V))
           /\ Tokens(proto_normalize_path(p)) = NamesOf(p)
<1> DEFINE z == Single(Slashed(p))
<1>1. "/" \in NoBack(V)
  BY DEF NoBack
<1>2. z \in Seq(NoBack(V)) /\ Tokens(z) = NamesOf(p)
  BY <1>1, SlashedIs, SingleTokens DEF NamesOf
<1> HIDE DEF z
<1>3. CASE Len(z) > 1 /\ Last(z) = "/"
  BY <1>1, <1>2, <1>3, LastSlash DEF proto_normalize_path, z
<1>4. CASE ~ (Len(z) > 1 /\ Last(z) = "/")
  BY <1>2, <1>4 DEF proto_normalize_path, z
<1> QED
  BY <1>3, <1>4

LEMMA NamesJoin ==
    ASSUME NEW V, "/" \in V, NEW a \in Seq(V), NEW b \in Seq(V)
    PROVE  /\ a \o (<<"/">> \o b) \in Seq(V)
           /\ NamesOf(a \o (<<"/">> \o b)) = NamesOf(a) \o NamesOf(b)
           /\ <<"/">> \o b \in Seq(V) /\ NamesOf(<<"/">> \o b) = NamesOf(b)
<1> DEFINE s == <<"/">>
<1>1. s \in Seq(V) /\ s \in Seq(NoBack(V)) /\ "/" \in NoBack(V)
  BY DEF NoBack
<1>2. Slashed(s) = s
  BY <1>1, SlashedSame
<1> HIDE DEF s
<1>3. s \o b \in Seq(V) /\ a \o (s \o b) \in Seq(V)
  BY <1>1, Joins
<1>4. Slashed(s \o b) = s \o Slashed(b) /\ Slashed(a \o (s \o b)) = Slashed(a) \o Slashed(s \o b)
  BY <1>1, <1>2, <1>3, SlashedJoin
<1>5. Slashed(a) \in Seq(NoBack(V)) /\ Slashed(b) \in Seq(NoBack(V))
  BY SlashedIs
<1>6. /\ Tokens(Slashed(a) \o (s \o Slashed(b))) = Tokens(Slashed(a)) \o Tokens(Slashed(b))
      /\ Tokens(s \o Slashed(b)) = Tokens(Slashed(b))
  BY <1>1, <1>5, SlashJoin, TokensSlash DEF s
<1> QED
  BY <1>3, <1>4, <1>6 DEF s, NamesOf

-----------------------------------------------------------------------------
(* Paths: a path built of its components                                   *)

Slashing(cs) == [k \in DOMAIN cs |-> <<"/">> \o cs[k]]
Flat(cs) == Concat(Slashing(cs))

LEMMA SlashingType ==
    ASSUME NEW V, "/" \in V, NEW cs \in Seq(Seq(V))
    PROVE  /\ Slashing(cs) \in Seq(Seq(V)) /\ Len(Slashing(cs)) = Len(cs)
           /\ \A k \in 1 .. Len(cs) : Slashing(cs)[k] = <<"/">> \o cs[k]
<1> DEFINE n == Len(cs)
           s == <<"/">>
           t == Slashing(cs)
<1>1. n \in Nat /\ DOMAIN cs = 1 .. n /\ s \in Seq(V)
  BY LenProperties
<1>2. t = [k \in 1 .. n |-> s \o cs[k]]
  BY <1>1 DEF Slashing
<1> HIDE DEF s, t
<1>3. \A k \in 1 .. n : s \o cs[k] \in Seq(V)
  BY <1>1, ElementOfSeq, Joins
<1> HIDE DEF n
<1>4. t \in [1 .. n -> Seq(V)] /\ \A k \in 1 .. n : t[k] = s \o cs[k]
  BY <1>2, <1>3
<1>5. t \in Seq(Seq(V)) /\ Len(t) = n
  BY <1>1, <1>4, FunctionIsSeq
<1> QED
  BY <1>4, <1>5 DEF n, s, t

LEMMA FlatType ==
    ASSUME NEW V, "/" \in V, NEW cs \in Seq(Seq(V))
    PROVE  Flat(cs) \in Seq(V)
  BY SlashingType, ConcatType DEF Flat

LEMMA FlatNone == ASSUME NEW V PROVE Flat(<<>>) = <<>>
<1>1. Slashing(<<>>) = <<>>
  BY DEF Slashing
<1> QED
  BY <1>1, ConcatNone DEF Flat

LEMMA FlatSnoc ==
    ASSUME NEW V, "/" \in V, NEW cs \in Seq(Seq(V)), NEW t \in Seq(V)
    PROVE  Flat(Append(cs, t)) = Flat(cs) \o (<<"/">> \o t)
<1> DEFINE more == Append(cs, t)
           n == Len(cs)
           st == <<"/">> \o t
           u == Append(Slashing(cs), st)
<1>1. /\ more \in Seq(Seq(V)) /\ Len(more) = n + 1 /\ n \in Nat
      /\ (\A k \in 1 .. n : more[k] = cs[k]) /\ more[n + 1] = t
  BY AppendProperties
<1>2. st \in Seq(V)
  BY Joins
<1>3. Slashing(cs) \in Seq(Seq(V)) /\ Len(Slashing(cs)) = n
      /\ \A k \in 1 .. n : Slashing(cs)[k] = <<"/">> \o cs[k]
  BY SlashingType
<1>4. /\ u \in Seq(Seq(V)) /\ Len(u) = n + 1
      /\ (\A k \in 1 .. n : u[k] = Slashing(cs)[k]) /\ u[n + 1] = st
  <2> HIDE DEF st
  <2> QED
    BY <1>2, <1>3, AppendProperties
<1>5. /\ Slashing(more) \in Seq(Seq(V)) /\ Len(Slashing(more)) = n + 1
      /\ \A k \in 1 .. n + 1 : Slashing(more)[k] = <<"/">> \o more[k]
  BY <1>1, SlashingType
<1> HIDE DEF more, u, n
<1>6. \A k \in 1 .. n + 1 : Slashing(more)[k] = u[k]
  <2> SUFFICES ASSUME NEW k \in 1 .. n + 1 PROVE Slashing(more)[k] = u[k]
    OBVIOUS
  <2>1. Slashing(more)[k] = <<"/">> \o more[k]
    BY <1>5
  <2>2. CASE k \in 1 .. n
    BY <1>1, <1>3, <1>4, <2>1, <2>2
  <2>3. CASE k = n + 1
    BY <1>1, <1>4, <2>1, <2>3
  <2> QED
    BY <1>1, <2>2, <2>3
<1>7. Slashing(more) = u
  BY <1>4, <1>5, <1>6, SeqEqual
<1> HIDE DEF st
<1>8. Concat(u) = Concat(Slashing(cs)) \o st
  BY <1>2, <1>3, ConcatSnoc DEF u
<1> QED
  BY <1>7, <1>8 DEF Flat, more, st

LEMMA FlatJoin ==
    ASSUME NEW V, "/" \in V, NEW a \in Seq(Seq(V)), NEW b \in Seq(Seq(V))
    PROVE  Flat(a \o b) = Flat(a) \o Flat(b)
<1> DEFINE S == {x \in Seq(Seq(V)) : Flat(a \o x) = Flat(a) \o Flat(x)}
<1>1. <<>> \in S
  <2>1. <<>> \in Seq(Seq(V)) /\ Flat(<<>>) = <<>>
    BY FlatNone
  <2>2. a \o <<>> = a
    BY ConcatEmptySeq
  <2>3. Flat(a) \o <<>> = Flat(a)
    BY FlatType, ConcatEmptySeq
  <2>4. Flat(a \o <<>>) = Flat(a) \o Flat(<<>>)
    BY <2>1, <2>2, <2>3
  <2> QED
    BY <2>1, <2>4
<1>2. ASSUME NEW x \in Seq(Seq(V)), NEW t \in Seq(V), x \in S PROVE Append(x, t) \in S
  <2> DEFINE st == <<"/">> \o t
             ax == a \o x
             xt == Append(x, t)
  <2>1. st \in Seq(V) /\ Flat(a) \in Seq(V) /\ Flat(x) \in Seq(V)
    BY FlatType, Joins
  <2>2. ax \in Seq(Seq(V)) /\ xt \in Seq(Seq(V)) /\ a \o xt = Append(ax, t)
    <3>1. ax \in Seq(Seq(V)) /\ xt \in Seq(Seq(V)) /\ <<t>> \in Seq(Seq(V))
      BY Joins, AppendProperties
    <3>2. xt = x \o <<t>> /\ Append(ax, t) = ax \o <<t>>
      BY <3>1, AppendIsConcat
    <3>3. (a \o x) \o <<t>> = a \o (x \o <<t>>)
      <4>1. Associate(a, x, <<t>>)
        BY <3>1, Assoc
      <4> QED
        BY <4>1 DEF Associate
    <3> HIDE DEF xt
    <3> QED
      BY <3>1, <3>2, <3>3
  <2>3. Flat(Append(ax, t)) = Flat(ax) \o st
    <3> HIDE DEF ax
    <3> QED
      BY <2>2, FlatSnoc
  <2>4. Flat(xt) = Flat(x) \o st
    BY FlatSnoc
  <2>5. Flat(ax) = Flat(a) \o Flat(x)
    BY <1>2
  <2> HIDE DEF ax, xt, st
  <2>6. (Flat(a) \o Flat(x)) \o st = Flat(a) \o (Flat(x) \o st)
    <3>1. Associate(Flat(a), Flat(x), st)
      BY <2>1, Assoc
    <3> QED
      BY <3>1 DEF Associate
  <2>7. xt \in S
    BY <2>2, <2>3, <2>4, <2>5, <2>6
  <2> QED
    BY <2>7 DEF xt
<1>3. Grows(S, Seq(V))
  <2> HIDE DEF S
  <2> QED
    BY <1>1, <1>2 DEF Grows
<1>4. b \in S
  <2> HIDE DEF S
  <2> QED
    BY <1>3, SnocInduction
<1> QED
  BY <1>4

LEMMA FlatOne ==
    ASSUME NEW V, "/" \in V, NEW t \in Seq(V)
    PROVE  Flat(<<t>>) = <<"/">> \o t
<1>1. <<>> \in Seq(Seq(V)) /\ <<t>> = Append(<<>>, t)
  OBVIOUS
<1>2. Flat(Append(<<>>, t)) = Flat(<<>>) \o (<<"/">> \o t)
  BY <1>1, FlatSnoc
<1>3. <<"/">> \o t \in Seq(V)
  BY Joins
<1> QED
  BY <1>1, <1>2, <1>3, FlatNone, ConcatEmptySeq

\* The tokens of a path are its runs, no longer than the path.
Fits(x, V) == /\ Tokens(x) \in Seq(Runs(V))
              /\ Len(Flat(Tokens(x))) <= Len(x) + 1
              /\ Rest(x) => Len(Flat(Tokens(x))) <= Len(x)

LEMMA RunsAreSeqs ==
    ASSUME NEW V, NEW s \in Seq(Runs(V))
    PROVE  s \in Seq(Seq(V))
<1>1. Runs(V) \subseteq Seq(V)
  BY DEF Runs
<1> QED
  BY <1>1, SeqMonotonic

LEMMA TokensFit ==
    ASSUME NEW V, "/" \in V, NEW x \in Seq(V)
    PROVE  Fits(x, V)
<1> DEFINE S == {y \in Seq(V) : Fits(y, V)}
<1>1. <<>> \in S
  <2>1. Tokens(<<>>) = <<>> /\ Flat(<<>>) = <<>> /\ Len(<<>>) = 0
    BY TokensNone, FlatNone
  <2>2. <<>> \in Seq(V) /\ <<>> \in Seq(Runs(V)) /\ 0 <= 0 /\ 0 <= 0 + 1
    OBVIOUS
  <2>3. Fits(<<>>, V)
    BY <2>1, <2>2 DEF Fits
  <2> QED
    BY <2>2, <2>3
<1>2. ASSUME NEW b \in Seq(V), b \in S PROVE <<"/">> \o b \in S
  <2> DEFINE s == <<"/">>
             w == Len(Flat(Tokens(b)))
  <2>1. s \in Seq(V) /\ Len(s) = 1
    OBVIOUS
  <2>2. Tokens(s \o b) = Tokens(b)
    BY TokensSlash
  <2> HIDE DEF s
  <2>3. s \o b \in Seq(V) /\ Len(s \o b) = 1 + Len(b) /\ Len(b) \in Nat
    <3>1. s \o b \in Seq(V) /\ Len(s \o b) = Len(s) + Len(b) /\ Len(b) \in Nat
      BY <2>1, Elements
    <3> QED
      BY <2>1, <3>1
  <2>4. Tokens(b) \in Seq(Runs(V)) /\ w <= Len(b) + 1
    BY <1>2 DEF Fits
  <2>5. w \in Nat
    <3>1. Flat(Tokens(b)) \in Seq(V)
      BY <2>4, RunsAreSeqs, FlatType
    <3> QED
      BY <3>1
  <2> HIDE DEF w
  <2>6. w <= 1 + Len(b) /\ w <= 1 + Len(b) + 1
    BY <2>3, <2>4, <2>5
  <2>7. Fits(s \o b, V)
    BY <2>2, <2>3, <2>4, <2>6 DEF Fits, w
  <2> QED
    BY <2>3, <2>7 DEF s
<1>3. ASSUME NEW t \in Runs(V), NEW b \in Seq(V), b \in S, Rest(b) PROVE t \o b \in S
  <2> DEFINE p == <<t>>
             q == Tokens(b)
             c == t \o b
             w == Len(Flat(q))
             s == <<"/">>
  <2>1. t \in Seq(V) /\ p \in Seq(Runs(V)) /\ Len(t) \in Nat /\ Len(t) > 0 /\ 1 \in 1 .. Len(t)
        /\ s \in Seq(V) /\ Len(s) = 1
    BY DEF Runs
  <2>2. Tokens(c) = p \o q
    BY <1>3, TokensRun
  <2>3. q \in Seq(Runs(V)) /\ w <= Len(b)
    BY <1>3 DEF Fits
  <2>4. c \in Seq(V) /\ Len(c) = Len(t) + Len(b) /\ Len(b) \in Nat /\ ~ Rest(c)
    <3>1. c \in Seq(V) /\ Is2(c, t, b) /\ Len(c) = Len(t) + Len(b) /\ Len(b) \in Nat
      BY <2>1, Elements
    <3> HIDE DEF c
    <3>2. c[1] = t[1] /\ t[1] # "/"
      BY <2>1, <3>1 DEF Is2, Runs
    <3>3. Len(c) > 0
      BY <2>1, <3>1
    <3>4. c # <<>>
      BY <3>3
    <3> QED
      BY <3>1, <3>2, <3>4 DEF Rest
  <2>5. Flat(p) = s \o t
    BY <2>1, FlatOne
  <2> HIDE DEF p, q, c, s
  <2>6. /\ p \o q \in Seq(Runs(V)) /\ p \in Seq(Seq(V)) /\ q \in Seq(Seq(V))
        /\ Flat(p \o q) = Flat(p) \o Flat(q)
    <3>1. p \o q \in Seq(Runs(V))
      BY <2>1, <2>3, Elements
    <3>2. p \in Seq(Seq(V)) /\ q \in Seq(Seq(V))
      BY <2>1, <2>3, RunsAreSeqs
    <3>3. Flat(p \o q) = Flat(p) \o Flat(q)
      BY <3>2, FlatJoin
    <3> QED
      BY <3>1, <3>2, <3>3
  <2>7. Flat(q) \in Seq(V) /\ s \o t \in Seq(V) /\ Len(s \o t) = 1 + Len(t)
    <3>1. Flat(q) \in Seq(V)
      BY <2>6, FlatType
    <3>2. s \o t \in Seq(V) /\ Len(s \o t) = Len(s) + Len(t)
      BY <2>1, Elements
    <3> QED
      BY <2>1, <3>1, <3>2
  <2>8. Len(Flat(p \o q)) = 1 + Len(t) + w /\ w \in Nat
    <3>1. Len((s \o t) \o Flat(q)) = Len(s \o t) + Len(Flat(q))
      BY <2>7, Joins
    <3>2. Len(Flat(q)) \in Nat
      BY <2>7
    <3> QED
      BY <2>5, <2>6, <2>7, <3>1, <3>2
  <2> HIDE DEF w
  <2>9. Len(Flat(p \o q)) <= Len(c) + 1
    <3>1. 1 + Len(t) + w <= Len(t) + Len(b) + 1
      BY <2>1, <2>3, <2>4, <2>8
    <3> QED
      BY <2>4, <2>8, <3>1
  <2>10. Fits(c, V)
    BY <2>2, <2>4, <2>6, <2>9 DEF Fits
  <2> QED
    BY <2>4, <2>10 DEF c
<1>4. Spells(S, V)
  <2> HIDE DEF S
  <2> QED
    BY <1>1, <1>2, <1>3 DEF Spells
<1>5. x \in S
  <2> HIDE DEF S
  <2> QED
    BY <1>4, PathInduction
<1> QED
  BY <1>5

-----------------------------------------------------------------------------
(* Paths: resolving the tokens                                             *)

\* What one token does to the components before it.
After1(cs, t) == IF Len(cs) = MaxComponents \/ t = Dots(1) THEN cs
                 ELSE IF t = Dots(2) THEN IF cs = <<>> THEN cs ELSE Front(cs)
                 ELSE Append(cs, t)

LEMMA FrontType ==
    ASSUME NEW T, NEW cs \in Seq(T), cs # <<>>
    PROVE  Front(cs) \in Seq(T) /\ Len(Front(cs)) = Len(cs) - 1 /\ Len(cs) \in Nat /\ Len(cs) > 0
           /\ Append(Front(cs), Last(cs)) = cs /\ Last(cs) \in T
<1>1. PICK s \in Seq(T), t \in T : cs = Append(s, t)
  BY SequenceEmptyOrAppend, Zenon
<1>2. /\ Len(cs) = Len(s) + 1 /\ Len(s) \in Nat /\ cs[Len(s) + 1] = t
      /\ \A i \in 1 .. Len(s) : cs[i] = s[i]
  BY <1>1, AppendProperties
<1>3. Len(cs) - 1 \in 0 .. Len(cs) /\ Len(cs) - 1 = Len(s) /\ Len(s) - 0 = Len(s)
      /\ \A i \in 1 .. Len(s) : 0 + i = i
  BY <1>2
<1>4. Front(cs) \in Seq(T) /\ IsPart(Front(cs), cs, 0, Len(s))
  BY <1>3, SplitAt DEF Front
<1>5. Front(cs) = s
  <2> HIDE DEF Front
  <2>1. Len(Front(cs)) = Len(s) /\ \A i \in 1 .. Len(s) : Front(cs)[i] = s[i]
    BY <1>2, <1>3, <1>4 DEF IsPart
  <2> QED
    BY <1>4, <2>1, SeqEqual
<1>6. Last(cs) = t
  BY <1>2 DEF Last
<1> HIDE DEF Front, Last
<1> QED
  BY <1>1, <1>2, <1>3, <1>5, <1>6

LEMMA After1Type ==
    ASSUME NEW T, NEW cs \in Seq(T), NEW t \in T
    PROVE  After1(cs, t) \in Seq(T)
<1>1. Append(cs, t) \in Seq(T)
  OBVIOUS
<1>2. cs # <<>> => Front(cs) \in Seq(T)
  BY FrontType
<1> QED
  BY <1>1, <1>2 DEF After1

\* The components after each of the tokens.
IsAfter(f, tokens, T) ==
    /\ f \in [0 .. Len(tokens) -> Seq(T)] /\ f[0] = <<>>
    /\ \A k \in 1 .. Len(tokens) : f[k] = After1(f[k - 1], tokens[k])

LEMMA ResolveIs ==
    ASSUME NEW T, NEW tokens \in Seq(T)
    PROVE  \E f : IsAfter(f, tokens, T) /\ Resolve(tokens) = f[Len(tokens)]
<1> DEFINE n == Len(tokens)
           D == 0 .. n
           mu == [k \in D |-> k]
           B == {0}
           base == [k \in B |-> <<>>]
           next == [k \in D \ B |-> k - 1]
           make == [k \in D \ B |-> [cs \in Seq(T) |-> After1(cs, tokens[k])]]
           Is(f) == f = [k \in 0 .. Len(tokens) |->
                            LET cs == f[k - 1]
                            IN  IF k = 0 THEN <<>>
                                ELSE IF Len(cs) = MaxComponents \/ tokens[k] = Dots(1) THEN cs
                                ELSE IF tokens[k] = Dots(2) THEN IF cs = <<>> THEN cs ELSE Front(cs)
                                ELSE Append(cs, tokens[k])]
           g == CHOOSE f : Is(f)
<1>1. n \in Nat /\ \A k \in 1 .. n : tokens[k] \in T
  BY ElementOfSeq
<1>2. Descends(D, n, mu, B, next)
  BY <1>1 DEF Descends
<1>3. base \in [B -> Seq(T)]
  OBVIOUS
<1>4. make \in [D \ B -> [Seq(T) -> Seq(T)]]
  <2>1. ASSUME NEW k \in D \ B
        PROVE  [cs \in Seq(T) |-> After1(cs, tokens[k])] \in [Seq(T) -> Seq(T)]
    <3>1. tokens[k] \in T
      BY <1>1
    <3> QED
      BY <3>1, After1Type
  <2> QED
    BY <2>1
<1>5. PICK f \in [D -> Seq(T)] : Solves(f, D, B, base, next, make)
  <2> HIDE DEF D, mu, B, base, next, make
  <2> QED
    BY <1>2, <1>3, <1>4, Recursion
<1>6. f[0] = <<>> /\ \A k \in 1 .. n : f[k] = After1(f[k - 1], tokens[k])
  <2>1. 0 \in D /\ 0 \in B /\ base[0] = <<>>
    BY <1>1
  <2>2. f[0] = <<>>
    BY <1>5, <2>1 DEF Solves
  <2>3. ASSUME NEW k \in 1 .. n PROVE f[k] = After1(f[k - 1], tokens[k])
    <3>1. k \in D /\ k \notin B /\ next[k] = k - 1 /\ k - 1 \in D
      BY <1>1
    <3>2. f[k] = make[k][f[k - 1]]
      BY <1>5, <3>1 DEF Solves
    <3>3. f[k - 1] \in Seq(T)
      BY <3>1
    <3> QED
      BY <3>1, <3>2, <3>3
  <2> QED
    BY <2>2, <2>3
<1>7. Is(f)
  <2>1. f = [k \in 0 .. n |-> f[k]]
    OBVIOUS
  <2>2. \A k \in 0 .. n : f[k] =
           LET cs == f[k - 1]
           IN  IF k = 0 THEN <<>>
               ELSE IF Len(cs) = MaxComponents \/ tokens[k] = Dots(1) THEN cs
               ELSE IF tokens[k] = Dots(2) THEN IF cs = <<>> THEN cs ELSE Front(cs)
               ELSE Append(cs, tokens[k])
    <3> SUFFICES ASSUME NEW k \in 0 .. n, k # 0
                 PROVE  f[k] = After1(f[k - 1], tokens[k])
      BY <1>6 DEF After1
    <3>1. k \in 1 .. n
      BY <1>1
    <3> QED
      BY <1>6, <3>1
  <2> QED
    BY <2>1, <2>2
<1>8. Is(g)
  <2> HIDE DEF Is
  <2> QED
    BY <1>7
<1>9. g[0] = <<>> /\ \A k \in 1 .. n : g[k] = After1(g[k - 1], tokens[k])
  <2>1. 0 \in 0 .. n /\ \A k \in 1 .. n : k \in 0 .. n /\ k # 0
    BY <1>1
  <2> HIDE DEF g
  <2>2. \A k \in 0 .. n : g[k] =
           LET cs == g[k - 1]
           IN  IF k = 0 THEN <<>>
               ELSE IF Len(cs) = MaxComponents \/ tokens[k] = Dots(1) THEN cs
               ELSE IF tokens[k] = Dots(2) THEN IF cs = <<>> THEN cs ELSE Front(cs)
               ELSE Append(cs, tokens[k])
    BY <1>8
  <2> QED
    BY <2>1, <2>2 DEF After1
<1>10. g = [k \in 0 .. n |-> g[k]]
  <2> HIDE DEF g
  <2> QED
    BY <1>8
<1>11. Resolve(tokens) = g[n]
  BY DEF Resolve
<1> HIDE DEF g, n
<1>12. \A k \in 0 .. n : g[k] \in Seq(T)
  <2> DEFINE S == {k \in Nat : k \in 0 .. n => g[k] \in Seq(T)}
  <2>1. ASSUME NEW k \in Nat, \A j \in 0 .. k - 1 : j \in S
        PROVE  k \in S
    <3>1. CASE k = 0
      <4>1. <<>> \in Seq(T) /\ g[0] = <<>>
        BY <1>9
      <4>2. g[k] \in Seq(T)
        BY <3>1, <4>1
      <4> QED
        BY <4>2
    <3>2. CASE k \in 1 .. n
      <4>1. k - 1 \in 0 .. k - 1 /\ k - 1 \in 0 .. n
        BY <1>1, <3>2
      <4>2. g[k - 1] \in Seq(T)
        BY <2>1, <4>1
      <4> QED
        BY <1>1, <1>9, <3>2, <4>2, After1Type
    <3> QED
      BY <1>1, <3>1, <3>2
  <2>2. \A k \in Nat : k \in S
    <3> HIDE DEF S
    <3> QED
      BY <2>1, Up
  <2> QED
    BY <2>2
<1>13. IsAfter(g, tokens, T)
  <2>1. g \in [0 .. n -> Seq(T)]
    BY <1>10, <1>12
  <2> QED
    BY <1>9, <2>1 DEF IsAfter, n
<1> QED
  BY <1>11, <1>13 DEF n

LEMMA ResolveType ==
    ASSUME NEW T, NEW tokens \in Seq(T)
    PROVE  Resolve(tokens) \in Seq(T)
<1>1. PICK f : IsAfter(f, tokens, T) /\ Resolve(tokens) = f[Len(tokens)]
  BY ResolveIs
<1>2. Len(tokens) \in 0 .. Len(tokens)
  OBVIOUS
<1> QED
  BY <1>1, <1>2 DEF IsAfter

LEMMA ResolveNone == Resolve(<<>>) = <<>>
<1>1. <<>> \in Seq({}) /\ Len(<<>>) = 0
  OBVIOUS
<1>2. PICK f : IsAfter(f, <<>>, {}) /\ Resolve(<<>>) = f[Len(<<>>)]
  BY <1>1, ResolveIs
<1> QED
  BY <1>1, <1>2 DEF IsAfter

LEMMA ResolveSnoc ==
    ASSUME NEW T, NEW s \in Seq(T), NEW t \in T
    PROVE  Resolve(Append(s, t)) = After1(Resolve(s), t)
<1> DEFINE more == Append(s, t)
           n == Len(s)
<1>1. /\ more \in Seq(T) /\ Len(more) = n + 1 /\ n \in Nat
      /\ (\A k \in 1 .. n : more[k] = s[k]) /\ more[n + 1] = t
  BY AppendProperties
<1>2. PICK f : IsAfter(f, s, T) /\ Resolve(s) = f[n]
  BY ResolveIs
<1> HIDE DEF more
<1>3. PICK g : IsAfter(g, more, T) /\ Resolve(more) = g[n + 1]
  BY <1>1, ResolveIs
<1>4. f[0] = <<>> /\ \A k \in 1 .. n : f[k] = After1(f[k - 1], s[k])
  BY <1>2 DEF IsAfter
<1>5. g[0] = <<>> /\ \A k \in 1 .. n + 1 : g[k] = After1(g[k - 1], more[k])
  BY <1>1, <1>3 DEF IsAfter
<1> HIDE DEF n
<1> DEFINE S == {k \in Nat : k \in 0 .. n => f[k] = g[k]}
<1>6. ASSUME NEW k \in Nat, \A j \in 0 .. k - 1 : j \in S
      PROVE  k \in S
  <2>1. CASE k = 0
    BY <1>4, <1>5, <2>1
  <2>2. CASE k \in 1 .. n
    <3>1. k - 1 \in 0 .. k - 1 /\ k - 1 \in 0 .. n /\ k \in 1 .. n + 1
      BY <1>1, <2>2
    <3>2. f[k - 1] = g[k - 1]
      BY <1>6, <3>1
    <3>3. f[k] = After1(f[k - 1], s[k]) /\ g[k] = After1(g[k - 1], s[k])
      BY <1>1, <1>4, <1>5, <2>2, <3>1
    <3> QED
      BY <3>2, <3>3
  <2> QED
    BY <1>1, <2>1, <2>2
<1>7. n \in S
  <2> HIDE DEF S
  <2> QED
    BY <1>1, <1>6, Up
<1>8. f[n] = g[n]
  BY <1>1, <1>7
<1>9. n + 1 \in 1 .. n + 1 /\ (n + 1) - 1 = n
  BY <1>1
<1>10. g[n + 1] = After1(g[n], t)
  BY <1>1, <1>5, <1>9
<1> QED
  BY <1>2, <1>3, <1>8, <1>10 DEF more

Plain(V) == Runs(V) \ {Dots(1), Dots(2)}

LEMMA FlatLen ==
    ASSUME NEW V, "/" \in V, NEW s \in Seq(Runs(V)), NEW t \in Runs(V)
    PROVE  /\ Len(Flat(s)) \in Nat /\ Len(t) \in Nat /\ Append(s, t) \in Seq(Runs(V))
           /\ Len(Flat(Append(s, t))) = Len(Flat(s)) + 1 + Len(t)
<1> DEFINE st == <<"/">> \o t
<1>1. t \in Seq(V) /\ s \in Seq(Seq(V)) /\ <<"/">> \in Seq(V) /\ Len(<<"/">>) = 1
  BY RunsAreSeqs DEF Runs
<1>2. st \in Seq(V) /\ Len(st) = Len(<<"/">>) + Len(t) /\ Len(t) \in Nat
  BY <1>1, Elements
<1>3. Flat(s) \in Seq(V) /\ Flat(Append(s, t)) = Flat(s) \o st
  BY <1>1, FlatType, FlatSnoc
<1> HIDE DEF st
<1>4. Len(Flat(s) \o st) = Len(Flat(s)) + Len(st) /\ Len(Flat(s)) \in Nat
  BY <1>2, <1>3, Elements
<1>5. Append(s, t) \in Seq(Runs(V))
  OBVIOUS
<1> QED
  BY <1>1, <1>2, <1>3, <1>4, <1>5

\* What is left of the tokens is a path of names, no longer than they were.
IsResolved(cs, s, V) ==
    /\ cs \in Seq(Plain(V)) /\ Len(cs) <= MaxComponents /\ Len(cs) <= Len(s)
    /\ Len(Flat(cs)) <= Len(Flat(s))

LEMMA PlainAreRuns ==
    ASSUME NEW V, NEW cs \in Seq(Plain(V))
    PROVE  cs \in Seq(Runs(V)) /\ cs \in Seq(Seq(V))
<1>1. Plain(V) \subseteq Runs(V) /\ Runs(V) \subseteq Seq(V)
  BY DEF Plain, Runs
<1> QED
  BY <1>1, SeqMonotonic

LEMMA ResolvedIs ==
    ASSUME NEW V, "/" \in V, NEW s \in Seq(Runs(V))
    PROVE  IsResolved(Resolve(s), s, V)
<1> DEFINE S == {x \in Seq(Runs(V)) : IsResolved(Resolve(x), x, V)}
<1>1. <<>> \in S
  <2>1. <<>> \in Seq(Runs(V)) /\ <<>> \in Seq(Plain(V)) /\ Len(<<>>) = 0
    OBVIOUS
  <2>2. 0 <= MaxComponents /\ 0 <= 0
    BY SizesAreNat
  <2>3. Flat(<<>>) = <<>>
    BY FlatNone
  <2>4. IsResolved(<<>>, <<>>, V)
    BY <2>1, <2>2, <2>3 DEF IsResolved
  <2> QED
    BY <2>1, <2>4, ResolveNone
<1>2. ASSUME NEW x \in Seq(Runs(V)), NEW t \in Runs(V), x \in S PROVE Append(x, t) \in S
  <2> DEFINE cs == Resolve(x)
             more == Append(x, t)
  <2>1. /\ cs \in Seq(Plain(V)) /\ Len(cs) <= MaxComponents /\ Len(cs) <= Len(x)
        /\ Len(Flat(cs)) <= Len(Flat(x))
    BY <1>2 DEF IsResolved
  <2>2. Resolve(more) = After1(cs, t)
    BY ResolveSnoc
  <2>3. /\ Len(Flat(x)) \in Nat /\ Len(t) \in Nat /\ more \in Seq(Runs(V))
        /\ Len(Flat(more)) = Len(Flat(x)) + 1 + Len(t)
    BY FlatLen
  <2>4. Len(more) = Len(x) + 1 /\ Len(x) \in Nat /\ Len(cs) \in Nat
    BY <2>1, AppendProperties
  <2> HIDE DEF more, cs
  <2>5. cs \in Seq(Runs(V))
    BY <2>1, PlainAreRuns
  <2>6. /\ Len(Flat(cs)) \in Nat /\ Len(Flat(Append(cs, t))) = Len(Flat(cs)) + 1 + Len(t)
        /\ Append(cs, t) \in Seq(Runs(V))
    BY <2>5, FlatLen
  <2>7. MaxComponents \in Nat
    BY SizesAreNat
  <2>8. CASE After1(cs, t) = cs
    <3>1. Len(cs) <= Len(more) /\ Len(Flat(cs)) <= Len(Flat(more))
      BY <2>1, <2>3, <2>4, <2>6
    <3> QED
      BY <2>1, <2>2, <2>3, <2>8, <3>1 DEF IsResolved, more
  <2>9. CASE cs # <<>> /\ After1(cs, t) = Front(cs)
    <3> DEFINE f == Front(cs)
    <3>1. f \in Seq(Plain(V)) /\ Len(f) = Len(cs) - 1 /\ Append(f, Last(cs)) = cs
          /\ Last(cs) \in Plain(V) /\ Len(cs) > 0
      BY <2>1, <2>9, FrontType
    <3> HIDE DEF f
    <3>2. f \in Seq(Runs(V)) /\ Last(cs) \in Runs(V)
      BY <3>1, PlainAreRuns DEF Plain
    <3>3. /\ Len(Flat(f)) \in Nat /\ Len(Last(cs)) \in Nat
          /\ Len(Flat(cs)) = Len(Flat(f)) + 1 + Len(Last(cs))
      BY <3>1, <3>2, FlatLen
    <3>4. Len(f) <= MaxComponents /\ Len(f) <= Len(more)
      BY <2>1, <2>4, <2>7, <3>1
    <3>5. Len(Flat(f)) <= Len(Flat(more))
      BY <2>1, <2>3, <2>6, <3>3
    <3> QED
      BY <2>2, <2>3, <2>9, <3>1, <3>4, <3>5 DEF IsResolved, more, f
  <2>10. CASE Len(cs) # MaxComponents /\ t \notin {Dots(1), Dots(2)} /\ After1(cs, t) = Append(cs, t)
    <3>1. t \in Plain(V)
      BY <2>10 DEF Plain
    <3>2. Append(cs, t) \in Seq(Plain(V)) /\ Len(Append(cs, t)) = Len(cs) + 1
      BY <2>1, <3>1, AppendProperties
    <3>3. Len(cs) + 1 <= MaxComponents /\ Len(cs) + 1 <= Len(more)
      BY <2>1, <2>4, <2>7, <2>10
    <3>4. Len(Flat(Append(cs, t))) <= Len(Flat(more))
      BY <2>1, <2>3, <2>6
    <3> QED
      BY <2>2, <2>3, <2>10, <3>2, <3>3, <3>4 DEF IsResolved, more
  <2> QED
    BY <2>8, <2>9, <2>10 DEF After1
<1>3. Grows(S, Runs(V))
  <2> HIDE DEF S
  <2> QED
    BY <1>1, <1>2 DEF Grows
<1>4. s \in S
  <2> HIDE DEF S
  <2> QED
    BY <1>3, SnocInduction
<1> QED
  BY <1>4

\* What is resolved already stays as it is.
LEMMA ResolvePlain ==
    ASSUME NEW V, NEW cs \in Seq(Plain(V)), Len(cs) <= MaxComponents
    PROVE  Resolve(cs) = cs
<1> DEFINE S == {x \in Seq(Plain(V)) : Len(x) <= MaxComponents => Resolve(x) = x}
<1>1. <<>> \in S
  <2>1. <<>> \in Seq(Plain(V))
    OBVIOUS
  <2> QED
    BY <2>1, ResolveNone
<1>2. ASSUME NEW x \in Seq(Plain(V)), NEW t \in Plain(V), x \in S PROVE Append(x, t) \in S
  <2> SUFFICES ASSUME Len(Append(x, t)) <= MaxComponents
               PROVE  Resolve(Append(x, t)) = Append(x, t)
    BY AppendProperties
  <2>1. Len(Append(x, t)) = Len(x) + 1 /\ Len(x) \in Nat /\ MaxComponents \in Nat
    BY AppendProperties, SizesAreNat
  <2>2. Len(x) <= MaxComponents /\ Len(x) # MaxComponents
    BY <2>1
  <2>3. Resolve(x) = x
    BY <1>2, <2>2
  <2>4. Resolve(Append(x, t)) = After1(x, t)
    BY <2>3, ResolveSnoc
  <2>5. t # Dots(1) /\ t # Dots(2)
    BY DEF Plain
  <2> QED
    BY <2>2, <2>4, <2>5 DEF After1
<1>3. Grows(S, Plain(V))
  <2> HIDE DEF S
  <2> QED
    BY <1>1, <1>2 DEF Grows
<1>4. cs \in S
  <2> HIDE DEF S
  <2> QED
    BY <1>3, SnocInduction
<1> QED
  BY <1>4

\* Resolving can be interrupted anywhere.
LEMMA ResolveJoin ==
    ASSUME NEW V, "/" \in V, NEW a \in Seq(Runs(V)), NEW b \in Seq(Runs(V))
    PROVE  Resolve(a \o b) = Resolve(Resolve(a) \o b)
<1> DEFINE ra == Resolve(a)
           S == {x \in Seq(Runs(V)) : Resolve(a \o x) = Resolve(ra \o x)}
<1>1. ra \in Seq(Plain(V)) /\ Len(ra) <= MaxComponents
  BY ResolvedIs DEF IsResolved
<1>2. ra \in Seq(Runs(V))
  BY <1>1, PlainAreRuns
<1>3. <<>> \in S
  <2>1. Resolve(ra) = ra
    BY <1>1, ResolvePlain
  <2>2. a \o <<>> = a
    BY ConcatEmptySeq
  <2>3. ra \o <<>> = ra
    BY <1>2, ConcatEmptySeq
  <2>4. <<>> \in Seq(Runs(V))
    OBVIOUS
  <2>5. Resolve(a \o <<>>) = Resolve(ra \o <<>>)
    BY <2>1, <2>2, <2>3
  <2> QED
    BY <2>4, <2>5
<1> HIDE DEF ra
<1>4. ASSUME NEW x \in Seq(Runs(V)), NEW t \in Runs(V), x \in S PROVE Append(x, t) \in S
  <2>1. Append(x, t) \in Seq(Runs(V)) /\ Append(x, t) = x \o <<t>> /\ <<t>> \in Seq(Runs(V))
    BY AppendIsConcat
  <2>2. a \o x \in Seq(Runs(V)) /\ (a \o x) \o <<t>> = a \o (x \o <<t>>)
    <3>1. Associate(a, x, <<t>>)
      BY <2>1, Assoc
    <3>2. a \o x \in Seq(Runs(V))
      BY Elements
    <3> QED
      BY <3>1, <3>2 DEF Associate
  <2>3. ra \o x \in Seq(Runs(V)) /\ (ra \o x) \o <<t>> = ra \o (x \o <<t>>)
    <3>1. Associate(ra, x, <<t>>)
      BY <1>2, <2>1, Assoc
    <3>2. ra \o x \in Seq(Runs(V))
      BY <1>2, Elements
    <3> QED
      BY <3>1, <3>2 DEF Associate
  <2> DEFINE ax == a \o x
             rx == ra \o x
  <2>4. Resolve(ax) = Resolve(rx)
    BY <1>4
  <2>5. ax \in Seq(Runs(V)) /\ rx \in Seq(Runs(V))
    BY <2>2, <2>3
  <2>6. a \o Append(x, t) = ax \o <<t>> /\ ra \o Append(x, t) = rx \o <<t>>
    BY <2>1, <2>2, <2>3
  <2> HIDE DEF ax, rx
  <2>7. ax \o <<t>> = Append(ax, t) /\ rx \o <<t>> = Append(rx, t)
    BY <2>5, AppendIsConcat
  <2>8. Resolve(Append(ax, t)) = After1(Resolve(ax), t) /\ Resolve(Append(rx, t)) = After1(Resolve(rx), t)
    BY <2>5, ResolveSnoc
  <2>9. Resolve(a \o Append(x, t)) = Resolve(ra \o Append(x, t))
    BY <2>4, <2>6, <2>7, <2>8
  <2> QED
    BY <2>1, <2>9
<1>5. Grows(S, Runs(V))
  <2> HIDE DEF S
  <2> QED
    BY <1>3, <1>4 DEF Grows
<1>6. b \in S
  <2> HIDE DEF S
  <2> QED
    BY <1>5, SnocInduction
<1> QED
  BY <1>6 DEF ra

\* A path whose slashes are in order.
Clean(x) == /\ \A i \in 2 .. Len(x) : ~ (x[i] = "/" /\ x[i - 1] = "/")
            /\ Len(x) > 0 => x[1] = "/" /\ x[Len(x)] # "/"

LEMMA CleanMore ==
    ASSUME NEW V, "/" \in V, NEW x \in Seq(V), Clean(x), NEW t \in Runs(V)
    PROVE  Clean(x \o (<<"/">> \o t))
<1> DEFINE s == <<"/">>
           st == s \o t
           c == x \o st
           n == Len(x)
           m == Len(t)
<1>1. /\ t \in Seq(V) /\ m > 0 /\ (\A i \in 1 .. m : t[i] # "/")
      /\ s \in Seq(V) /\ Len(s) = 1 /\ s[1] = "/" /\ 1 \in 1 .. Len(s)
  BY DEF Runs
<1> HIDE DEF s
<1>2. st \in Seq(V) /\ Is2(st, s, t) /\ Len(st) = 1 + m /\ m \in Nat
  <2>1. st \in Seq(V) /\ Is2(st, s, t) /\ Len(st) = Len(s) + Len(t) /\ Len(t) \in Nat
    BY <1>1, Elements
  <2> HIDE DEF st
  <2> QED
    BY <1>1, <2>1
<1>3. st[1] = "/" /\ \A i \in 1 .. m : st[1 + i] # "/"
  BY <1>1, <1>2 DEF Is2
<1> HIDE DEF st
<1>4. c \in Seq(V) /\ Is2(c, x, st) /\ Len(c) = n + (1 + m) /\ n \in Nat
  <2>1. c \in Seq(V) /\ Is2(c, x, st) /\ Len(c) = Len(x) + Len(st) /\ Len(x) \in Nat
    BY <1>2, Elements
  <2> HIDE DEF c
  <2> QED
    BY <1>2, <2>1
<1>5. (\A i \in 1 .. n : c[i] = x[i]) /\ \A i \in 1 .. 1 + m : c[n + i] = st[i]
  BY <1>2, <1>4 DEF Is2
<1>6. /\ \A i \in 2 .. n : ~ (x[i] = "/" /\ x[i - 1] = "/")
      /\ n > 0 => x[1] = "/" /\ x[n] # "/"
  BY DEF Clean
<1> HIDE DEF c, n, m
<1>7. c[n + 1] = "/"
  <2>1. 1 \in 1 .. 1 + m
    BY <1>2
  <2> QED
    BY <1>3, <1>5, <2>1
<1>8. \A i \in n + 2 .. n + (1 + m) : c[i] # "/"
  <2> SUFFICES ASSUME NEW i \in n + 2 .. n + (1 + m) PROVE c[i] # "/"
    OBVIOUS
  <2>1. i - n - 1 \in 1 .. m /\ 1 + (i - n - 1) \in 1 .. 1 + m /\ n + (1 + (i - n - 1)) = i
    BY <1>2, <1>4
  <2>2. c[n + (1 + (i - n - 1))] = st[1 + (i - n - 1)]
    BY <1>5, <2>1
  <2>3. st[1 + (i - n - 1)] # "/"
    BY <1>3, <2>1
  <2> QED
    BY <2>1, <2>2, <2>3
<1>9. ASSUME NEW i \in 2 .. n + (1 + m) PROVE ~ (c[i] = "/" /\ c[i - 1] = "/")
  <2>1. CASE i \in 2 .. n
    <3>1. i \in 1 .. n /\ i - 1 \in 1 .. n
      BY <1>4, <2>1
    <3>2. c[i] = x[i] /\ c[i - 1] = x[i - 1]
      BY <1>5, <3>1
    <3> QED
      BY <1>6, <2>1, <3>2
  <2>2. CASE i = n + 1
    <3>1. n > 0 /\ n \in 1 .. n /\ i - 1 = n
      BY <1>4, <2>2
    <3> QED
      BY <1>5, <1>6, <3>1
  <2>3. CASE i \in n + 2 .. n + (1 + m)
    BY <1>8, <2>3
  <2> QED
    BY <1>2, <1>4, <2>1, <2>2, <2>3
<1>10. c[1] = "/"
  <2>1. CASE n = 0
    BY <1>7, <2>1
  <2>2. CASE n > 0
    <3>1. 1 \in 1 .. n
      BY <1>4, <2>2
    <3> QED
      BY <1>5, <1>6, <2>2, <3>1
  <2> QED
    BY <1>4, <2>1, <2>2
<1>11. c[n + (1 + m)] # "/"
  <2>1. n + (1 + m) \in n + 2 .. n + (1 + m)
    BY <1>1, <1>2, <1>4 DEF m
  <2> QED
    BY <1>8, <2>1
<1>12. Clean(c)
  BY <1>4, <1>9, <1>10, <1>11 DEF Clean
<1> QED
  BY <1>12 DEF c, st, s

LEMMA SingleSame ==
    ASSUME NEW V, NEW s \in Seq(V), Clean(s)
    PROVE  Single(s) = s
<1> DEFINE n == Len(s)
           w == WrittenFrom(SingleTurns(s))
           rest == SuffixesOf(s)
           S == {i \in 1 .. n + 1 : w[i] = rest[i]}
<1>1. n \in Nat
  OBVIOUS
<1>2. /\ rest[n + 1] = <<>> /\ rest[1] = s
      /\ \A i \in 1 .. n : rest[i] = <<s[i]>> \o rest[i + 1]
  <2>1. AreSuffixes(rest, s, V)
    BY SuffixesAre
  <2> HIDE DEF rest
  <2> QED
    BY <2>1 DEF AreSuffixes
<1>3. /\ Single(s) = w[1]
      /\ \A i \in Nat : i > n => w[i] = <<>>
      /\ \A i \in 1 .. n : w[i] = <<s[i]>> \o w[i + 1]
  <2> DEFINE u == SingleTurns(s)
  <2>1. /\ Moves(u, V) /\ Len(u) = n /\ Single(s) = Written(u)
        /\ \A i \in 1 .. n :
              /\ u[i].next = i + 1
              /\ u[i].put = IF s[i] = "/" /\ i > 1 /\ s[i - 1] = "/" THEN <<>> ELSE <<s[i]>>
    BY SingleTurnsMove
  <2> HIDE DEF u
  <2>2. Steps(WrittenFrom(u), u, V)
    BY <2>1, WritesSteps
  <2>3. Single(s) = WrittenFrom(u)[1]
    BY <2>1 DEF Written
  <2>4. \A i \in 1 .. n : u[i].put = <<s[i]>>
    <3> SUFFICES ASSUME NEW i \in 1 .. n PROVE ~ (s[i] = "/" /\ i > 1 /\ s[i - 1] = "/")
      BY <2>1
    <3>1. i > 1 => i \in 2 .. n
      BY <1>1
    <3> QED
      BY <3>1 DEF Clean
  <2> QED
    BY <2>1, <2>2, <2>3, <2>4 DEF Steps, u
<1> HIDE DEF n, w, rest
<1>4. 1 \in S
  <2>1. ASSUME NEW i \in 1 .. n + 1, \A j \in i + 1 .. n + 1 : j \in S
        PROVE  i \in S
    <3>1. CASE i = n + 1
      <4>1. n + 1 \in Nat /\ n + 1 > n
        BY <1>1
      <4> QED
        BY <1>2, <1>3, <3>1, <4>1
    <3>2. CASE i # n + 1
      <4>1. i \in 1 .. n /\ i + 1 \in i + 1 .. n + 1
        BY <1>1, <3>2
      <4>2. w[i + 1] = rest[i + 1]
        BY <2>1, <4>1
      <4> QED
        BY <1>2, <1>3, <4>1, <4>2
    <3> QED
      BY <3>1, <3>2
  <2>2. 1 \in Nat /\ n + 1 \in Nat /\ 1 \in 1 .. n + 1
    BY <1>1
  <2> HIDE DEF S
  <2> QED
    BY <2>1, <2>2, Down
<1> QED
  BY <1>2, <1>3, <1>4

\* A path built of runs is in order, and its tokens are the runs.
LEMMA FlatIs ==
    ASSUME NEW V, "/" \in V, NEW cs \in Seq(Runs(V))
    PROVE  Clean(Flat(cs)) /\ Tokens(Flat(cs)) = cs
<1> DEFINE S == {x \in Seq(Runs(V)) : Clean(Flat(x)) /\ Tokens(Flat(x)) = x}
<1>1. <<>> \in S
  <2>1. <<>> \in Seq(Runs(V)) /\ Flat(<<>>) = <<>> /\ Tokens(<<>>) = <<>> /\ Len(<<>>) = 0
    BY FlatNone, TokensNone
  <2>2. Clean(<<>>)
    BY <2>1 DEF Clean
  <2> QED
    BY <2>1, <2>2
<1>2. ASSUME NEW x \in Seq(Runs(V)), NEW t \in Runs(V), x \in S PROVE Append(x, t) \in S
  <2> DEFINE f == Flat(x)
  <2>1. t \in Seq(V) /\ x \in Seq(Seq(V)) /\ f \in Seq(V) /\ Append(x, t) \in Seq(Runs(V))
    BY RunsAreSeqs, FlatType DEF Runs
  <2>2. Flat(Append(x, t)) = f \o (<<"/">> \o t)
    BY <2>1, FlatSnoc
  <2>3. Clean(f) /\ Tokens(f) = x
    BY <1>2
  <2> HIDE DEF f
  <2>4. Clean(f \o (<<"/">> \o t))
    BY <2>1, <2>3, CleanMore
  <2>5. Tokens(f \o (<<"/">> \o t)) = x \o Tokens(t)
    BY <2>1, <2>3, SlashJoin
  <2>6. Tokens(t) = <<t>>
    <3>1. <<>> \in Seq(V) /\ Rest(<<>>) /\ t \o <<>> = t /\ Tokens(<<>>) = <<>>
      BY <2>1, TokensNone, ConcatEmptySeq DEF Rest
    <3>2. Tokens(t \o <<>>) = <<t>> \o Tokens(<<>>)
      BY <3>1, TokensRun
    <3>3. <<t>> \in Seq(Seq(V))
      BY <2>1
    <3>4. <<t>> \o <<>> = <<t>>
      BY <3>3, ConcatEmptySeq
    <3> QED
      BY <3>1, <3>2, <3>4
  <2>7. Append(x, t) = x \o <<t>>
    BY AppendIsConcat
  <2>8. Tokens(Flat(Append(x, t))) = Append(x, t) /\ Clean(Flat(Append(x, t)))
    BY <2>2, <2>4, <2>5, <2>6, <2>7
  <2> QED
    BY <2>1, <2>8
<1>3. Grows(S, Runs(V))
  <2> HIDE DEF S
  <2> QED
    BY <1>1, <1>2 DEF Grows
<1>4. cs \in S
  <2> HIDE DEF S
  <2> QED
    BY <1>3, SnocInduction
<1> QED
  BY <1>4

\* What Build builds is in the one form that names it.
IsBuilt(path, cs, V) ==
    /\ path \in Seq(NoBack(V)) /\ Len(path) > 0 /\ path[1] = "/"
    /\ proto_normalize_path(path) = path /\ Tokens(path) = cs /\ NamesOf(path) = cs
    /\ Len(path) = IF cs = <<>> THEN 1 ELSE Len(Flat(cs))

LEMMA BuildIs ==
    ASSUME NEW V, "/" \in V, NEW cs \in Seq(Runs(NoBack(V)))
    PROVE  IsBuilt(Build(cs), cs, V) /\ (cs # <<>> => Build(cs) = Flat(cs))
<1> DEFINE W == NoBack(V)
           p == Build(cs)
<1>1. "/" \in W
  BY DEF NoBack
<1>2. CASE cs = <<>>
  <2>1. p = <<"/">>
    BY <1>2 DEF Build
  <2>2. p \in Seq(W) /\ Len(p) = 1 /\ p[1] = "/" /\ Len(p) > 0 /\ ~ (Len(p) > 1)
    BY <1>1, <2>1
  <2>3. Slashed(p) = p
    BY <2>2, SlashedSame
  <2>4. Single(p) = p
    <3> DEFINE u == SingleTurns(p)
    <3>1. /\ Moves(u, W) /\ Len(u) = 1 /\ Single(p) = Written(u)
          /\ u[1].next = 2 /\ u[1].put = p
      <4>1. 1 \in 1 .. Len(p) /\ 1 + 1 = 2 /\ ~ (1 > 1)
        BY <2>2
      <4>2. /\ Moves(u, W) /\ Len(u) = Len(p) /\ Single(p) = Written(u)
            /\ u[1].next = 1 + 1
            /\ u[1].put = IF p[1] = "/" /\ 1 > 1 /\ p[1 - 1] = "/" THEN <<>> ELSE <<p[1]>>
        BY <2>2, <4>1, SingleTurnsMove
      <4> HIDE DEF u
      <4>3. <<p[1]>> = p
        BY <2>1
      <4> QED
        BY <2>2, <4>1, <4>2, <4>3
    <3> HIDE DEF u
    <3>2. Written(u) = u[1].put \o WrittenFrom(u)[u[1].next]
      <4>1. Len(u) > 0
        BY <3>1
      <4> QED
        BY <3>1, <4>1, OneTurn
    <3>3. WrittenFrom(u)[2] = <<>>
      <4>1. Steps(WrittenFrom(u), u, W)
        BY <3>1, WritesSteps
      <4>2. 2 \in Nat /\ 2 > Len(u)
        BY <3>1
      <4> QED
        BY <4>1, <4>2 DEF Steps
    <3> HIDE DEF p
    <3>4. p \o <<>> = p
      BY <2>2, ConcatEmptySeq
    <3> QED
      BY <3>1, <3>2, <3>3, <3>4
  <2>5. proto_normalize_path(p) = p
    <3> HIDE DEF p
    <3> QED
      BY <2>2, <2>3, <2>4 DEF proto_normalize_path
  <2>6. Tokens(p) = <<>>
    <3>1. <<>> \in Seq(W) /\ p \o <<>> = p
      BY <2>2, ConcatEmptySeq
    <3>2. Tokens(<<"/">> \o <<>>) = Tokens(<<>>)
      BY <1>1, <3>1, TokensSlash
    <3> QED
      BY <2>1, <3>1, <3>2, TokensNone
  <2> HIDE DEF p
  <2> QED
    BY <1>2, <2>2, <2>3, <2>5, <2>6 DEF IsBuilt, NamesOf, p
<1>3. CASE cs # <<>>
  <2>1. p = Flat(cs)
    BY <1>3 DEF Build, Flat, Slashing
  <2>2. cs \in Seq(Seq(W))
    BY RunsAreSeqs
  <2>3. p \in Seq(W) /\ Clean(p) /\ Tokens(p) = cs
    BY <1>1, <2>1, <2>2, FlatType, FlatIs
  <2> HIDE DEF p
  <2>4. Slashed(p) = p /\ Single(p) = p
    BY <2>3, SlashedSame, SingleSame
  <2>5. Len(p) > 0
    <3>1. Len(p) # 0
      <4> SUFFICES ASSUME Len(p) = 0 PROVE FALSE
        OBVIOUS
      <4>1. p = <<>>
        BY <2>3
      <4> QED
        BY <1>3, <2>3, <4>1, TokensNone
    <3>2. Len(p) \in Nat
      BY <2>3
    <3> QED
      BY <3>1, <3>2
  <2>6. p[1] = "/" /\ p[Len(p)] # "/"
    BY <2>3, <2>5 DEF Clean
  <2>7. proto_normalize_path(p) = p
    BY <2>4, <2>6 DEF proto_normalize_path, Last
  <2>8. NamesOf(p) = cs
    BY <2>3, <2>4 DEF NamesOf
  <2>9. IsBuilt(p, cs, V)
    BY <1>3, <2>1, <2>3, <2>5, <2>6, <2>7, <2>8 DEF IsBuilt
  <2> QED
    BY <2>1, <2>9 DEF p
<1> QED
  BY <1>2, <1>3

-----------------------------------------------------------------------------
(* Paths: a directory and an argument                                      *)

\* A path that is not refused: no "..", no control character after the slash.
Sound(c) == /\ \A i \in 2 .. Len(c) - 1 : ~ (c[i] = "." /\ c[i + 1] = ".")
            /\ \A i \in 2 .. Len(c) : c[i] \notin Control

LEMMA ValidIs ==
    ASSUME NEW V, NEW p \in Seq(V)
    PROVE  proto_validate_path(p) <=>
               /\ \A i \in 1 .. Len(p) - 1 : ~ (p[i] = "." /\ p[i + 1] = ".")
               /\ \A i \in 1 .. Len(p) : p[i] \notin Control
<1>1. Len(p) \in Nat /\ DOMAIN p = 1 .. Len(p) /\ \A i \in 1 .. Len(p) : p[i] \in V
  BY LenProperties, ElementOfSeq
<1>2. ASSUME NEW i \in 1 .. Len(p) - 1
      PROVE  SubSeq(p, i, i + 1) = Dots(2) <=> p[i] = "." /\ p[i + 1] = "."
  <2> DEFINE t == SubSeq(p, i, i + 1)
             d == Dots(2)
  <2>1. i \in Int /\ i + 1 \in Int /\ i <= i + 1 /\ i + 1 - i + 1 = 2
        /\ \A j \in i .. i + 1 : j \in 1 .. Len(p)
    BY <1>1
  <2>2. /\ t \in Seq(V) /\ Len(t) = 2 /\ \A j \in 1 .. 2 : t[j] = p[i + j - 1]
    BY <1>1, <2>1, SubSeqProperties
  <2>3. 1 \in 1 .. 2 /\ 2 \in 1 .. 2 /\ i + 1 - 1 = i /\ i + 2 - 1 = i + 1
    BY <2>1
  <2>4. t[1] = p[i] /\ t[2] = p[i + 1]
    <3> HIDE DEF t
    <3>1. t[1] = p[i + 1 - 1] /\ t[2] = p[i + 2 - 1]
      BY <2>2, <2>3
    <3> QED
      BY <2>3, <3>1
  <2>5. d \in Seq({"."}) /\ Len(d) = 2 /\ d[1] = "." /\ d[2] = "."
    <3>1. d \in [1 .. 2 -> {"."}]
      BY DEF Dots
    <3>2. d \in Seq({"."}) /\ Len(d) = 2
      BY <3>1, FunctionIsSeq
    <3> QED
      BY <2>3, <3>1, <3>2
  <2> HIDE DEF t, d
  <2>6. ASSUME p[i] = ".", p[i + 1] = "." PROVE t = d
    <3>1. t \in Seq(V \cup {"."}) /\ d \in Seq(V \cup {"."})
      <4>1. V \subseteq V \cup {"."} /\ {"."} \subseteq V \cup {"."}
        OBVIOUS
      <4> QED
        BY <2>2, <2>5, <4>1, SeqMonotonic
    <3>2. \A j \in 1 .. 2 : j = 1 \/ j = 2
      OBVIOUS
    <3>3. \A j \in 1 .. 2 : t[j] = d[j]
      BY <2>4, <2>5, <2>6, <3>2
    <3> QED
      BY <2>2, <2>5, <3>1, <3>3, SeqEqual
  <2> QED
    BY <2>4, <2>5, <2>6 DEF t, d
<1>3. (\A i \in 1 .. Len(p) - 1 : SubSeq(p, i, i + 1) # Dots(2))
        <=> \A i \in 1 .. Len(p) - 1 : ~ (p[i] = "." /\ p[i + 1] = ".")
  BY <1>2
<1>4. (\A i \in DOMAIN p : p[i] \notin Control) <=> \A i \in 1 .. Len(p) : p[i] \notin Control
  BY <1>1
<1> HIDE DEF Dots
<1> QED
  BY <1>3, <1>4, Zenon DEF proto_validate_path

LEMMA SoundIs ==
    ASSUME NEW V, NEW c \in Seq(V), Len(c) > 0
    PROVE  proto_validate_path(Tail(c)) <=> Sound(c)
<1> DEFINE t == Tail(c)
<1>1. Len(c) \in Nat /\ c # <<>>
  OBVIOUS
<1>2. t \in Seq(V) /\ Len(t) = Len(c) - 1 /\ \A i \in 1 .. Len(t) : t[i] = c[i + 1]
  BY <1>1, HeadTailProperties
<1>3. Len(t) \in Nat
  BY <1>2
<1> HIDE DEF t
<1>4. (\A i \in 1 .. Len(t) - 1 : ~ (t[i] = "." /\ t[i + 1] = "."))
         <=> \A i \in 2 .. Len(c) - 1 : ~ (c[i] = "." /\ c[i + 1] = ".")
  <2>1. ASSUME NEW i \in 1 .. Len(t) - 1
        PROVE  i + 1 \in 2 .. Len(c) - 1 /\ t[i] = c[i + 1] /\ t[i + 1] = c[(i + 1) + 1]
    <3>1. i \in 1 .. Len(t) /\ i + 1 \in 1 .. Len(t) /\ i + 1 \in 2 .. Len(c) - 1
      BY <1>1, <1>2, <1>3
    <3> QED
      BY <1>2, <3>1
  <2>2. ASSUME NEW i \in 2 .. Len(c) - 1
        PROVE  i - 1 \in 1 .. Len(t) - 1 /\ t[i - 1] = c[i] /\ t[(i - 1) + 1] = c[i + 1]
    <3>1. i - 1 \in 1 .. Len(t) /\ (i - 1) + 1 = i /\ i \in 1 .. Len(t) /\ i - 1 \in 1 .. Len(t) - 1
      BY <1>1, <1>2, <1>3
    <3>2. t[i - 1] = c[(i - 1) + 1] /\ t[i] = c[i + 1]
      BY <1>2, <3>1
    <3> QED
      BY <3>1, <3>2
  <2>3. ASSUME \A i \in 2 .. Len(c) - 1 : ~ (c[i] = "." /\ c[i + 1] = "."),
               NEW i \in 1 .. Len(t) - 1
        PROVE  ~ (t[i] = "." /\ t[i + 1] = ".")
    BY <2>1, <2>3
  <2>4. ASSUME \A i \in 1 .. Len(t) - 1 : ~ (t[i] = "." /\ t[i + 1] = "."),
               NEW i \in 2 .. Len(c) - 1
        PROVE  ~ (c[i] = "." /\ c[i + 1] = ".")
    BY <2>2, <2>4
  <2> QED
    BY <2>3, <2>4, Zenon
<1>5. (\A i \in 1 .. Len(t) : t[i] \notin Control) <=> \A i \in 2 .. Len(c) : c[i] \notin Control
  <2>1. ASSUME NEW i \in 1 .. Len(t) PROVE i + 1 \in 2 .. Len(c) /\ t[i] = c[i + 1]
    BY <1>1, <1>2
  <2>2. ASSUME NEW i \in 2 .. Len(c) PROVE i - 1 \in 1 .. Len(t) /\ t[i - 1] = c[i]
    <3>1. i - 1 \in 1 .. Len(t) /\ (i - 1) + 1 = i
      BY <1>1, <1>2
    <3> QED
      BY <1>2, <3>1
  <2> QED
    BY <2>1, <2>2
<1>6. proto_validate_path(t) <=>
               /\ \A i \in 1 .. Len(t) - 1 : ~ (t[i] = "." /\ t[i + 1] = ".")
               /\ \A i \in 1 .. Len(t) : t[i] \notin Control
  BY <1>2, ValidIs
<1> QED
  BY <1>4, <1>5, <1>6, Zenon DEF Sound, t

\* What the argument is joined to, before it is cut to the buffer.
Joined(base, path) ==
    IF path # <<>> /\ path[1] = "/" THEN path
    ELSE IF base = <<"/">> THEN <<"/">> \o path
    ELSE base \o <<"/">> \o path

Absolute(base, V) == base \in Seq(NoBack(V)) /\ Len(base) > 0 /\ base[1] = "/"

IsJoined(j, base, path, V) ==
    /\ j \in Seq(V) /\ Len(j) > 0 /\ j[1] = "/" /\ Len(j) <= Len(base) + 1 + Len(path)
    /\ path = <<>> \/ path[1] # "/" => NamesOf(j) = NamesOf(base) \o NamesOf(path)

LEMMA NamesType ==
    ASSUME NEW V, "/" \in V, NEW p \in Seq(V)
    PROVE  /\ NamesOf(p) \in Seq(Runs(NoBack(V))) /\ NamesOf(p) \in Seq(Seq(V))
           /\ Len(Flat(NamesOf(p))) <= Len(p) + 1
           /\ Rest(p) => Len(Flat(NamesOf(p))) <= Len(p)
<1> DEFINE s == Slashed(p)
<1>1. "/" \in NoBack(V) /\ NoBack(V) \subseteq V
  BY DEF NoBack
<1>2. s \in Seq(NoBack(V)) /\ Len(s) = Len(p)
      /\ \A i \in 1 .. Len(p) : s[i] = IF p[i] = "\\" THEN "/" ELSE p[i]
  BY SlashedIs
<1> HIDE DEF s
<1>3. Fits(s, NoBack(V))
  BY <1>1, <1>2, TokensFit
<1>4. Rest(p) => Rest(s)
  <2>1. CASE p = <<>>
    <3>1. Len(s) = 0
      BY <1>2, <2>1
    <3> QED
      BY <1>2, <3>1 DEF Rest
  <2>2. CASE p # <<>> /\ p[1] = "/"
    <3>1. Len(p) # 0 /\ Len(p) \in Nat
      BY <2>2, EmptySeq
    <3>2. 1 \in 1 .. Len(p)
      BY <3>1
    <3>3. s[1] = "/"
      BY <1>2, <2>2, <3>2
    <3> QED
      BY <3>3 DEF Rest
  <2> QED
    BY <2>1, <2>2 DEF Rest
<1>5. Runs(NoBack(V)) \subseteq Seq(V)
  <2>1. ASSUME NEW t \in Runs(NoBack(V)) PROVE t \in Seq(V)
    BY <1>1, SeqMonotonic DEF Runs
  <2> QED
    BY <2>1
<1>6. NamesOf(p) = Tokens(s)
  BY DEF NamesOf, s
<1>7. Tokens(s) \in Seq(Runs(NoBack(V)))
  BY <1>3 DEF Fits
<1>8. Tokens(s) \in Seq(Seq(V))
  BY <1>5, <1>7, SeqMonotonic
<1> QED
  BY <1>2, <1>3, <1>4, <1>6, <1>7, <1>8 DEF Fits

LEMMA JoinedIs ==
    ASSUME NEW V, "/" \in V, NEW base, Absolute(base, V), NEW path \in Seq(V)
    PROVE  IsJoined(Joined(base, path), base, path, V)
<1> DEFINE s == <<"/">>
<1>1. base \in Seq(V) /\ Len(base) \in Nat /\ Len(base) > 0 /\ base[1] = "/" /\ Len(path) \in Nat
  <2>1. NoBack(V) \subseteq V
    BY DEF NoBack
  <2>2. base \in Seq(V)
    BY <2>1, SeqMonotonic DEF Absolute
  <2> QED
    BY <2>2 DEF Absolute
<1>2. s \in Seq(V) /\ Len(s) = 1 /\ s[1] = "/" /\ 1 \in 1 .. Len(s)
  OBVIOUS
<1>3. CASE path # <<>> /\ path[1] = "/"
  <2>1. Len(path) > 0
    <3>1. Len(path) # 0
      BY <1>3, EmptySeq
    <3> QED
      BY <1>1, <3>1
  <2>2. Len(path) <= Len(base) + 1 + Len(path)
    BY <1>1
  <2>3. Joined(base, path) = path
    BY <1>3 DEF Joined
  <2> QED
    BY <1>3, <2>1, <2>2, <2>3 DEF IsJoined
<1>4. CASE ~ (path # <<>> /\ path[1] = "/") /\ base = s
  <2> DEFINE j == s \o path
  <2>1. Joined(base, path) = j
    BY <1>4 DEF Joined
  <2>2. NamesOf(j) = NamesOf(path)
    BY NamesJoin
  <2>3. NamesOf(base) = <<>>
    <3>1. <<>> \in Seq(V) /\ <<>> \in Seq(NoBack(V))
      OBVIOUS
    <3>2. NamesOf(s \o <<>>) = NamesOf(<<>>) /\ s \o <<>> = s
      BY <1>2, <3>1, NamesJoin, ConcatEmptySeq
    <3>3. NamesOf(<<>>) = <<>>
      BY <3>1, SlashedSame, TokensNone DEF NamesOf
    <3> QED
      BY <1>4, <3>2, <3>3
  <2> HIDE DEF s
  <2>4. /\ j \in Seq(V) /\ Is2(j, s, path) /\ Len(j) = Len(s) + Len(path)
    BY <1>2, Elements
  <2> HIDE DEF j
  <2>5. j[1] = "/" /\ Len(j) > 0 /\ Len(j) <= Len(base) + 1 + Len(path)
    BY <1>1, <1>2, <2>4 DEF Is2
  <2>6. <<>> \o NamesOf(path) = NamesOf(path)
    BY NamesType, ConcatEmptySeq
  <2> QED
    BY <2>1, <2>2, <2>3, <2>4, <2>5, <2>6 DEF IsJoined
<1>5. CASE ~ (path # <<>> /\ path[1] = "/") /\ base # s
  <2> DEFINE sp == s \o path
             j == base \o sp
  <2>1. Joined(base, path) = base \o s \o path
    BY <1>5 DEF Joined
  <2>2. NamesOf(j) = NamesOf(base) \o NamesOf(path)
    BY <1>1, NamesJoin
  <2> HIDE DEF s
  <2>3. (base \o s) \o path = j
    <3>1. Associate(base, s, path)
      BY <1>1, <1>2, Assoc
    <3> QED
      BY <3>1 DEF Associate
  <2>4. sp \in Seq(V) /\ Len(sp) = 1 + Len(path)
    <3>1. sp \in Seq(V) /\ Len(sp) = Len(s) + Len(path)
      BY <1>2, Elements
    <3> QED
      BY <1>2, <3>1
  <2> HIDE DEF sp
  <2>5. j \in Seq(V) /\ Is2(j, base, sp) /\ Len(j) = Len(base) + Len(sp)
    BY <1>1, <2>4, Elements
  <2> HIDE DEF j
  <2>6. j[1] = "/"
    <3>1. 1 \in 1 .. Len(base)
      BY <1>1
    <3> QED
      BY <1>1, <2>5, <3>1 DEF Is2
  <2>7. Len(j) > 0 /\ Len(j) <= Len(base) + 1 + Len(path)
    BY <1>1, <2>4, <2>5
  <2> QED
    BY <2>1, <2>2, <2>3, <2>5, <2>6, <2>7 DEF IsJoined
<1> QED
  BY <1>3, <1>4, <1>5

\* The buffer keeps what fits.
LEMMA JoinIs ==
    ASSUME NEW V, "/" \in V, NEW base, Absolute(base, V), NEW path \in Seq(V)
    PROVE  /\ Join(base, path) \in Seq(V) /\ Len(Join(base, path)) > 0
           /\ Join(base, path)[1] = "/" /\ Len(Join(base, path)) < MaxPath
           /\ Len(Joined(base, path)) < MaxPath => Join(base, path) = Joined(base, path)
<1> DEFINE j == Joined(base, path)
           n == Len(j)
           m == Min({n, MaxPath - 1})
           t == SubSeq(j, 1, m)
<1>1. j \in Seq(V) /\ n > 0 /\ j[1] = "/"
  BY JoinedIs DEF IsJoined
<1>2. Join(base, path) = t
  BY DEF Join, Joined
<1>3. MaxPath \in Nat /\ MaxPath > 1 /\ n \in Nat
  BY <1>1, SizesAreNat
<1> HIDE DEF j, n
<1>4. m \in 1 .. n /\ m <= MaxPath - 1 /\ (n < MaxPath => m = n)
  <2> DEFINE S == {n, MaxPath - 1}
  <2>1. S \in SUBSET Nat
    BY <1>3
  <2>2. CASE n <= MaxPath - 1
    <3>1. n \in S /\ \A y \in S : n <= y
      BY <1>3, <2>2
    <3> HIDE DEF S
    <3>2. Min(S) = n
      BY <2>1, <3>1, MinIs
    <3> QED
      BY <1>1, <1>3, <2>2, <3>2 DEF S
  <2>3. CASE ~ (n <= MaxPath - 1)
    <3>1. MaxPath - 1 \in S /\ \A y \in S : MaxPath - 1 <= y
      BY <1>3, <2>3
    <3> HIDE DEF S
    <3>2. Min(S) = MaxPath - 1
      BY <2>1, <3>1, MinIs
    <3>3. MaxPath - 1 \in 1 .. n /\ ~ (n < MaxPath)
      BY <1>3, <2>3
    <3> QED
      BY <3>2, <3>3 DEF S
  <2> QED
    BY <2>2, <2>3
<1> HIDE DEF m
<1>5. t \in Seq(V) /\ IsPart(t, j, 0, m)
  <2>1. m \in 0 .. Len(j)
    BY <1>3, <1>4 DEF n
  <2> QED
    BY <1>1, <2>1, SplitAt
<1>6. n < MaxPath => t = j
  BY <1>1, <1>4, SubSeqFull DEF n
<1> HIDE DEF t
<1>7. Len(t) = m /\ t[1] = j[1]
  <2>1. m - 0 = m /\ 1 \in 1 .. m /\ 0 + 1 = 1
    BY <1>3, <1>4
  <2> QED
    BY <1>5, <2>1 DEF IsPart
<1>8. Len(t) > 0 /\ Len(t) < MaxPath
  BY <1>3, <1>4, <1>7
<1> QED
  BY <1>1, <1>2, <1>5, <1>6, <1>7, <1>8 DEF n, j

\* The components an argument is resolved to.
Components(base, path) == Resolve(NamesOf(Join(base, path)))

IsWhere(cs, base, path, V) ==
    /\ cs \in Seq(Plain(NoBack(V))) /\ cs \in Seq(Runs(NoBack(V))) /\ Len(cs) <= MaxComponents
    /\ Len(cs) <= Len(NamesOf(Join(base, path)))
    /\ IsBuilt(Build(cs), cs, V) /\ Len(Build(cs)) <= Len(Join(base, path))
    /\ Len(Build(cs)) < MaxPath /\ Build(cs) # Refused

LEMMA WhereIs ==
    ASSUME NEW V, "/" \in V, NEW base, Absolute(base, V), NEW path \in Seq(V)
    PROVE  IsWhere(Components(base, path), base, path, V)
<1> DEFINE j == Join(base, path)
           cs == Components(base, path)
           p == Build(cs)
<1>1. j \in Seq(V) /\ Len(j) > 0 /\ j[1] = "/" /\ Len(j) < MaxPath
  BY JoinIs
<1>2. MaxPath \in Nat /\ MaxPath > 1 /\ Len(j) \in Nat /\ "/" \in NoBack(V)
  BY <1>1, SizesAreNat DEF NoBack
<1> HIDE DEF j
<1>3. NamesOf(j) \in Seq(Runs(NoBack(V))) /\ Len(Flat(NamesOf(j))) <= Len(j)
  BY <1>1, NamesType DEF Rest
<1>4. cs = Resolve(NamesOf(j))
  BY DEF Components, j
<1> HIDE DEF cs
<1>5. IsResolved(cs, NamesOf(j), NoBack(V))
  BY <1>2, <1>3, <1>4, ResolvedIs
<1>6. /\ cs \in Seq(Plain(NoBack(V))) /\ Len(cs) <= MaxComponents /\ Len(cs) <= Len(NamesOf(j))
      /\ Len(Flat(cs)) <= Len(Flat(NamesOf(j)))
  BY <1>5 DEF IsResolved
<1>7. cs \in Seq(Runs(NoBack(V)))
  BY <1>6, PlainAreRuns
<1>8. IsBuilt(p, cs, V)
  BY <1>7, BuildIs
<1>9. Len(Flat(cs)) \in Nat /\ Len(Flat(NamesOf(j))) \in Nat
  BY <1>2, <1>3, <1>7, RunsAreSeqs, FlatType
<1>10. Len(p) = (IF cs = <<>> THEN 1 ELSE Len(Flat(cs))) /\ p[1] = "/"
  BY <1>8 DEF IsBuilt
<1> HIDE DEF p
<1>11. Len(p) <= Len(j) /\ Len(p) < MaxPath
  <2>1. Len(p) = 1 \/ Len(p) = Len(Flat(cs))
    BY <1>10
  <2>2. /\ Len(Flat(cs)) <= Len(Flat(NamesOf(j))) /\ Len(Flat(NamesOf(j))) <= Len(j)
        /\ Len(j) > 0 /\ Len(j) < MaxPath
    BY <1>1, <1>3, <1>6
  <2>3. MaxPath \in Nat /\ MaxPath > 1 /\ Len(j) \in Nat
    BY <1>2
  <2>4. CASE Len(p) = 1
    BY <2>2, <2>3, <2>4
  <2>5. CASE Len(p) = Len(Flat(cs))
    BY <1>9, <2>2, <2>3, <2>5
  <2> QED
    BY <2>1, <2>4, <2>5
<1>12. p # Refused
  BY <1>10 DEF Refused
<1>13. IsWhere(cs, base, path, V)
  BY <1>6, <1>7, <1>8, <1>11, <1>12 DEF IsWhere, p, j
<1> QED
  BY <1>13 DEF cs

LEMMA NormalizeIs ==
    ASSUME NEW V, "/" \in V, NEW base, Absolute(base, V), NEW path \in Seq(V)
    PROVE  normalize_and_validate_path(base, path)
             = IF Sound(Build(Components(base, path))) THEN Build(Components(base, path))
               ELSE Refused
<1> DEFINE r == Build(Components(base, path))
<1>1. Tokens(proto_normalize_path(Join(base, path))) = NamesOf(Join(base, path))
  BY JoinIs, NormalTokens
<1>2. Build(Resolve(Tokens(proto_normalize_path(Join(base, path))))) = r
  BY <1>1 DEF Components
<1>3. r \in Seq(NoBack(V)) /\ Len(r) > 0
  BY WhereIs DEF IsWhere, IsBuilt
<1> HIDE DEF r
<1>4. proto_validate_path(Tail(r)) <=> Sound(r)
  BY <1>3, SoundIs
<1>5. normalize_and_validate_path(base, path)
        = IF proto_validate_path(Tail(r)) THEN r ELSE Refused
  BY <1>2 DEF normalize_and_validate_path
<1>6. normalize_and_validate_path(base, path) = IF Sound(r) THEN r ELSE Refused
  BY <1>4, <1>5
<1> QED
  BY <1>6 DEF r

\* A path that is absolute is the whole of what is resolved.
LEMMA AbsoluteArgument ==
    ASSUME NEW V, "/" \in V, NEW base, Absolute(base, V), NEW path \in Seq(V),
           Len(path) > 0, path[1] = "/", Len(path) < MaxPath
    PROVE  Join(base, path) = path
<1>1. path # <<>>
  OBVIOUS
<1>2. Joined(base, path) = path
  BY <1>1 DEF Joined
<1> QED
  BY <1>2, JoinIs

\* Whatever the argument, the path it is resolved to is in its one form.
THEOREM PathIsCanonical ==
    ASSUME NEW V, "/" \in V, NEW base, Absolute(base, V), NEW path \in Seq(V)
    PROVE  IsCanonical(base, path)
<1> DEFINE cs == Components(base, path)
           r == Build(cs)
           result == normalize_and_validate_path(base, path)
<1> SUFFICES ASSUME result # Refused
             PROVE  /\ result[1] = "/" /\ Len(result) < MaxPath
                    /\ proto_normalize_path(result) = result
                    /\ \A k \in DOMAIN Tokens(result) : Tokens(result)[k] \notin {Dots(1), Dots(2)}
                    /\ normalize_and_validate_path(base, result) = result
  BY DEF IsCanonical
<1>1. IsWhere(cs, base, path, V)
  BY WhereIs
<1>2. result = IF Sound(r) THEN r ELSE Refused
  BY NormalizeIs
<1> HIDE DEF cs, result
<1>3. result = r /\ Sound(r)
  BY <1>2
<1>4. /\ r \in Seq(NoBack(V)) /\ Len(r) > 0 /\ r[1] = "/" /\ proto_normalize_path(r) = r
      /\ Tokens(r) = cs /\ NamesOf(r) = cs /\ Len(r) < MaxPath
      /\ cs \in Seq(Plain(NoBack(V))) /\ Len(cs) <= MaxComponents
  BY <1>1 DEF IsWhere, IsBuilt
<1> HIDE DEF r
<1>5. \A k \in DOMAIN cs : cs[k] \notin {Dots(1), Dots(2)}
  <2>1. DOMAIN cs = 1 .. Len(cs) /\ \A k \in 1 .. Len(cs) : cs[k] \in Plain(NoBack(V))
    BY <1>4, LenProperties, ElementOfSeq
  <2> QED
    BY <2>1 DEF Plain
<1>6. normalize_and_validate_path(base, r) = r
  <2>1. r \in Seq(V)
    <3>1. NoBack(V) \subseteq V
      BY DEF NoBack
    <3> QED
      BY <1>4, <3>1, SeqMonotonic
  <2>2. Join(base, r) = r
    BY <1>4, <2>1, AbsoluteArgument
  <2>3. Components(base, r) = cs
    BY <1>4, <2>2, ResolvePlain DEF Components
  <2>4. Build(Components(base, r)) = r
    BY <2>3 DEF r
  <2>5. normalize_and_validate_path(base, r)
          = IF Sound(Build(Components(base, r))) THEN Build(Components(base, r)) ELSE Refused
    BY <2>1, NormalizeIs
  <2> QED
    BY <1>3, <2>4, <2>5
<1> QED
  BY <1>3, <1>4, <1>5, <1>6

\* What a path and what comes after it at a slash is resolved to.
LEMMA ComponentsJoin ==
    ASSUME NEW V, "/" \in V, NEW base, Absolute(base, V), NEW p \in Seq(V), NEW q \in Seq(V),
           p # <<>>, Len(base) + 1 + Len(p \o (<<"/">> \o q)) < MaxPath
    PROVE  /\ Components(base, p \o (<<"/">> \o q)) = Resolve(Components(base, p) \o NamesOf(q))
           /\ Join(base, p) = Joined(base, p)
           /\ Len(Join(base, p)) + 1 + Len(q) < MaxPath
<1> DEFINE s == <<"/">>
           sq == s \o q
           w == p \o sq
           j == Joined(base, p)
           jw == Joined(base, w)
           cs == Components(base, p)
<1>1. base \in Seq(V) /\ Len(base) \in Nat /\ Len(base) > 0
  <2>1. NoBack(V) \subseteq V
    BY DEF NoBack
  <2> QED
    BY <2>1, SeqMonotonic DEF Absolute
<1>2. s \in Seq(V) /\ Len(s) = 1
  OBVIOUS
<1>3. MaxPath \in Nat
  BY SizesAreNat
<1>4. "/" \in NoBack(V)
  BY DEF NoBack
<1>5. IsJoined(j, base, p, V)
  BY JoinedIs
<1>6. NamesOf(j \o sq) = NamesOf(j) \o NamesOf(q)
  BY <1>5, NamesJoin DEF IsJoined
<1> HIDE DEF s
<1>7. sq \in Seq(V) /\ Len(sq) = 1 + Len(q) /\ Len(q) \in Nat
  <2>1. sq \in Seq(V) /\ Len(sq) = Len(s) + Len(q) /\ Len(q) \in Nat
    BY <1>2, Elements
  <2> HIDE DEF sq
  <2> QED
    BY <1>2, <2>1
<1> HIDE DEF sq
<1>8. w \in Seq(V) /\ Is2(w, p, sq) /\ Len(w) = Len(p) + (1 + Len(q)) /\ Len(p) \in Nat
  <2>1. w \in Seq(V) /\ Is2(w, p, sq) /\ Len(w) = Len(p) + Len(sq) /\ Len(p) \in Nat
    BY <1>7, Elements
  <2> HIDE DEF w
  <2> QED
    BY <1>7, <2>1
<1>9. IsJoined(jw, base, w, V)
  BY <1>8, JoinedIs
<1>10. Len(base) + 1 + Len(w) < MaxPath
  BY DEF w, sq, s
<1>11. jw = j \o sq
  <2>1. Len(p) # 0
    BY EmptySeq
  <2>2. 1 \in 1 .. Len(p) /\ Len(w) # 0
    BY <1>7, <1>8, <2>1
  <2>3. w[1] = p[1] /\ w # <<>>
    <3>1. w # <<>>
      BY <2>2
    <3> QED
      BY <1>8, <2>2, <3>1 DEF Is2
  <2>4. CASE p[1] = "/"
    BY <2>3, <2>4 DEF Joined
  <2>5. CASE p[1] # "/" /\ base = s
    <3>1. jw = s \o w /\ j = s \o p
      BY <2>3, <2>5 DEF Joined, s
    <3>2. (s \o p) \o sq = s \o (p \o sq)
      <4>1. Associate(s, p, sq)
        BY <1>2, <1>7, Assoc
      <4> QED
        BY <4>1 DEF Associate
    <3> QED
      BY <3>1, <3>2
  <2>6. CASE p[1] # "/" /\ base # s
    <3> DEFINE b == base \o s
    <3>1. jw = b \o w /\ j = b \o p
      BY <2>3, <2>6 DEF Joined, s
    <3>2. b \in Seq(V)
      BY <1>1, <1>2, Elements
    <3> HIDE DEF b
    <3>3. (b \o p) \o sq = b \o (p \o sq)
      <4>1. Associate(b, p, sq)
        BY <1>7, <3>2, Assoc
      <4> QED
        BY <4>1 DEF Associate
    <3> QED
      BY <3>1, <3>3
  <2> QED
    BY <2>4, <2>5, <2>6
<1> HIDE DEF w, j, jw
<1>12. j \in Seq(V) /\ Len(j) <= Len(base) + 1 + Len(p) /\ Len(jw) <= Len(base) + 1 + Len(w)
       /\ jw \in Seq(V)
  BY <1>5, <1>9 DEF IsJoined
<1>13. Len(jw) \in Nat /\ Len(j) \in Nat
  BY <1>12
<1>14. Len(jw) < MaxPath /\ Len(j) < MaxPath /\ Len(j) + 1 + Len(q) < MaxPath
  BY <1>1, <1>3, <1>7, <1>8, <1>10, <1>12, <1>13
<1>15. Join(base, w) = jw
  BY <1>8, <1>14, JoinIs DEF jw
<1>16. Join(base, p) = j
  BY <1>14, JoinIs DEF j
<1>17. NamesOf(j) \in Seq(Runs(NoBack(V))) /\ NamesOf(q) \in Seq(Runs(NoBack(V)))
  BY <1>12, NamesType
<1>18. Resolve(NamesOf(j) \o NamesOf(q)) = Resolve(Resolve(NamesOf(j)) \o NamesOf(q))
  BY <1>4, <1>17, ResolveJoin
<1>19. Components(base, w) = Resolve(cs \o NamesOf(q))
  BY <1>6, <1>11, <1>15, <1>16, <1>18 DEF Components
<1> QED
  BY <1>14, <1>16, <1>19 DEF w, sq, s, j

LEMMA Assoc2 ==
    ASSUME NEW V, "/" \in V, NEW p \in Seq(V), NEW q \in Seq(V)
    PROVE  p \o <<"/">> \o q = p \o (<<"/">> \o q)
<1> DEFINE s == <<"/">>
<1>1. s \in Seq(V)
  OBVIOUS
<1> HIDE DEF s
<1>2. (p \o s) \o q = p \o (s \o q)
  <2>1. Associate(p, s, q)
    BY <1>1, Assoc
  <2> QED
    BY <2>1 DEF Associate
<1> QED
  BY <1>2 DEF s

\* CWD p and then q is as p/q.
THEOREM PathComposes ==
    ASSUME NEW V, "/" \in V, NEW base, Absolute(base, V), NEW p \in Seq(V), NEW q \in Seq(V)
    PROVE  Composes(base, p, q)
<1> DEFINE there == normalize_and_validate_path(base, p)
           w == p \o (<<"/">> \o q)
           cs == Components(base, p)
           r == Build(cs)
<1>1. p \o <<"/">> \o q = w
  BY Assoc2
<1> SUFFICES ASSUME p # <<>>, q # <<>>, q[1] # "/", FitsIn(base, w), there # Refused
             PROVE  normalize_and_validate_path(there, q) = normalize_and_validate_path(base, w)
  BY <1>1 DEF Composes
<1>2. w \in Seq(V)
  BY NamesJoin
<1>3. Len(base) + 1 + Len(w) < MaxPath
  BY DEF FitsIn
<1>4. /\ Components(base, w) = Resolve(cs \o NamesOf(q))
      /\ Len(Join(base, p)) + 1 + Len(q) < MaxPath
  BY <1>3, ComponentsJoin
<1>5. IsWhere(cs, base, p, V)
  BY WhereIs
<1>6. there = r
  BY NormalizeIs
<1> HIDE DEF there, w, cs
<1>7. r \in Seq(NoBack(V)) /\ Len(r) > 0 /\ r[1] = "/" /\ NamesOf(r) = cs
      /\ Len(r) <= Len(Join(base, p))
  BY <1>5 DEF IsWhere, IsBuilt
<1> HIDE DEF r
<1>8. Absolute(r, V)
  BY <1>7 DEF Absolute
<1>9. IsJoined(Joined(r, q), r, q, V)
  BY <1>8, JoinedIs
<1>10. Joined(r, q) \in Seq(V) /\ Len(Joined(r, q)) <= Len(r) + 1 + Len(q)
       /\ NamesOf(Joined(r, q)) = cs \o NamesOf(q)
  BY <1>7, <1>9 DEF IsJoined
<1>11. Join(base, p) \in Seq(V) /\ MaxPath \in Nat
  BY JoinIs, SizesAreNat
<1>12. Len(Joined(r, q)) < MaxPath
  <2>1. /\ Len(Joined(r, q)) \in Nat /\ Len(r) \in Nat /\ Len(q) \in Nat
        /\ Len(Join(base, p)) \in Nat
    BY <1>7, <1>10, <1>11
  <2> QED
    BY <1>4, <1>7, <1>10, <1>11, <2>1
<1>13. Join(r, q) = Joined(r, q)
  BY <1>8, <1>12, JoinIs
<1>14. Components(r, q) = Components(base, w)
  BY <1>4, <1>10, <1>13 DEF Components
<1>15. normalize_and_validate_path(r, q)
         = IF Sound(Build(Components(r, q))) THEN Build(Components(r, q)) ELSE Refused
  BY <1>8, NormalizeIs
<1>16. normalize_and_validate_path(base, w)
         = IF Sound(Build(Components(base, w))) THEN Build(Components(base, w)) ELSE Refused
  BY <1>2, NormalizeIs
<1> QED
  BY <1>6, <1>14, <1>15, <1>16

\* A directory of a session: a path in its one form that is not refused.
IsDirectory(base, V) ==
    \E bs \in Seq(Plain(NoBack(V))) : base = Build(bs) /\ Sound(base)

LEMMA DirectoryIs ==
    ASSUME NEW V, "/" \in V, NEW base, IsDirectory(base, V)
    PROVE  Absolute(base, V) /\ Tokens(base) \in Seq(Plain(NoBack(V))) /\ Tokens(base) \in Seq(Runs(NoBack(V)))
           /\ base = Build(Tokens(base)) /\ NamesOf(base) = Tokens(base) /\ Sound(base)
<1>1. PICK bs \in Seq(Plain(NoBack(V))) : base = Build(bs) /\ Sound(base)
  BY DEF IsDirectory
<1>2. bs \in Seq(Runs(NoBack(V)))
  BY PlainAreRuns
<1>3. IsBuilt(base, bs, V)
  BY <1>1, <1>2, BuildIs
<1> QED
  BY <1>1, <1>2, <1>3 DEF IsBuilt, Absolute

\* Wherever a session goes, it is in a directory.
THEOREM DirectoriesStay ==
    ASSUME NEW V, "/" \in V, NEW base, IsDirectory(base, V), NEW path \in Seq(V),
           normalize_and_validate_path(base, path) # Refused
    PROVE  IsDirectory(normalize_and_validate_path(base, path), V)
<1> DEFINE cs == Components(base, path)
<1>1. Absolute(base, V)
  BY DirectoryIs
<1>2. cs \in Seq(Plain(NoBack(V)))
  BY <1>1, WhereIs DEF IsWhere
<1>3. normalize_and_validate_path(base, path) = IF Sound(Build(cs)) THEN Build(cs) ELSE Refused
  BY <1>1, NormalizeIs
<1> HIDE DEF cs
<1> QED
  BY <1>2, <1>3 DEF IsDirectory

LEMMA SoundPrefix ==
    ASSUME NEW V, NEW x \in Seq(V), NEW y \in Seq(V), Sound(x \o y)
    PROVE  Sound(x)
<1> DEFINE c == x \o y
<1>1. Is2(c, x, y) /\ Len(x) \in Nat /\ Len(y) \in Nat /\ Len(c) = Len(x) + Len(y)
  BY Elements
<1>2. Sound(c)
  OBVIOUS
<1> HIDE DEF c
<1>3. ASSUME NEW i \in 2 .. Len(x) - 1 PROVE ~ (x[i] = "." /\ x[i + 1] = ".")
  <2>1. i \in 2 .. Len(c) - 1 /\ i \in 1 .. Len(x) /\ i + 1 \in 1 .. Len(x)
    BY <1>1
  <2>2. c[i] = x[i] /\ c[i + 1] = x[i + 1]
    BY <1>1, <2>1 DEF Is2
  <2>3. ~ (c[i] = "." /\ c[i + 1] = ".")
    BY <1>2, <2>1 DEF Sound
  <2> QED
    BY <2>2, <2>3
<1>4. ASSUME NEW i \in 2 .. Len(x) PROVE x[i] \notin Control
  <2>1. i \in 2 .. Len(c) /\ i \in 1 .. Len(x)
    BY <1>1
  <2>2. c[i] = x[i]
    BY <1>1, <2>1 DEF Is2
  <2>3. c[i] \notin Control
    BY <1>2, <2>1 DEF Sound
  <2> QED
    BY <2>2, <2>3
<1> QED
  BY <1>3, <1>4 DEF Sound

LEMMA SoundMore ==
    ASSUME NEW V, "/" \in V, NEW x \in Seq(V), Sound(x), NEW t \in Seq(V), proto_validate_path(t)
    PROVE  Sound(x \o (<<"/">> \o t))
<1> DEFINE s == <<"/">>
           st == s \o t
           c == x \o st
           n == Len(x)
           m == Len(t)
<1>1. s \in Seq(V) /\ Len(s) = 1 /\ s[1] = "/" /\ 1 \in 1 .. Len(s)
  OBVIOUS
<1> HIDE DEF s
<1>2. st \in Seq(V) /\ Is2(st, s, t) /\ Len(st) = 1 + m /\ m \in Nat
  <2>1. st \in Seq(V) /\ Is2(st, s, t) /\ Len(st) = Len(s) + Len(t) /\ Len(t) \in Nat
    BY <1>1, Elements
  <2> HIDE DEF st
  <2> QED
    BY <1>1, <2>1
<1>3. st[1] = "/" /\ \A i \in 1 .. m : st[1 + i] = t[i]
  BY <1>1, <1>2 DEF Is2
<1> HIDE DEF st
<1>4. c \in Seq(V) /\ Is2(c, x, st) /\ Len(c) = n + (1 + m) /\ n \in Nat
  <2>1. c \in Seq(V) /\ Is2(c, x, st) /\ Len(c) = Len(x) + Len(st) /\ Len(x) \in Nat
    BY <1>2, Elements
  <2> HIDE DEF c
  <2> QED
    BY <1>2, <2>1
<1>5. (\A i \in 1 .. n : c[i] = x[i]) /\ \A i \in 1 .. 1 + m : c[n + i] = st[i]
  BY <1>2, <1>4 DEF Is2
<1>6. /\ \A i \in 1 .. m - 1 : ~ (t[i] = "." /\ t[i + 1] = ".")
      /\ \A i \in 1 .. m : t[i] \notin Control
  BY ValidIs
<1>7. /\ \A i \in 2 .. n - 1 : ~ (x[i] = "." /\ x[i + 1] = ".")
      /\ \A i \in 2 .. n : x[i] \notin Control
  BY DEF Sound
<1>8. "/" \notin Control
  BY LettersAreNoControl
<1> HIDE DEF c, n, m
<1>9. c[n + 1] = "/"
  <2>1. 1 \in 1 .. 1 + m
    BY <1>2
  <2> QED
    BY <1>3, <1>5, <2>1
<1>10. \A i \in 1 .. m : c[n + 1 + i] = t[i]
  <2> SUFFICES ASSUME NEW i \in 1 .. m PROVE c[n + 1 + i] = t[i]
    OBVIOUS
  <2>1. 1 + i \in 1 .. 1 + m /\ n + (1 + i) = n + 1 + i
    BY <1>2, <1>4
  <2>2. c[n + (1 + i)] = st[1 + i]
    BY <1>5, <2>1
  <2> QED
    BY <1>3, <2>1, <2>2
<1>11. ASSUME NEW i \in 2 .. n + (1 + m) PROVE c[i] \notin Control
  <2>1. CASE i \in 2 .. n
    <3>1. i \in 1 .. n
      BY <1>4, <2>1
    <3> QED
      BY <1>5, <1>7, <2>1, <3>1
  <2>2. CASE i = n + 1
    BY <1>8, <1>9, <2>2
  <2>3. CASE i > n + 1
    <3>1. i - (n + 1) \in 1 .. m /\ n + 1 + (i - (n + 1)) = i
      BY <1>2, <1>4, <2>3
    <3>2. c[n + 1 + (i - (n + 1))] = t[i - (n + 1)]
      BY <1>10, <3>1
    <3>3. t[i - (n + 1)] \notin Control
      BY <1>6, <3>1
    <3> QED
      BY <3>1, <3>2, <3>3
  <2> QED
    BY <1>2, <1>4, <2>1, <2>2, <2>3
<1>12. ASSUME NEW i \in 2 .. n + (1 + m) - 1 PROVE ~ (c[i] = "." /\ c[i + 1] = ".")
  <2>1. CASE i \in 2 .. n - 1
    <3>1. i \in 1 .. n /\ i + 1 \in 1 .. n
      BY <1>4, <2>1
    <3>2. c[i] = x[i] /\ c[i + 1] = x[i + 1]
      BY <1>5, <3>1
    <3> QED
      BY <1>7, <2>1, <3>2
  <2>2. CASE i = n
    BY <1>9, <2>2
  <2>3. CASE i = n + 1
    BY <1>9, <2>3
  <2>4. CASE i > n + 1
    <3> DEFINE k == i - (n + 1)
    <3>1. k \in 1 .. m - 1 /\ k \in 1 .. m /\ k + 1 \in 1 .. m /\ n + 1 + k = i /\ n + 1 + (k + 1) = i + 1
      BY <1>2, <1>4, <2>4
    <3> HIDE DEF k
    <3>2. c[n + 1 + k] = t[k] /\ c[n + 1 + (k + 1)] = t[k + 1]
      BY <1>10, <3>1
    <3>3. ~ (t[k] = "." /\ t[k + 1] = ".")
      BY <1>6, <3>1
    <3> QED
      BY <3>1, <3>2, <3>3
  <2> QED
    BY <1>2, <1>4, <2>1, <2>2, <2>3, <2>4
<1>13. Sound(c)
  <2>1. ASSUME NEW i \in 2 .. Len(c) PROVE c[i] \notin Control
    <3>1. i \in 2 .. n + (1 + m)
      BY <1>2, <1>4
    <3> QED
      BY <1>11, <3>1
  <2>2. ASSUME NEW i \in 2 .. Len(c) - 1 PROVE ~ (c[i] = "." /\ c[i + 1] = ".")
    <3>1. i \in 2 .. n + (1 + m) - 1
      BY <1>2, <1>4
    <3> QED
      BY <1>12, <3>1
  <2> QED
    BY <2>1, <2>2 DEF Sound
<1> QED
  BY <1>13 DEF c, st, s

\* One component more, one "/" and a name more.
LEMMA BuildSnoc ==
    ASSUME NEW V, "/" \in V, NEW bs \in Seq(Runs(NoBack(V))), NEW t \in Runs(NoBack(V))
    PROVE  Build(Append(bs, t)) = IF bs = <<>> THEN <<"/">> \o t
                                  ELSE Build(bs) \o (<<"/">> \o t)
<1> DEFINE st == <<"/">> \o t
<1>1. "/" \in NoBack(V) /\ bs \in Seq(Seq(NoBack(V))) /\ t \in Seq(NoBack(V))
  BY RunsAreSeqs DEF NoBack, Runs
<1>2. Append(bs, t) \in Seq(Runs(NoBack(V))) /\ Append(bs, t) # <<>>
  BY AppendProperties
<1>3. Build(Append(bs, t)) = Flat(Append(bs, t))
  BY <1>2, BuildIs
<1>4. Flat(Append(bs, t)) = Flat(bs) \o st
  BY <1>1, FlatSnoc
<1>5. CASE bs = <<>>
  <2>1. st \in Seq(NoBack(V))
    BY <1>1, NamesJoin
  <2> HIDE DEF st
  <2>2. <<>> \o st = st
    BY <2>1, ConcatEmptySeq
  <2> QED
    BY <1>3, <1>4, <1>5, <2>2, FlatNone DEF st
<1>6. CASE bs # <<>>
  BY <1>3, <1>4, <1>6, BuildIs
<1> QED
  BY <1>5, <1>6

LEMMA RunTokens ==
    ASSUME NEW V, NEW t \in Runs(V)
    PROVE  Tokens(t) = <<t>>
<1>1. t \in Seq(V)
  BY DEF Runs
<1>2. <<>> \in Seq(V) /\ Rest(<<>>) /\ t \o <<>> = t /\ Tokens(<<>>) = <<>>
  BY <1>1, TokensNone, ConcatEmptySeq DEF Rest
<1>3. Tokens(t \o <<>>) = <<t>> \o Tokens(<<>>)
  BY <1>2, TokensRun
<1>4. <<t>> \in Seq(Seq(V))
  BY <1>1
<1>5. <<t>> \o <<>> = <<t>>
  BY <1>4, ConcatEmptySeq
<1> QED
  BY <1>2, <1>3, <1>5

LEMMA RunNames ==
    ASSUME NEW V, NEW t \in Runs(NoBack(V))
    PROVE  NamesOf(t) = <<t>>
<1>1. t \in Seq(NoBack(V))
  BY DEF Runs
<1> QED
  BY <1>1, SlashedSame, RunTokens DEF NamesOf

DotDot == <<".", ".">>

LEMMA DotDotIs ==
    ASSUME NEW V, "." \in V
    PROVE  /\ Dots(2) = DotDot /\ DotDot \in Runs(NoBack(V)) /\ DotDot \in Seq(V) /\ DotDot # Dots(1)
           /\ NamesOf(DotDot) = <<DotDot>> /\ Len(DotDot) = 2
<1>1. Dots(2) \in [1 .. 2 -> {"."}] /\ Dots(1) \in [1 .. 1 -> {"."}]
  BY DEF Dots
<1>2. Dots(2) \in Seq({"."}) /\ Len(Dots(2)) = 2 /\ Dots(1) \in Seq({"."}) /\ Len(Dots(1)) = 1
  BY <1>1, FunctionIsSeq
<1>3. /\ DotDot \in Seq({"."}) /\ Len(DotDot) = 2 /\ DotDot \in Seq(NoBack(V)) /\ DotDot \in Seq(V)
      /\ DotDot[1] = "." /\ DotDot[2] = "."
  BY DEF DotDot, NoBack
<1>4. 1 \in 1 .. 2 /\ 2 \in 1 .. 2 /\ \A i \in 1 .. 2 : i = 1 \/ i = 2
  OBVIOUS
<1>5. Dots(2)[1] = "." /\ Dots(2)[2] = "."
  BY <1>1, <1>4
<1> HIDE DEF DotDot, Dots
<1>6. \A i \in 1 .. 2 : Dots(2)[i] = DotDot[i]
  BY <1>3, <1>4, <1>5
<1>7. Dots(2) = DotDot
  BY <1>2, <1>3, <1>6, SeqEqual
<1>8. DotDot # Dots(1)
  <2>1. Len(DotDot) = 2
    BY <1>3
  <2>2. Len(Dots(1)) = 1
    BY <1>2
  <2>3. Len(DotDot) # Len(Dots(1))
    BY <2>1, <2>2
  <2> QED
    BY <2>3
<1>9. \A i \in 1 .. 2 : DotDot[i] # "/"
  BY <1>3, <1>4
<1>10. DotDot \in Runs(NoBack(V))
  <2>1. 2 > 0
    OBVIOUS
  <2> QED
    BY <1>3, <1>9, <2>1 DEF Runs
<1> QED
  BY <1>3, <1>7, <1>8, <1>10, RunNames

LEMMA RootIsSound == Sound(Build(<<>>)) /\ Build(<<>>) = <<"/">>
<1>1. Build(<<>>) = <<"/">>
  BY DEF Build
<1>2. Len(<<"/">>) = 1
  OBVIOUS
<1>3. \A i \in 2 .. 1 : FALSE
  OBVIOUS
<1>4. \A i \in 2 .. 1 - 1 : FALSE
  OBVIOUS
<1> QED
  BY <1>1, <1>2, <1>3, <1>4 DEF Sound

\* Going up from a sound path leaves a sound path.
LEMMA SoundFront ==
    ASSUME NEW V, "/" \in V, NEW cs \in Seq(Runs(NoBack(V))), cs # <<>>, Sound(Build(cs))
    PROVE  Sound(Build(Front(cs)))
<1> DEFINE f == Front(cs)
           t == Last(cs)
           st == <<"/">> \o t
<1>1. f \in Seq(Runs(NoBack(V))) /\ t \in Runs(NoBack(V)) /\ Append(f, t) = cs
  BY FrontType
<1>2. "/" \in NoBack(V) /\ t \in Seq(NoBack(V))
  BY <1>1 DEF NoBack, Runs
<1> HIDE DEF f, t
<1>3. st \in Seq(NoBack(V))
  BY <1>2, NamesJoin
<1>4. Build(cs) = IF f = <<>> THEN st ELSE Build(f) \o st
  BY <1>1, BuildSnoc
<1>5. CASE f = <<>>
  <2>1. Sound(Build(f))
    BY <1>5, RootIsSound
  <2> QED
    BY <2>1 DEF f
<1>6. CASE f # <<>>
  <2>1. Build(f) \in Seq(NoBack(V))
    BY <1>1, BuildIs DEF IsBuilt
  <2>2. Build(cs) = Build(f) \o st
    BY <1>4, <1>6
  <2> HIDE DEF st
  <2>3. Sound(Build(f) \o st)
    BY <2>2
  <2>4. Sound(Build(f))
    BY <1>3, <2>1, <2>3, SoundPrefix
  <2> QED
    BY <2>4 DEF f
<1> QED
  BY <1>5, <1>6

\* There is room for one component more where the path fits in.
LEMMA RoomForOne ==
    ASSUME NEW V, "/" \in V, NEW base, IsDirectory(base, V), NEW p \in Seq(V),
           NEW t \in Runs(NoBack(V)), FitsIn(base, p \o (<<"/">> \o t)),
           Join(base, p) = Joined(base, p)
    PROVE  Len(Components(base, p)) < MaxComponents
<1> DEFINE w == p \o (<<"/">> \o t)
           j == Joined(base, p)
           cs == Components(base, p)
<1>1. Absolute(base, V) /\ NamesOf(base) = Tokens(base) /\ Tokens(base) \in Seq(Runs(NoBack(V)))
  BY DirectoryIs
<1>2. t \in Seq(NoBack(V)) /\ t \in Seq(V)
  <2>1. NoBack(V) \subseteq V /\ t \in Seq(NoBack(V))
    BY DEF NoBack, Runs
  <2> QED
    BY <2>1, SeqMonotonic
<1>3. w \in Seq(V) /\ NamesOf(w) = NamesOf(p) \o <<t>>
  <2>1. NamesOf(t) = <<t>>
    BY RunNames
  <2>2. w \in Seq(V) /\ NamesOf(w) = NamesOf(p) \o NamesOf(t)
    BY <1>2, NamesJoin
  <2> HIDE DEF w
  <2> QED
    BY <2>1, <2>2
<1>4. Tokens(proto_normalize_path(w)) = NamesOf(w)
  BY <1>3, NormalTokens
<1>5. Len(Tokens(base)) + Len(Tokens(proto_normalize_path(w))) <= MaxComponents
  BY DEF FitsIn
<1>6. NamesOf(p) \in Seq(Runs(NoBack(V)))
  BY NamesType
<1>7. Len(NamesOf(p) \o <<t>>) = Len(NamesOf(p)) + 1
  <2> DEFINE np == NamesOf(p)
             s == <<t>>
  <2>1. s \in Seq(Runs(NoBack(V))) /\ Len(s) = 1
    OBVIOUS
  <2> HIDE DEF np, s
  <2>2. Len(np \o s) = Len(np) + Len(s)
    BY <1>6, <2>1, Elements DEF np
  <2>3. Len(np \o s) = Len(np) + 1
    BY <2>1, <2>2
  <2> QED
    BY <2>3 DEF np, s
<1>8. IsWhere(cs, base, p, V) /\ IsJoined(j, base, p, V)
  BY <1>1, WhereIs, JoinedIs
<1>9. Len(cs) <= Len(NamesOf(j)) /\ Len(cs) \in Nat
  BY <1>8 DEF IsWhere
<1>10. NamesOf(j) = NamesOf(p) \/ NamesOf(j) = NamesOf(base) \o NamesOf(p)
  <2>1. CASE p # <<>> /\ p[1] = "/"
    BY <2>1 DEF Joined
  <2>2. CASE ~ (p # <<>> /\ p[1] = "/")
    BY <1>8, <2>2 DEF IsJoined
  <2> QED
    BY <2>1, <2>2
<1>11. Len(NamesOf(j)) <= Len(Tokens(base)) + Len(NamesOf(p))
       /\ Len(Tokens(base)) \in Nat /\ Len(NamesOf(p)) \in Nat /\ Len(NamesOf(j)) \in Nat
  <2> DEFINE b == Tokens(base)
             n == NamesOf(p)
  <2>1. b \in Seq(Runs(NoBack(V))) /\ n \in Seq(Runs(NoBack(V)))
    BY <1>1, <1>6
  <2> HIDE DEF b, n
  <2>2. Len(b) \in Nat /\ Len(n) \in Nat /\ Len(b \o n) = Len(b) + Len(n)
    BY <2>1, Elements
  <2>3. Len(NamesOf(j)) = Len(n) \/ Len(NamesOf(j)) = Len(b \o n)
    BY <1>1, <1>10 DEF b, n
  <2>4. Len(NamesOf(j)) <= Len(b) + Len(n) /\ Len(NamesOf(j)) \in Nat
    BY <2>2, <2>3
  <2> QED
    BY <2>2, <2>4 DEF b, n
<1>12. Len(Tokens(base)) + (Len(NamesOf(p)) + 1) <= MaxComponents /\ MaxComponents \in Nat
  BY <1>3, <1>4, <1>5, <1>7, SizesAreNat
<1> HIDE DEF cs, j
<1>13. Len(cs) < MaxComponents
  BY <1>9, <1>11, <1>12
<1> QED
  BY <1>13 DEF cs

\* ".." names the directory above, and at the root the root.
THEOREM PathGoesUp ==
    ASSUME NEW V, {"/", "."} \subseteq V, NEW base, IsDirectory(base, V), NEW p \in Seq(V)
    PROVE  GoesUp(base, p)
<1> DEFINE there == normalize_and_validate_path(base, p)
           w == p \o (<<"/">> \o DotDot)
           cs == Components(base, p)
           ds == Components(base, w)
<1>1. "/" \in V /\ "." \in V /\ Absolute(base, V)
  BY DirectoryIs
<1>2. /\ DotDot \in Runs(NoBack(V)) /\ DotDot \in Seq(V) /\ DotDot = Dots(2) /\ DotDot # Dots(1)
      /\ NamesOf(DotDot) = <<DotDot>>
  BY <1>1, DotDotIs
<1>3. p \o <<"/", ".", ".">> = w
  <2>1. <<"/">> \o DotDot = <<"/", ".", ".">>
    <3> DEFINE s == <<"/">>
               a == s \o DotDot
               b == <<"/", ".", ".">>
    <3>1. s \in Seq(V) /\ Len(s) = 1 /\ s[1] = "/"
      BY <1>1
    <3>2. b \in Seq(V) /\ Len(b) = 3 /\ b[1] = "/" /\ b[2] = "." /\ b[3] = "."
      BY <1>1
    <3>3. Len(DotDot) = 2 /\ DotDot[1] = "." /\ DotDot[2] = "."
      BY DEF DotDot
    <3> HIDE DEF s, b
    <3>4. a \in Seq(V) /\ Len(a) = Len(s) + Len(DotDot) /\ Is2(a, s, DotDot)
      BY <1>2, <3>1, Elements
    <3> HIDE DEF a
    <3>5. Len(a) = 3
      BY <3>1, <3>3, <3>4
    <3>6. 1 \in 1 .. 1 /\ 1 \in 1 .. 2 /\ 2 \in 1 .. 2 /\ 1 + 1 = 2 /\ 1 + 2 = 3
      OBVIOUS
    <3>7. a[1] = "/" /\ a[2] = "." /\ a[3] = "."
      BY <3>1, <3>3, <3>4, <3>6 DEF Is2
    <3>8. \A i \in 1 .. 3 : i = 1 \/ i = 2 \/ i = 3
      OBVIOUS
    <3>9. \A i \in 1 .. 3 : a[i] = b[i]
      BY <3>2, <3>7, <3>8
    <3>10. a = b
      BY <3>2, <3>4, <3>5, <3>9, SeqEqual
    <3> QED
      BY <3>10 DEF a, b, s
  <2> QED
    BY <2>1
<1> SUFFICES ASSUME p # <<>>, FitsIn(base, w), there # Refused
             PROVE  normalize_and_validate_path(base, w) = Parent(there)
  BY <1>3 DEF GoesUp
<1>4. w \in Seq(V)
  BY <1>1, <1>2, NamesJoin
<1>5. Len(base) + 1 + Len(w) < MaxPath
  BY DEF FitsIn
<1>6. ds = Resolve(cs \o <<DotDot>>) /\ Join(base, p) = Joined(base, p)
  <2>1. /\ Components(base, w) = Resolve(Components(base, p) \o NamesOf(DotDot))
        /\ Join(base, p) = Joined(base, p)
    BY <1>1, <1>2, <1>5, ComponentsJoin
  <2> QED
    BY <1>2, <2>1
<1>7. Len(cs) < MaxComponents
  BY <1>1, <1>2, <1>6, RoomForOne
<1>8. /\ cs \in Seq(Plain(NoBack(V))) /\ cs \in Seq(Runs(NoBack(V))) /\ Len(cs) <= MaxComponents
      /\ IsBuilt(Build(cs), cs, V)
  BY <1>1, WhereIs DEF IsWhere
<1>9. there = Build(cs) /\ Sound(Build(cs))
  <2>1. there = IF Sound(Build(cs)) THEN Build(cs) ELSE Refused
    BY <1>1, NormalizeIs
  <2> HIDE DEF there
  <2> QED
    BY <2>1
<1>10. normalize_and_validate_path(base, w) = IF Sound(Build(ds)) THEN Build(ds) ELSE Refused
  BY <1>1, <1>4, NormalizeIs
<1>11. Parent(there) = IF cs = <<>> THEN there ELSE Build(Front(cs))
  BY <1>8, <1>9 DEF Parent, IsBuilt
<1> HIDE DEF w, cs, ds, there
<1>12. ds = IF cs = <<>> THEN cs ELSE Front(cs)
  <2>1. cs \o <<DotDot>> = Append(cs, DotDot)
    BY <1>2, <1>8, AppendIsConcat
  <2>2. Resolve(Append(cs, DotDot)) = After1(Resolve(cs), DotDot)
    BY <1>2, <1>8, ResolveSnoc
  <2>3. Resolve(cs) = cs
    BY <1>8, ResolvePlain
  <2>4. Len(cs) # MaxComponents
    BY <1>7, <1>8, SizesAreNat
  <2>5. After1(cs, DotDot) = IF cs = <<>> THEN cs ELSE Front(cs)
    BY <1>2, <2>4 DEF After1
  <2> QED
    BY <1>6, <2>1, <2>2, <2>3, <2>5
<1>13. CASE cs = <<>>
  BY <1>9, <1>10, <1>11, <1>12, <1>13
<1>14. CASE cs # <<>>
  <2>1. Sound(Build(Front(cs)))
    BY <1>1, <1>8, <1>9, <1>14, SoundFront
  <2> QED
    BY <1>10, <1>11, <1>12, <1>14, <2>1
<1> QED
  BY <1>13, <1>14

\* A plain name is added to the directory.
THEOREM PathGoesDown ==
    ASSUME NEW V, "/" \in V, NEW base, IsDirectory(base, V), NEW name \in Seq(V)
    PROVE  GoesDown(base, name)
<1> DEFINE s == <<"/">>
           sn == s \o name
           bs == Tokens(base)
           ds == Append(bs, name)
<1> SUFFICES ASSUME FitsIn(base, name), name # <<>>, proto_validate_path(name), name # Dots(1),
                    \A i \in DOMAIN name : name[i] \notin {"/", "\\"}
             PROVE  normalize_and_validate_path(base, name)
                      = IF base = <<"/">> THEN base \o name ELSE base \o <<"/">> \o name
  BY DEF GoesDown
<1>1. /\ Absolute(base, V) /\ bs \in Seq(Plain(NoBack(V))) /\ bs \in Seq(Runs(NoBack(V)))
      /\ base = Build(bs) /\ NamesOf(base) = bs /\ Sound(base)
  BY DirectoryIs
<1>2. base \in Seq(NoBack(V)) /\ base \in Seq(V) /\ "/" \in NoBack(V)
  <2>1. NoBack(V) \subseteq V /\ "/" \in NoBack(V)
    BY DEF NoBack
  <2> QED
    BY <1>1, <2>1, SeqMonotonic DEF Absolute
<1>3. name \in Runs(NoBack(V)) /\ name \in Seq(NoBack(V))
  <2>1. DOMAIN name = 1 .. Len(name) /\ Len(name) \in Nat /\ Len(name) # 0
    BY LenProperties, EmptySeq
  <2>2. \A i \in 1 .. Len(name) : name[i] \in NoBack(V)
    BY <2>1, ElementOfSeq DEF NoBack
  <2>3. name \in [1 .. Len(name) -> NoBack(V)]
    <3>1. name \in [1 .. Len(name) -> V]
      BY LenProperties
    <3> QED
      BY <2>2, <3>1
  <2>4. name \in Seq(NoBack(V))
    BY <2>1, <2>3, FunctionIsSeq
  <2>5. \A i \in 1 .. Len(name) : name[i] # "/"
    BY <2>1
  <2>6. Len(name) > 0
    BY <2>1
  <2> QED
    BY <2>4, <2>5, <2>6 DEF Runs
<1>4. NamesOf(name) = <<name>> /\ Tokens(proto_normalize_path(name)) = <<name>>
  BY <1>3, RunNames, NormalTokens
<1>5. name # Dots(2)
  <2> SUFFICES ASSUME name = Dots(2) PROVE FALSE
    OBVIOUS
  <2>1. Len(name) \in Nat /\ name = Dots(2)
    OBVIOUS
  <2>2. Dots(2) \in [1 .. 2 -> {"."}]
    BY DEF Dots
  <2>3. Len(Dots(2)) = 2 /\ Dots(2)[1] = "." /\ Dots(2)[2] = "."
    BY <2>2, FunctionIsSeq
  <2>4. 1 \in 1 .. Len(name) - 1
    <3>1. Len(name) = 2
      BY <2>1, <2>3
    <3> QED
      BY <3>1
  <2>5. ~ (name[1] = "." /\ name[1 + 1] = ".")
    BY <2>4, ValidIs
  <2> QED
    BY <2>1, <2>3, <2>5
<1>6. name \in Plain(NoBack(V))
  BY <1>3, <1>5 DEF Plain
<1>7. /\ Len(base) + 1 + Len(name) < MaxPath /\ Len(bs) + Len(<<name>>) <= MaxComponents
  BY <1>4 DEF FitsIn
<1>8. ds \in Seq(Plain(NoBack(V))) /\ Len(ds) <= MaxComponents
  <2>1. Len(<<name>>) = 1
    OBVIOUS
  <2> HIDE DEF bs
  <2>2. Len(ds) = Len(bs) + 1 /\ ds \in Seq(Plain(NoBack(V)))
    BY <1>1, <1>6, AppendProperties
  <2> QED
    BY <1>7, <2>1, <2>2
<1>9. IsJoined(Joined(base, name), base, name, V)
  BY <1>1, JoinedIs
<1>10. Join(base, name) = Joined(base, name)
  <2>1. Len(Joined(base, name)) \in Nat /\ Len(base) \in Nat /\ Len(name) \in Nat
        /\ Len(Joined(base, name)) <= Len(base) + 1 + Len(name) /\ MaxPath \in Nat
    BY <1>2, <1>9, SizesAreNat DEF IsJoined
  <2>2. Len(Joined(base, name)) < MaxPath
    BY <1>7, <2>1
  <2> QED
    BY <1>1, <2>2, JoinIs
<1>11. name[1] # "/"
  <2>1. 1 \in 1 .. Len(name) /\ \A i \in 1 .. Len(name) : name[i] # "/"
    BY <1>3 DEF Runs
  <2> QED
    BY <2>1
<1>12. NamesOf(Joined(base, name)) = ds
  <2>1. NamesOf(Joined(base, name)) = bs \o <<name>>
    BY <1>1, <1>4, <1>9, <1>11 DEF IsJoined
  <2> QED
    BY <1>1, <1>3, <2>1, AppendIsConcat
<1>13. Components(base, name) = ds
  BY <1>8, <1>10, <1>12, ResolvePlain DEF Components
<1>14. normalize_and_validate_path(base, name) = IF Sound(Build(ds)) THEN Build(ds) ELSE Refused
  BY <1>1, <1>13, NormalizeIs
<1>15. Build(ds) = IF bs = <<>> THEN sn ELSE base \o sn
  BY <1>1, <1>3, BuildSnoc
<1>16. CASE bs = <<>>
  <2>1. base = s
    BY <1>1, <1>16, RootIsSound
  <2>2. Build(ds) = sn
    BY <1>15, <1>16
  <2>3. Sound(<<>>)
    <3>1. Len(<<>>) = 0 /\ (\A i \in 2 .. 0 : FALSE) /\ (\A i \in 2 .. 0 - 1 : FALSE)
      OBVIOUS
    <3> QED
      BY <3>1 DEF Sound
  <2>4. <<>> \in Seq(V) /\ sn \in Seq(V) /\ <<>> \o sn = sn
    <3>1. sn \in Seq(V) /\ <<>> \in Seq(V)
      BY NamesJoin
    <3> HIDE DEF sn
    <3> QED
      BY <3>1, ConcatEmptySeq
  <2>5. Sound(<<>> \o sn)
    BY <2>3, <2>4, SoundMore
  <2>6. Sound(Build(ds))
    BY <2>2, <2>4, <2>5
  <2>7. normalize_and_validate_path(base, name) = sn
    BY <1>14, <2>2, <2>6
  <2> QED
    BY <2>1, <2>7
<1>17. CASE bs # <<>>
  <2>1. base # <<"/">>
    <3> SUFFICES ASSUME base = <<"/">> PROVE FALSE
      OBVIOUS
    <3>1. <<>> \in Seq(Runs(NoBack(V))) /\ Build(<<>>) = base
      BY RootIsSound
    <3>2. Tokens(base) = <<>>
      BY <3>1, BuildIs DEF IsBuilt
    <3> QED
      BY <1>17, <3>2
  <2>2. Build(ds) = base \o sn
    BY <1>15, <1>17
  <2>3. Sound(base \o sn)
    BY <1>1, <1>2, SoundMore
  <2>4. base \o s \o name = base \o sn
    BY <1>2, Assoc2
  <2>5. normalize_and_validate_path(base, name) = base \o sn
    BY <1>14, <2>2, <2>3
  <2> QED
    BY <2>1, <2>4, <2>5
<1> QED
  BY <1>16, <1>17

LEMMA Ones == \A x, y : <<x>> \o <<y>> = <<x, y>>
<1> SUFFICES ASSUME NEW x, NEW y PROVE <<x>> \o <<y>> = <<x, y>>
  OBVIOUS
<1> DEFINE T == {x, y}
           a == <<x>>
           b == <<y>>
           c == <<x, y>>
           d == a \o b
<1>1. a \in Seq(T) /\ b \in Seq(T) /\ c \in Seq(T) /\ Len(a) = 1 /\ Len(b) = 1 /\ Len(c) = 2
      /\ a[1] = x /\ b[1] = y /\ c[1] = x /\ c[2] = y
  OBVIOUS
<1> HIDE DEF a, b, c, T
<1>2. d \in Seq(T) /\ Len(d) = Len(a) + Len(b) /\ Is2(d, a, b)
  BY <1>1, Elements
<1> HIDE DEF d
<1>3. Len(d) = 2
  BY <1>1, <1>2
<1>4. 1 \in 1 .. 1 /\ 1 + 1 = 2 /\ \A i \in 1 .. 2 : i = 1 \/ i = 2
  OBVIOUS
<1>5. d[1] = x /\ d[2] = y
  BY <1>1, <1>2, <1>4 DEF Is2
<1>6. \A i \in 1 .. 2 : d[i] = c[i]
  BY <1>1, <1>4, <1>5
<1>7. d = c
  BY <1>1, <1>2, <1>3, <1>6, SeqEqual
<1> QED
  BY <1>7 DEF a, b, c, d

LEMMA Twos == \A x, y, z, w : <<x, y>> \o <<z, w>> = <<x, y, z, w>>
<1> SUFFICES ASSUME NEW x, NEW y, NEW z, NEW w PROVE <<x, y>> \o <<z, w>> = <<x, y, z, w>>
  OBVIOUS
<1> DEFINE T == {x, y, z, w}
           a == <<x, y>>
           b == <<z, w>>
           c == <<x, y, z, w>>
           d == a \o b
<1>1. a \in Seq(T) /\ b \in Seq(T) /\ c \in Seq(T) /\ Len(a) = 2 /\ Len(b) = 2 /\ Len(c) = 4
  OBVIOUS
<1>2. a[1] = x /\ a[2] = y /\ b[1] = z /\ b[2] = w
      /\ c[1] = x /\ c[2] = y /\ c[3] = z /\ c[4] = w
  OBVIOUS
<1> HIDE DEF a, b, c, T
<1>3. d \in Seq(T) /\ Len(d) = Len(a) + Len(b) /\ Is2(d, a, b)
  BY <1>1, Elements
<1> HIDE DEF d
<1>4. Len(d) = 4
  BY <1>1, <1>3
<1>5. 1 \in 1 .. 2 /\ 2 \in 1 .. 2 /\ 2 + 1 = 3 /\ 2 + 2 = 4
      /\ \A i \in 1 .. 4 : i = 1 \/ i = 2 \/ i = 3 \/ i = 4
  OBVIOUS
<1>6. d[1] = x /\ d[2] = y /\ d[3] = z /\ d[4] = w
  BY <1>1, <1>2, <1>3, <1>5 DEF Is2
<1>7. \A i \in 1 .. 4 : d[i] = c[i]
  BY <1>2, <1>5, <1>6
<1>8. d = c
  BY <1>1, <1>3, <1>4, <1>7, SeqEqual
<1> QED
  BY <1>8 DEF a, b, c, d

-----------------------------------------------------------------------------
(* Lines: the Telnet filter                                                *)

\* What one turn of the filter does.
FilterTurn(line, i) ==
    IF line[i] = "IAC" /\ i < Len(line)
    THEN [put  |-> IF line[i + 1] = "IAC" THEN <<"IAC">> ELSE <<>>,
          next |-> IF line[i + 1] \in TelnetCommands \cup {"IAC"} THEN i + 2 ELSE i + 3]
    ELSE [put  |-> IF line[i] \in {"IAC", "IP"} THEN <<>> ELSE <<line[i]>>,
          next |-> i + 1]

FilterTurns(line) == [i \in DOMAIN line |-> FilterTurn(line, i)]

LEMMA FilterTurnType ==
    ASSUME NEW V, "IAC" \in V, NEW line \in Seq(V), NEW i \in 1 .. Len(line)
    PROVE  FilterTurn(line, i) \in [put : Seq(V), next : Nat] /\ FilterTurn(line, i).next > i
<1>1. line[i] \in V /\ i \in Nat
  BY ElementOfSeq
<1>2. <<>> \in Seq(V) /\ <<"IAC">> \in Seq(V) /\ <<line[i]>> \in Seq(V)
  BY <1>1
<1>3. \A k \in {1, 2, 3} : i + k \in Nat /\ i + k > i
  BY <1>1
<1>4. \A put \in Seq(V), k \in {1, 2, 3} :
         /\ [put |-> put, next |-> i + k] \in [put : Seq(V), next : Nat]
         /\ [put |-> put, next |-> i + k].next > i
  BY <1>3
<1>5. CASE line[i] = "IAC" /\ i < Len(line)
  <2> DEFINE put == IF line[i + 1] = "IAC" THEN <<"IAC">> ELSE <<>>
             k == IF line[i + 1] \in TelnetCommands \cup {"IAC"} THEN 2 ELSE 3
  <2>1. put \in Seq(V) /\ k \in {1, 2, 3}
    BY <1>2
  <2>2. FilterTurn(line, i) = [put |-> put, next |-> i + k]
    BY <1>5 DEF FilterTurn
  <2> HIDE DEF put, k
  <2> QED
    BY <1>4, <2>1, <2>2
<1>6. CASE ~ (line[i] = "IAC" /\ i < Len(line))
  <2> DEFINE put == IF line[i] \in {"IAC", "IP"} THEN <<>> ELSE <<line[i]>>
  <2>1. put \in Seq(V) /\ 1 \in {1, 2, 3}
    BY <1>2
  <2>2. FilterTurn(line, i) = [put |-> put, next |-> i + 1]
    BY <1>6 DEF FilterTurn
  <2> HIDE DEF put
  <2> QED
    BY <1>4, <2>1, <2>2
<1> QED
  BY <1>5, <1>6

IsFilter(t, line, V) == /\ Moves(t, V) /\ Len(t) = Len(line) /\ Filter(line) = Written(t)
                        /\ \A i \in 1 .. Len(line) : t[i] = FilterTurn(line, i)

LEMMA FilterIs ==
    ASSUME NEW V, "IAC" \in V, NEW line \in Seq(V)
    PROVE  IsFilter(FilterTurns(line), line, V) /\ Filter(line) \in Seq(V)
<1> DEFINE n == Len(line)
           t == FilterTurns(line)
           T == [put : Seq(V), next : Nat]
<1>1. n \in Nat /\ DOMAIN line = 1 .. n
  BY LenProperties
<1>2. t = [i \in 1 .. n |-> FilterTurn(line, i)]
  BY <1>1 DEF FilterTurns
<1>3. \A i \in 1 .. n : FilterTurn(line, i) \in T /\ FilterTurn(line, i).next > i
  BY FilterTurnType
<1>4. Filter(line) = Written(t)
  BY DEF Filter, FilterTurns, FilterTurn
<1> HIDE DEF t, n, T
<1>5. t \in [1 .. n -> T]
  BY <1>2, <1>3
<1>6. t \in Seq(T) /\ Len(t) = n
  BY <1>1, <1>5, FunctionIsSeq
<1>7. \A i \in 1 .. n : t[i] = FilterTurn(line, i)
  BY <1>2
<1>8. Moves(t, V)
  BY <1>3, <1>6, <1>7 DEF Moves, T
<1>9. IsFilter(t, line, V)
  BY <1>4, <1>6, <1>7, <1>8 DEF IsFilter, n
<1>10. Filter(line) \in Seq(V)
  BY <1>4, <1>8, WrittenType
<1> QED
  BY <1>9, <1>10 DEF t

\* What is filtered of what comes later does not depend on what comes before.
LEMMA FilterShift ==
    ASSUME NEW V, "IAC" \in V, NEW a \in Seq(V), NEW b \in Seq(V)
    PROVE  WrittenFrom(FilterTurns(a \o b))[Len(a) + 1] = Filter(b)
<1> DEFINE c == a \o b
           n == Len(a)
           m == Len(b)
           u == FilterTurns(c)
           v == FilterTurns(b)
<1>1. n \in Nat /\ m \in Nat /\ c \in Seq(V) /\ Is2(c, a, b) /\ Len(c) = n + m
  BY Elements
<1>2. IsFilter(u, c, V) /\ IsFilter(v, b, V)
  BY <1>1, FilterIs
<1>3. \A i \in 1 .. m : c[n + i] = b[i]
  BY <1>1 DEF Is2
<1>4. Len(c) = n + m
  BY <1>1
<1> HIDE DEF c, u, v, n, m
<1>5. ASSUME NEW i \in 1 .. m
      PROVE  u[n + i].put = v[i].put /\ u[n + i].next = n + v[i].next
  <2>1. n + i \in 1 .. n + m /\ i \in Nat
    BY <1>1
  <2>2. u[n + i] = FilterTurn(c, n + i) /\ v[i] = FilterTurn(b, i)
    BY <1>2, <1>4, <2>1 DEF IsFilter, m
  <2>3. c[n + i] = b[i]
    BY <1>3
  <2>4. n + i < Len(c) <=> i < m
    BY <1>1, <1>4, <2>1
  <2>5. CASE b[i] = "IAC" /\ i < m
    <3>1. i + 1 \in 1 .. m /\ (n + i) + 1 = n + (i + 1)
      BY <1>1, <2>1, <2>5
    <3>2. c[(n + i) + 1] = b[i + 1]
      BY <1>3, <3>1
    <3> DEFINE put == IF b[i + 1] = "IAC" THEN <<"IAC">> ELSE <<>>
               Is == b[i + 1] \in TelnetCommands \cup {"IAC"}
    <3>3. v[i] = [put |-> put, next |-> IF Is THEN i + 2 ELSE i + 3]
      BY <2>2, <2>5 DEF FilterTurn, m
    <3>4. u[n + i] = [put |-> put, next |-> IF Is THEN n + i + 2 ELSE n + i + 3]
      BY <2>2, <2>3, <2>4, <2>5, <3>2 DEF FilterTurn
    <3> HIDE DEF put, Is
    <3>5. n + i + 2 = n + (i + 2) /\ n + i + 3 = n + (i + 3)
      BY <1>1, <2>1
    <3> QED
      BY <3>3, <3>4, <3>5
  <2>6. CASE ~ (b[i] = "IAC" /\ i < m)
    <3> DEFINE put == IF b[i] \in {"IAC", "IP"} THEN <<>> ELSE <<b[i]>>
    <3>1. v[i] = [put |-> put, next |-> i + 1]
      BY <2>2, <2>6 DEF FilterTurn, m
    <3>2. u[n + i] = [put |-> put, next |-> n + i + 1]
      BY <2>2, <2>3, <2>4, <2>6 DEF FilterTurn
    <3> HIDE DEF put
    <3>3. n + i + 1 = n + (i + 1)
      BY <1>1, <2>1
    <3> QED
      BY <3>1, <3>2, <3>3
  <2> QED
    BY <2>5, <2>6
<1>6. Len(u) = n + Len(v) /\ Len(v) = m /\ Moves(u, V) /\ Moves(v, V) /\ Filter(b) = Written(v)
  BY <1>2, <1>4 DEF IsFilter, m
<1>7. Shifted(u, v, n)
  BY <1>5, <1>6 DEF Shifted
<1>8. WrittenFrom(u)[n + 1] = Written(v)
  BY <1>1, <1>6, <1>7, WrittenShifted
<1> QED
  BY <1>6, <1>8 DEF u, c, n

LEMMA FilterNone == ASSUME NEW V, "IAC" \in V PROVE Filter(<<>>) = <<>>
<1>1. <<>> \in Seq(V) /\ Len(<<>>) = 0
  OBVIOUS
<1>2. IsFilter(FilterTurns(<<>>), <<>>, V)
  BY <1>1, FilterIs
<1> QED
  BY <1>1, <1>2, NoTurn DEF IsFilter

\* Whatever follows them, the bytes a are read as out.
Passes(a, out, V) == \A b \in Seq(V) : Filter(a \o b) = out \o Filter(b)

LEMMA UnitPasses ==
    ASSUME NEW V, "IAC" \in V, NEW a \in Seq(V), Len(a) > 0, NEW out \in Seq(V),
           \A b \in Seq(V) : FilterTurn(a \o b, 1) = [put |-> out, next |-> Len(a) + 1]
    PROVE  Passes(a, out, V)
<1> SUFFICES ASSUME NEW b \in Seq(V) PROVE Filter(a \o b) = out \o Filter(b)
  BY DEF Passes
<1> DEFINE c == a \o b
           u == FilterTurns(c)
<1>1. c \in Seq(V) /\ Len(c) = Len(a) + Len(b) /\ Len(a) \in Nat /\ Len(b) \in Nat
  BY Elements
<1>2. FilterTurn(c, 1) = [put |-> out, next |-> Len(a) + 1]
  OBVIOUS
<1>3. WrittenFrom(u)[Len(a) + 1] = Filter(b)
  BY FilterShift
<1> HIDE DEF c
<1>4. IsFilter(u, c, V)
  BY <1>1, FilterIs
<1>5. Len(c) > 0 /\ 1 \in 1 .. Len(c)
  BY <1>1
<1> HIDE DEF u
<1>6. u[1] = [put |-> out, next |-> Len(a) + 1] /\ Moves(u, V) /\ Len(u) > 0 /\ Filter(c) = Written(u)
  BY <1>2, <1>4, <1>5 DEF IsFilter
<1>7. Written(u) = u[1].put \o WrittenFrom(u)[u[1].next]
  BY <1>6, OneTurn
<1>8. u[1].put = out /\ u[1].next = Len(a) + 1
  BY <1>6
<1> QED
  BY <1>3, <1>6, <1>7, <1>8 DEF c

LEMMA PlainPasses ==
    ASSUME NEW V, "IAC" \in V, NEW x \in V, x # "IAC", x # "IP"
    PROVE  Passes(<<x>>, <<x>>, V)
<1> DEFINE a == <<x>>
<1>1. a \in Seq(V) /\ Len(a) = 1 /\ a[1] = x
  OBVIOUS
<1> HIDE DEF a
<1>2. ASSUME NEW b \in Seq(V) PROVE FilterTurn(a \o b, 1) = [put |-> a, next |-> Len(a) + 1]
  <2> DEFINE c == a \o b
  <2>1. Is2(c, a, b) /\ 1 \in 1 .. 1
    BY <1>1, Elements
  <2> HIDE DEF c
  <2>2. c[1] = x
    BY <1>1, <2>1 DEF Is2
  <2>3. FilterTurn(c, 1) = [put |-> <<x>>, next |-> 1 + 1]
    BY <2>2 DEF FilterTurn
  <2> QED
    BY <1>1, <2>3 DEF a, c
<1>3. Len(a) > 0
  BY <1>1
<1>4. Passes(a, a, V)
  BY <1>1, <1>2, <1>3, UnitPasses
<1> QED
  BY <1>4 DEF a

LEMMA IPPasses ==
    ASSUME NEW V, {"IAC", "IP"} \subseteq V
    PROVE  Passes(<<"IP">>, <<>>, V)
<1> DEFINE a == <<"IP">>
<1>1. a \in Seq(V) /\ Len(a) = 1 /\ a[1] = "IP" /\ "IAC" \in V /\ <<>> \in Seq(V)
  OBVIOUS
<1> HIDE DEF a
<1>2. ASSUME NEW b \in Seq(V) PROVE FilterTurn(a \o b, 1) = [put |-> <<>>, next |-> Len(a) + 1]
  <2> DEFINE c == a \o b
  <2>1. Is2(c, a, b) /\ 1 \in 1 .. 1
    BY <1>1, Elements
  <2> HIDE DEF c
  <2>2. c[1] = "IP"
    BY <1>1, <2>1 DEF Is2
  <2>3. FilterTurn(c, 1) = [put |-> <<>>, next |-> 1 + 1]
    BY <2>2 DEF FilterTurn
  <2> QED
    BY <1>1, <2>3 DEF c
<1>3. Len(a) > 0
  BY <1>1
<1>4. Passes(a, <<>>, V)
  BY <1>1, <1>2, <1>3, UnitPasses
<1> QED
  BY <1>4 DEF a

LEMMA EscapePasses ==
    ASSUME NEW V, "IAC" \in V, NEW x \in V, x \in TelnetCommands \cup {"IAC"}
    PROVE  Passes(<<"IAC", x>>, IF x = "IAC" THEN <<"IAC">> ELSE <<>>, V)
<1> DEFINE a == <<"IAC", x>>
           out == IF x = "IAC" THEN <<"IAC">> ELSE <<>>
<1>1. a \in Seq(V) /\ Len(a) = 2 /\ a[1] = "IAC" /\ a[2] = x /\ out \in Seq(V)
  OBVIOUS
<1> HIDE DEF a
<1>2. ASSUME NEW b \in Seq(V) PROVE FilterTurn(a \o b, 1) = [put |-> out, next |-> Len(a) + 1]
  <2> DEFINE c == a \o b
  <2>1. Is2(c, a, b) /\ Len(c) = Len(a) + Len(b) /\ Len(b) \in Nat
    BY <1>1, Elements
  <2> HIDE DEF c
  <2>2. c[1] = "IAC" /\ c[1 + 1] = x
    <3>1. 1 \in 1 .. 2 /\ 2 \in 1 .. 2 /\ 1 + 1 = 2
      OBVIOUS
    <3> QED
      BY <1>1, <2>1, <3>1 DEF Is2
  <2>3. 1 < Len(c)
    <3>1. Len(a) = 2
      BY <1>1
    <3> QED
      BY <2>1, <3>1
  <2>4. FilterTurn(c, 1) = [put |-> out, next |-> 1 + 2]
    BY <2>2, <2>3 DEF FilterTurn
  <2> HIDE DEF out
  <2> QED
    BY <1>1, <2>4 DEF c
<1>3. Len(a) > 0
  BY <1>1
<1> HIDE DEF out
<1>4. Passes(a, out, V)
  BY <1>1, <1>2, <1>3, UnitPasses
<1> QED
  BY <1>4 DEF a, out

LEMMA PassesBoth ==
    ASSUME NEW V, "IAC" \in V, NEW a1 \in Seq(V), NEW o1 \in Seq(V), NEW a2 \in Seq(V),
           NEW o2 \in Seq(V), Passes(a1, o1, V), Passes(a2, o2, V)
    PROVE  Passes(a1 \o a2, o1 \o o2, V)
<1> SUFFICES ASSUME NEW b \in Seq(V) PROVE Filter((a1 \o a2) \o b) = (o1 \o o2) \o Filter(b)
  BY DEF Passes
<1>1. Associate(a1, a2, b)
  BY Assoc
<1>2. Filter(b) \in Seq(V)
  BY FilterIs
<1>3. Associate(o1, o2, Filter(b))
  BY <1>2, Assoc
<1>4. a2 \o b \in Seq(V)
  BY Elements
<1>5. Filter(a1 \o (a2 \o b)) = o1 \o Filter(a2 \o b)
  BY <1>4 DEF Passes
<1>6. Filter(a2 \o b) = o2 \o Filter(b)
  BY DEF Passes
<1> QED
  BY <1>1, <1>3, <1>5, <1>6 DEF Associate

\* Each element of a sequence by its image.
Mapped(f, s) == [k \in DOMAIN s |-> f[s[k]]]

IsMapped(t, f, s, U) == /\ t \in Seq(U) /\ Len(t) = Len(s)
                        /\ \A k \in 1 .. Len(s) : t[k] = f[s[k]]

LEMMA MappedType ==
    ASSUME NEW T, NEW U, NEW f \in [T -> U], NEW s \in Seq(T)
    PROVE  IsMapped(Mapped(f, s), f, s, U) /\ Mapped(f, s) \in Seq(U)
<1> DEFINE n == Len(s)
           t == Mapped(f, s)
<1>1. n \in Nat /\ DOMAIN s = 1 .. n /\ \A k \in 1 .. n : s[k] \in T
  BY LenProperties, ElementOfSeq
<1>2. t = [k \in 1 .. n |-> f[s[k]]]
  BY <1>1 DEF Mapped
<1> HIDE DEF t, n
<1>3. t \in [1 .. n -> U]
  BY <1>1, <1>2
<1>4. t \in Seq(U) /\ Len(t) = n
  BY <1>1, <1>3, FunctionIsSeq
<1>5. IsMapped(t, f, s, U)
  BY <1>2, <1>4 DEF IsMapped, n
<1> QED
  BY <1>4, <1>5 DEF t

LEMMA MappedSnoc ==
    ASSUME NEW T, NEW U, NEW f \in [T -> U], NEW s \in Seq(T), NEW x \in T
    PROVE  Mapped(f, Append(s, x)) = Append(Mapped(f, s), f[x])
<1> DEFINE n == Len(s)
           more == Append(s, x)
           l == Mapped(f, more)
           r == Append(Mapped(f, s), f[x])
<1>1. /\ n \in Nat /\ more \in Seq(T) /\ Len(more) = n + 1
      /\ (\A k \in 1 .. n : more[k] = s[k]) /\ more[n + 1] = x
  BY AppendProperties
<1>2. f[x] \in U
  OBVIOUS
<1> HIDE DEF more
<1>3. l \in Seq(U) /\ Len(l) = n + 1 /\ \A k \in 1 .. n + 1 : l[k] = f[more[k]]
  <2>1. IsMapped(l, f, more, U)
    BY <1>1, MappedType
  <2> HIDE DEF l, n
  <2> QED
    BY <1>1, <2>1 DEF IsMapped
<1>4. /\ Mapped(f, s) \in Seq(U) /\ Len(Mapped(f, s)) = n
      /\ \A k \in 1 .. n : Mapped(f, s)[k] = f[s[k]]
  <2>1. IsMapped(Mapped(f, s), f, s, U)
    BY MappedType
  <2> QED
    BY <2>1 DEF IsMapped
<1>5. /\ r \in Seq(U) /\ Len(r) = n + 1
      /\ (\A k \in 1 .. n : r[k] = f[s[k]]) /\ r[n + 1] = f[x]
  BY <1>2, <1>4, AppendProperties
<1> HIDE DEF l, r, n
<1>6. \A k \in 1 .. n + 1 : k \in 1 .. n \/ k = n + 1
  BY <1>1
<1>7. \A k \in 1 .. n + 1 : l[k] = r[k]
  BY <1>1, <1>3, <1>5, <1>6
<1>8. l = r
  BY <1>3, <1>5, <1>7, SeqEqual
<1> QED
  BY <1>8 DEF l, r, more

LEMMA MappedNone == ASSUME NEW f PROVE Mapped(f, <<>>) = <<>>
  BY DEF Mapped

\* What the client writes for one byte of the text.
Escape(V) == [x \in V |-> IF x = "IAC" THEN <<"IAC", "IAC">> ELSE <<x>>]

LEMMA EscapeType == ASSUME NEW V, "IAC" \in V PROVE Escape(V) \in [V -> Seq(V)]
<1>1. \A x \in V : <<x>> \in Seq(V)
  OBVIOUS
<1>2. <<"IAC", "IAC">> \in Seq(V)
  OBVIOUS
<1> QED
  BY <1>1, <1>2 DEF Escape

LEMMA EscapedIs ==
    ASSUME NEW V, "IAC" \in V, NEW text \in Seq(V)
    PROVE  Escaped(text) = Concat(Mapped(Escape(V), text)) /\ Escaped(text) \in Seq(V)
<1>1. Escape(V) \in [V -> Seq(V)]
  BY EscapeType
<1>2. DOMAIN text = 1 .. Len(text) /\ \A i \in 1 .. Len(text) : text[i] \in V
  BY LenProperties, ElementOfSeq
<1>3. \A i \in DOMAIN text : Escape(V)[text[i]] = IF text[i] = "IAC" THEN <<"IAC", "IAC">> ELSE <<text[i]>>
  BY <1>2 DEF Escape
<1>4. Mapped(Escape(V), text)
        = [i \in DOMAIN text |-> IF text[i] = "IAC" THEN <<"IAC", "IAC">> ELSE <<text[i]>>]
  BY <1>3 DEF Mapped
<1>5. Escaped(text) = Concat(Mapped(Escape(V), text))
  BY <1>4 DEF Escaped
<1>6. Mapped(Escape(V), text) \in Seq(Seq(V))
  BY <1>1, MappedType
<1> QED
  BY <1>5, <1>6, ConcatType

LEMMA EscapedNone == ASSUME NEW V, "IAC" \in V PROVE Escaped(<<>>) = <<>>
<1>1. <<>> \in Seq(V)
  OBVIOUS
<1>2. Mapped(Escape(V), <<>>) = <<>> /\ Concat(<<>>) = <<>>
  BY MappedNone, ConcatNone
<1> QED
  BY <1>1, <1>2, EscapedIs

LEMMA EscapedSnoc ==
    ASSUME NEW V, "IAC" \in V, NEW text \in Seq(V), NEW x \in V
    PROVE  Escaped(Append(text, x)) = Escaped(text) \o Escape(V)[x]
<1> DEFINE f == Escape(V)
           parts == Mapped(f, text)
           more == Append(text, x)
<1>1. f \in [V -> Seq(V)] /\ f[x] \in Seq(V)
  BY EscapeType
<1>2. more \in Seq(V)
  BY AppendProperties
<1>3. Escaped(text) = Concat(parts)
  BY EscapedIs
<1> HIDE DEF f, more
<1>4. Escaped(more) = Concat(Mapped(f, more))
  BY <1>2, EscapedIs DEF f
<1>5. Mapped(f, more) = Append(parts, f[x])
  BY <1>1, MappedSnoc DEF more
<1>6. parts \in Seq(Seq(V))
  BY <1>1, MappedType
<1> HIDE DEF parts
<1>7. Concat(Append(parts, f[x])) = Concat(parts) \o f[x]
  BY <1>1, <1>6, ConcatSnoc
<1> QED
  BY <1>3, <1>4, <1>5, <1>7 DEF f, more

LEMMA NothingPasses == ASSUME NEW V, "IAC" \in V PROVE Passes(<<>>, <<>>, V)
<1>1. ASSUME NEW b \in Seq(V) PROVE Filter(<<>> \o b) = <<>> \o Filter(b)
  <2>1. <<>> \o b = b
    BY ConcatEmptySeq
  <2>2. Filter(b) \in Seq(V)
    BY FilterIs
  <2>3. <<>> \o Filter(b) = Filter(b)
    BY <2>2, ConcatEmptySeq
  <2> QED
    BY <2>1, <2>3
<1> QED
  BY <1>1 DEF Passes

\* Escaping is undone.
LEMMA EscapedPasses ==
    ASSUME NEW V, "IAC" \in V, NEW text \in Seq(V \ {"IP"})
    PROVE  Escaped(text) \in Seq(V) /\ Passes(Escaped(text), text, V)
<1> DEFINE W == V \ {"IP"}
           S == {t \in Seq(W) : Escaped(t) \in Seq(V) /\ Passes(Escaped(t), t, V)}
<1>1. W \subseteq V /\ "IAC" \in W
  OBVIOUS
<1>2. <<>> \in S
  <2>1. <<>> \in Seq(W) /\ <<>> \in Seq(V) /\ Escaped(<<>>) = <<>>
    BY EscapedNone
  <2>3. Passes(<<>>, <<>>, V)
    BY NothingPasses
  <2> QED
    BY <2>1, <2>3
<1>3. ASSUME NEW t \in Seq(W), NEW x \in W, t \in S PROVE Append(t, x) \in S
  <2>1. t \in Seq(V) /\ x \in V /\ x # "IP" /\ Append(t, x) \in Seq(W) /\ Escaped(t) \in Seq(V)
    BY <1>1, <1>3, SeqMonotonic, AppendProperties
  <2>2. Passes(Escaped(t), t, V)
    BY <1>3
  <2> DEFINE e == Escape(V)[x]
             o == <<x>>
             et == Escaped(t)
  <2>3. e \in Seq(V) /\ o \in Seq(V)
    BY <2>1, EscapeType
  <2>4. Passes(e, o, V)
    <3>1. CASE x = "IAC"
      <4>1. e = <<"IAC", x>> /\ o = <<"IAC">>
        BY <2>1, <3>1 DEF Escape
      <4>2. Passes(<<"IAC", x>>, IF x = "IAC" THEN <<"IAC">> ELSE <<>>, V)
        BY <2>1, <3>1, EscapePasses
      <4>3. Passes(<<"IAC", x>>, <<"IAC">>, V)
        BY <3>1, <4>2
      <4> HIDE DEF e, o
      <4> QED
        BY <4>1, <4>3
    <3>2. CASE x # "IAC"
      <4>1. e = <<x>>
        BY <2>1, <3>2 DEF Escape
      <4>2. Passes(<<x>>, <<x>>, V)
        BY <2>1, <3>2, PlainPasses
      <4> HIDE DEF e
      <4> QED
        BY <4>1, <4>2 DEF o
    <3> QED
      BY <3>1, <3>2
  <2> HIDE DEF e, o, et
  <2>5. Passes(et \o e, t \o o, V)
    BY <2>1, <2>2, <2>3, <2>4, PassesBoth DEF et
  <2>6. Escaped(Append(t, x)) = et \o e
    BY <2>1, EscapedSnoc DEF et, e
  <2>7. Append(t, x) = t \o o
    BY <2>1, AppendIsConcat DEF o
  <2>8. et \o e \in Seq(V)
    BY <2>1, <2>3, Elements DEF et
  <2> HIDE DEF W
  <2>9. Escaped(Append(t, x)) \in Seq(V) /\ Passes(Escaped(Append(t, x)), Append(t, x), V)
    BY <2>5, <2>6, <2>7, <2>8
  <2> QED
    BY <2>1, <2>9
<1>4. Grows(S, W)
  <2> HIDE DEF S, W
  <2> QED
    BY <1>2, <1>3 DEF Grows
<1>5. text \in S
  <2> HIDE DEF S
  <2> QED
    BY <1>4, SnocInduction
<1> QED
  BY <1>5

\* A signal: Telnet's "interrupt process", with or without its IAC, and "data
\* mark", any number of times.
SignalUnits == {<<"IP">>, <<"IAC", "IP">>, <<"IAC", "DM">>}
IsSignal(s) == \E us \in Seq(SignalUnits) : s = Concat(us)
SignalBytes == {"IAC", "IP", "DM"}

LEMMA SignalPasses ==
    ASSUME NEW V, SignalBytes \subseteq V, NEW s, IsSignal(s)
    PROVE  s \in Seq(SignalBytes) /\ Passes(s, <<>>, V)
<1> DEFINE B == SignalBytes
           S == {us \in Seq(SignalUnits) : Concat(us) \in Seq(B) /\ Passes(Concat(us), <<>>, V)}
<1>1. "IAC" \in V /\ "IP" \in V /\ "DM" \in V
  BY DEF SignalBytes
<1>2. SignalUnits \subseteq Seq(B)
  BY DEF SignalUnits, SignalBytes
<1>3. \A u \in SignalUnits : Passes(u, <<>>, V)
  <2>1. {"IAC", "IP"} \subseteq V
    BY <1>1
  <2>2. Passes(<<"IP">>, <<>>, V)
    BY <2>1, IPPasses
  <2>3. "IP" \in TelnetCommands \cup {"IAC"} /\ "DM" \in TelnetCommands \cup {"IAC"}
    BY TelnetHasSignals
  <2>4. Passes(<<"IAC", "IP">>, IF "IP" = "IAC" THEN <<"IAC">> ELSE <<>>, V)
    BY <1>1, <2>3, EscapePasses
  <2>5. Passes(<<"IAC", "DM">>, IF "DM" = "IAC" THEN <<"IAC">> ELSE <<>>, V)
    BY <1>1, <2>3, EscapePasses
  <2>6. Passes(<<"IAC", "IP">>, <<>>, V) /\ Passes(<<"IAC", "DM">>, <<>>, V)
    BY <2>4, <2>5
  <2> QED
    BY <2>2, <2>6 DEF SignalUnits
<1>4. <<>> \in S
  <2>1. <<>> \in Seq(SignalUnits) /\ Concat(<<>>) = <<>> /\ <<>> \in Seq(B)
    BY ConcatNone
  <2>2. Passes(<<>>, <<>>, V)
    BY <1>1, NothingPasses
  <2> QED
    BY <2>1, <2>2
<1>5. ASSUME NEW us \in Seq(SignalUnits), NEW u \in SignalUnits, us \in S
      PROVE  Append(us, u) \in S
  <2> DEFINE c == Concat(us)
  <2>1. us \in Seq(Seq(B)) /\ u \in Seq(B)
    BY <1>2, SeqMonotonic
  <2>2. Concat(Append(us, u)) = c \o u
    BY <2>1, ConcatSnoc
  <2>3. c \in Seq(B) /\ Passes(c, <<>>, V)
    BY <1>5
  <2> HIDE DEF c, B
  <2>4. c \o u \in Seq(B)
    BY <2>1, <2>3, Elements
  <2>5. c \in Seq(V) /\ u \in Seq(V) /\ <<>> \in Seq(V)
    BY <2>1, <2>3, SeqMonotonic DEF B
  <2>6. Passes(c \o u, <<>> \o <<>>, V)
    BY <1>1, <1>3, <2>3, <2>5, PassesBoth
  <2>7. <<>> \o <<>> = <<>>
    BY <2>5, ConcatEmptySeq
  <2>8. Append(us, u) \in Seq(SignalUnits)
    BY AppendProperties
  <2>9. Passes(c \o u, <<>>, V)
    BY <2>6, <2>7
  <2> QED
    BY <2>2, <2>4, <2>8, <2>9
<1>6. Grows(S, SignalUnits)
  <2> HIDE DEF S
  <2> QED
    BY <1>4, <1>5 DEF Grows
<1>7. PICK us \in Seq(SignalUnits) : s = Concat(us)
  BY DEF IsSignal
<1>8. us \in S
  <2> HIDE DEF S
  <2> QED
    BY <1>6, SnocInduction
<1> QED
  BY <1>7, <1>8

\* The bytes of a line that neither end it nor the string it is in.
Quiet(V) == V \ {"CR", "LF", "NUL"}

\* A command as it is typed: a name of no spaces, an argument that neither
\* begins nor ends with one, and a signal somewhere.
IsTyped(c, V) ==
    /\ c.name \in Seq(Quiet(V) \ {"IP", "SP"}) /\ c.name # <<>>
    /\ c.argument \in Seq(Quiet(V) \ {"IP"})
    /\ c.argument # <<>> => c.argument[1] # "SP" /\ c.argument[Len(c.argument)] # "SP"
    /\ IsSignal(c.signal) /\ c.at \in 1 .. Len(Text(c)) + 1

Telnet == {"CR", "LF", "SP", "IAC", "IP", "DM"}

IsText(text, V) == /\ text \in Seq(Quiet(V) \ {"IP"}) /\ Len(text) \in Nat /\ Len(text) > 0
                   /\ text[1] # "SP" /\ text[Len(text)] # "SP"

LEMMA TextIs ==
    ASSUME NEW V, Telnet \subseteq V, NEW c, IsTyped(c, V)
    PROVE  IsText(Text(c), V)
<1> DEFINE W == Quiet(V) \ {"IP"}
           a == c.name
           b == c.argument
           s == <<"SP">>
           sb == s \o b
           t == Text(c)
<1>1. /\ a \in Seq(Quiet(V) \ {"IP", "SP"}) /\ a # <<>> /\ b \in Seq(W)
      /\ b # <<>> => b[1] # "SP" /\ b[Len(b)] # "SP"
  BY DEF IsTyped
<1>2. Quiet(V) \ {"IP", "SP"} \subseteq W /\ "SP" \in W
  BY DEF Quiet, Telnet
<1>3. a \in Seq(W)
  BY <1>1, <1>2, SeqMonotonic
<1>4. s \in Seq(W) /\ Len(s) = 1
  BY <1>2
<1>5. t = IF b = <<>> THEN a ELSE (a \o s) \o b
  BY DEF Text
<1>6. Len(a) \in Nat /\ Len(a) > 0 /\ \A i \in 1 .. Len(a) : a[i] # "SP"
  <2>1. Len(a) \in Nat /\ Len(a) # 0
    BY <1>1, EmptySeq
  <2>2. \A i \in 1 .. Len(a) : a[i] \in Quiet(V) \ {"IP", "SP"}
    BY <1>1, ElementOfSeq
  <2> QED
    BY <2>1, <2>2
<1> HIDE DEF W, a, b, s, t
<1>7. CASE b = <<>>
  <2>1. 1 \in 1 .. Len(a) /\ Len(a) \in 1 .. Len(a)
    BY <1>6
  <2>2. t = a
    BY <1>5, <1>7
  <2> QED
    BY <1>3, <1>6, <2>1, <2>2 DEF IsText, t, W
<1>8. CASE b # <<>>
  <2>1. Len(b) \in Nat /\ Len(b) # 0
    BY <1>1, <1>8, EmptySeq
  <2>2. Associate(a, s, b)
    BY <1>1, <1>3, <1>4, Assoc
  <2>3. t = a \o sb
    BY <1>5, <1>8, <2>2 DEF Associate
  <2>4. sb \in Seq(W) /\ Is2(sb, s, b) /\ Len(sb) = Len(s) + Len(b)
    BY <1>1, <1>4, Elements
  <2> HIDE DEF sb
  <2>5. Len(sb) = 1 + Len(b)
    BY <1>4, <2>4
  <2>6. t \in Seq(W) /\ Is2(t, a, sb) /\ Len(t) = Len(a) + Len(sb)
    BY <1>3, <2>3, <2>4, Elements
  <2>7. Len(t) = Len(a) + (1 + Len(b))
    BY <2>5, <2>6
  <2>8. t[1] = a[1]
    <3>1. 1 \in 1 .. Len(a)
      BY <1>6
    <3> QED
      BY <2>6, <3>1 DEF Is2
  <2>9. t[Len(t)] = b[Len(b)]
    <3>1. Len(b) \in 1 .. Len(b) /\ 1 + Len(b) \in 1 .. Len(sb)
      BY <2>1, <2>5
    <3>2. t[Len(a) + (1 + Len(b))] = sb[1 + Len(b)]
      BY <2>6, <3>1 DEF Is2
    <3>3. sb[Len(s) + Len(b)] = b[Len(b)]
      BY <2>4, <3>1 DEF Is2
    <3>4. Len(s) + Len(b) = 1 + Len(b)
      BY <1>4
    <3> QED
      BY <2>7, <3>2, <3>3, <3>4
  <2>10. Len(t) \in Nat /\ Len(t) > 0
    BY <1>6, <2>1, <2>7
  <2>11. t[1] # "SP" /\ t[Len(t)] # "SP"
    <3>1. 1 \in 1 .. Len(a)
      BY <1>6
    <3> QED
      BY <1>1, <1>6, <1>8, <2>8, <2>9, <3>1
  <2> QED
    BY <2>6, <2>10, <2>11 DEF IsText, t, W
<1> QED
  BY <1>7, <1>8

LEMMA FilterCrlf ==
    ASSUME NEW V, Telnet \subseteq V
    PROVE  Crlf \in Seq(V) /\ Filter(Crlf) = Crlf
<1>1. "IAC" \in V /\ "CR" \in V /\ "LF" \in V /\ "CR" \notin {"IAC", "IP"} /\ "LF" \notin {"IAC", "IP"}
  BY DEF Telnet
<1>2. Passes(<<"CR">>, <<"CR">>, V) /\ Passes(<<"LF">>, <<"LF">>, V)
  BY <1>1, PlainPasses
<1>3. <<"CR">> \in Seq(V) /\ <<"LF">> \in Seq(V) /\ Crlf \in Seq(V)
  BY <1>1 DEF Crlf
<1>4. <<"CR">> \o <<"LF">> = Crlf
  BY Ones DEF Crlf
<1>5. Passes(<<"CR">> \o <<"LF">>, <<"CR">> \o <<"LF">>, V)
  BY <1>1, <1>2, <1>3, PassesBoth
<1>6. Passes(Crlf, Crlf, V)
  BY <1>4, <1>5
<1>7. <<>> \in Seq(V) /\ Crlf \o <<>> = Crlf /\ Filter(<<>>) = <<>>
  BY <1>1, <1>3, ConcatEmptySeq, FilterNone
<1>8. Filter(Crlf \o <<>>) = Crlf \o Filter(<<>>)
  BY <1>6, <1>7 DEF Passes
<1> QED
  BY <1>3, <1>7, <1>8

\* What is sent for a command, before the end of its line.
Body(c) == Escaped(SubSeq(Text(c), 1, c.at - 1)) \o c.signal
               \o Escaped(SubSeq(Text(c), c.at, Len(Text(c))))

IsBody(body, c, V) == /\ Sent(c) = body \o Crlf /\ body \in Seq(Quiet(V))
                      /\ Passes(body, Text(c), V)

LEMMA BodyIs ==
    ASSUME NEW V, Telnet \subseteq V, NEW c, IsTyped(c, V)
    PROVE  IsBody(Body(c), c, V)
<1> DEFINE W == Quiet(V) \ {"IP"}
           Q == Quiet(V)
           t == Text(c)
           n == Len(t)
           e == c.at - 1
           t1 == SubSeq(t, 1, e)
           t2 == SubSeq(t, e + 1, n)
           s == c.signal
           a == Escaped(t1)
           b == Escaped(t2)
<1>1. t \in Seq(W) /\ n \in Nat
  BY TextIs DEF IsText
<1>2. c.at \in 1 .. n + 1 /\ IsSignal(s)
  BY DEF IsTyped
<1>3. e \in 0 .. n /\ e + 1 = c.at
  BY <1>1, <1>2
<1>4. /\ Q \subseteq V /\ W \subseteq Q /\ W \subseteq V \ {"IP"} /\ W \subseteq V /\ "IAC" \in V
      /\ "IAC" \in Q /\ SignalBytes \subseteq Q /\ SignalBytes \subseteq V
  BY DEF Quiet, Telnet, SignalBytes
<1>5. Body(c) = (a \o s) \o b /\ Sent(c) = ((a \o s) \o b) \o Crlf
  BY <1>3 DEF Body, Sent
<1> HIDE DEF t, n, e
<1>6. t1 \in Seq(W) /\ t2 \in Seq(W) /\ t1 \o t2 = t
  BY <1>1, <1>3, SplitAt DEF n
<1> HIDE DEF t1, t2, s, W, Q
<1>7. t1 \in Seq(V \ {"IP"}) /\ t2 \in Seq(V \ {"IP"}) /\ t1 \in Seq(Q) /\ t2 \in Seq(Q)
      /\ t1 \in Seq(V) /\ t2 \in Seq(V)
  BY <1>4, <1>6, SeqMonotonic
<1>8. Passes(a, t1, V) /\ Passes(b, t2, V)
  BY <1>4, <1>7, EscapedPasses
<1>9. a \in Seq(Q) /\ b \in Seq(Q)
  BY <1>4, <1>7, EscapedIs
<1>10. s \in Seq(SignalBytes) /\ Passes(s, <<>>, V)
  BY <1>2, <1>4, SignalPasses
<1>11. s \in Seq(Q)
  BY <1>4, <1>10, SeqMonotonic
<1>12. a \in Seq(V) /\ b \in Seq(V) /\ s \in Seq(V)
  BY <1>4, <1>9, <1>11, SeqMonotonic
<1> HIDE DEF a, b
<1> DEFINE as == a \o s
           body == as \o b
<1>13. as \in Seq(Q) /\ as \in Seq(V)
  BY <1>9, <1>11, <1>12, Elements
<1>14. Passes(as, t1, V)
  <2>1. <<>> \in Seq(V) /\ t1 \o <<>> = t1
    BY <1>7, ConcatEmptySeq
  <2>2. Passes(a \o s, t1 \o <<>>, V)
    BY <1>4, <1>7, <1>8, <1>10, <1>12, <2>1, PassesBoth
  <2> QED
    BY <2>1, <2>2
<1> HIDE DEF as
<1>15. Passes(body, t1 \o t2, V)
  BY <1>4, <1>7, <1>8, <1>12, <1>13, <1>14, PassesBoth
<1>16. body \in Seq(Q)
  BY <1>9, <1>13, Elements
<1>17. Body(c) = body /\ Sent(c) = body \o Crlf
  BY <1>5 DEF as
<1> HIDE DEF body
<1>18. Passes(body, Text(c), V)
  BY <1>6, <1>15 DEF t
<1> QED
  BY <1>16, <1>17, <1>18 DEF IsBody, Q

LEMMA FilterSent ==
    ASSUME NEW V, Telnet \subseteq V, NEW c, IsTyped(c, V)
    PROVE  Filter(Sent(c)) = Text(c) \o Crlf
<1>1. IsBody(Body(c), c, V)
  BY BodyIs
<1>2. Crlf \in Seq(V) /\ Filter(Crlf) = Crlf
  BY FilterCrlf
<1>3. Filter(Body(c) \o Crlf) = Text(c) \o Filter(Crlf)
  BY <1>1, <1>2 DEF IsBody, Passes
<1> QED
  BY <1>1, <1>2, <1>3 DEF IsBody

-----------------------------------------------------------------------------
(* Lines: the parts of a line                                              *)

LEMMA PrefixOf ==
    ASSUME NEW V, NEW a \in Seq(V), NEW b \in Seq(V)
    PROVE  /\ SubSeq(a \o b, 1, Len(a)) = a
           /\ SubSeq(a \o b, Len(a) + 1, Len(a \o b)) = b
<1> DEFINE c == a \o b
           n == Len(a)
           m == Len(b)
           x == SubSeq(c, 1, n)
           y == SubSeq(c, n + 1, Len(c))
<1>1. c \in Seq(V) /\ Is2(c, a, b) /\ Len(c) = n + m /\ n \in Nat /\ m \in Nat
  BY Elements
<1> HIDE DEF c
<1>2. (\A i \in 1 .. n : c[i] = a[i]) /\ \A i \in 1 .. m : c[n + i] = b[i]
  BY <1>1 DEF Is2
<1> HIDE DEF n, m
<1>3. n \in 0 .. Len(c)
  BY <1>1
<1>4. x \in Seq(V) /\ IsPart(x, c, 0, n) /\ y \in Seq(V) /\ IsPart(y, c, n, Len(c))
  BY <1>1, <1>3, SplitAt
<1> HIDE DEF x, y
<1>5. n - 0 = n /\ Len(c) - n = m /\ \A i \in 1 .. n : 0 + i = i
  BY <1>1
<1>6. Len(x) = n /\ \A i \in 1 .. n : x[i] = c[i]
  BY <1>4, <1>5 DEF IsPart
<1>7. Len(y) = m /\ \A i \in 1 .. m : y[i] = c[n + i]
  BY <1>4, <1>5 DEF IsPart
<1>8. \A i \in 1 .. n : x[i] = a[i]
  BY <1>2, <1>6
<1>9. \A i \in 1 .. m : y[i] = b[i]
  BY <1>2, <1>7
<1>10. x = a
  BY <1>4, <1>6, <1>8, SeqEqual DEF n
<1>11. y = b
  BY <1>4, <1>7, <1>9, SeqEqual DEF m
<1> QED
  BY <1>10, <1>11 DEF x, y, c, n

LEMMA FirstAll ==
    ASSUME NEW V, NEW s \in Seq(V), NEW n \in Nat, Len(s) <= n
    PROVE  First(s, n) = s
<1>1. Len(s) \in Nat
  OBVIOUS
<1>2. {n, Len(s)} \in SUBSET Nat /\ Len(s) \in {n, Len(s)} /\ \A y \in {n, Len(s)} : Len(s) <= y
  BY <1>1
<1>3. Min({n, Len(s)}) = Len(s)
  BY <1>2, MinIs
<1> QED
  BY <1>3, SubSeqFull DEF First

LEMMA FirstPart ==
    ASSUME NEW V, NEW a \in Seq(V), NEW b \in Seq(V)
    PROVE  First(a \o b, Len(a)) = a
<1> DEFINE c == a \o b
           n == Len(a)
           m == Len(c)
<1>1. n \in Nat /\ m \in Nat /\ n <= m
  <2>1. Len(c) = Len(a) + Len(b) /\ Len(a) \in Nat /\ Len(b) \in Nat
    BY Elements
  <2> HIDE DEF c
  <2> QED
    BY <2>1
<1>2. SubSeq(c, 1, n) = a
  BY PrefixOf
<1> HIDE DEF c, n, m
<1>3. {n, m} \in SUBSET Nat /\ n \in {n, m} /\ \A y \in {n, m} : n <= y
  BY <1>1
<1>4. Min({n, m}) = n
  BY <1>3, MinIs
<1>5. First(c, n) = a
  BY <1>2, <1>4 DEF First, m
<1> QED
  BY <1>5 DEF c, n

\* The length of what is before the first of the places J, if there is one.
Before1(J, n) == Min({i - 1 : i \in J} \cup {n})

LEMMA NothingBefore ==
    ASSUME NEW n \in Nat
    PROVE  Before1({}, n) = n
<1>1. {i - 1 : i \in {}} \cup {n} = {n}
  OBVIOUS
<1>2. {n} \in SUBSET Nat /\ n \in {n} /\ \A y \in {n} : n <= y
  OBVIOUS
<1>3. Min({n}) = n
  BY <1>2, MinIs
<1> QED
  BY <1>1, <1>3 DEF Before1

LEMMA LeastBefore ==
    ASSUME NEW n \in Nat, NEW J \in SUBSET (1 .. n), NEW k \in J, \A j \in J : k <= j
    PROVE  Before1(J, n) = k - 1
<1> DEFINE S == {i - 1 : i \in J} \cup {n}
<1>1. \A j \in J : j \in 1 .. n /\ j - 1 \in Nat /\ j - 1 <= n /\ k - 1 <= j - 1
  OBVIOUS
<1>2. S \in SUBSET Nat
  BY <1>1
<1>3. k - 1 \in S
  OBVIOUS
<1>4. \A y \in S : k - 1 <= y
  BY <1>1
<1> HIDE DEF S
<1>5. Min(S) = k - 1
  BY <1>2, <1>3, <1>4, MinIs
<1> QED
  BY <1>5 DEF S, Before1

LEMMA UpToNone ==
    ASSUME NEW V, NEW s \in Seq(V), NEW x, \A i \in 1 .. Len(s) : s[i] # x
    PROVE  UpTo(s, x) = s
<1>1. Len(s) \in Nat /\ DOMAIN s = 1 .. Len(s)
  BY LenProperties
<1>2. {j \in DOMAIN s : s[j] = x} = {}
  BY <1>1
<1>3. UpTo(s, x) = First(s, Before1({}, Len(s)))
  BY <1>2 DEF UpTo, Before1
<1>4. Before1({}, Len(s)) = Len(s)
  BY <1>1, NothingBefore
<1>5. First(s, Len(s)) = s
  BY <1>1, FirstAll
<1> QED
  BY <1>3, <1>4, <1>5

LEMMA UpToAt ==
    ASSUME NEW V, NEW a \in Seq(V), NEW b \in Seq(V), NEW x, Len(b) > 0, b[1] = x,
           \A i \in 1 .. Len(a) : a[i] # x
    PROVE  UpTo(a \o b, x) = a
<1> DEFINE c == a \o b
           n == Len(a)
           m == Len(b)
           J == {j \in DOMAIN c : c[j] = x}
<1>1. c \in Seq(V) /\ Is2(c, a, b) /\ Len(c) = n + m /\ n \in Nat /\ m \in Nat
  BY Elements
<1>2. DOMAIN c = 1 .. Len(c)
  BY <1>1, LenProperties
<1>3. UpTo(c, x) = First(c, Before1(J, Len(c)))
  BY DEF UpTo, Before1
<1>4. First(c, n) = a
  BY FirstPart
<1> HIDE DEF c
<1>5. \A i \in 1 .. n : c[i] # x
  BY <1>1 DEF Is2
<1>6. c[n + 1] = x /\ n + 1 \in 1 .. Len(c)
  <2>1. 1 \in 1 .. m
    BY <1>1
  <2> QED
    BY <1>1, <2>1 DEF Is2
<1> HIDE DEF n, m
<1>7. J \in SUBSET (1 .. Len(c)) /\ n + 1 \in J
  BY <1>2, <1>6
<1>8. \A j \in J : n + 1 <= j
  <2> SUFFICES ASSUME NEW j \in J, ~ (n + 1 <= j) PROVE FALSE
    OBVIOUS
  <2>1. j \in 1 .. Len(c) /\ c[j] = x
    BY <1>2
  <2>2. j \in 1 .. n
    BY <1>1, <2>1
  <2> QED
    BY <1>5, <2>1, <2>2
<1> HIDE DEF J
<1>9. Before1(J, Len(c)) = n
  <2> DEFINE k == n + 1
  <2>1. Len(c) \in Nat /\ k \in J /\ \A j \in J : k <= j
    BY <1>1, <1>7, <1>8
  <2>3. k - 1 = n
    BY <1>1
  <2> HIDE DEF k
  <2>2. Before1(J, Len(c)) = k - 1
    BY <1>7, <2>1, LeastBefore
  <2> QED
    BY <2>2, <2>3
<1> QED
  BY <1>3, <1>4, <1>9 DEF c

LEMMA PairIs ==
    ASSUME NEW V, NEW s \in Seq(V), NEW i \in 1 .. Len(s) - 1, {"CR", "LF"} \subseteq V
    PROVE  SubSeq(s, i, i + 1) = Crlf <=> s[i] = "CR" /\ s[i + 1] = "LF"
<1> DEFINE p == SubSeq(s, i, i + 1)
           o == i - 1
           e == i + 1
<1>1. o \in Nat /\ e \in Nat /\ o <= e /\ e <= Len(s) /\ o + 1 = i /\ e - o = 2 /\ o + 2 = i + 1
  OBVIOUS
<1>2. SubSeq(s, o + 1, e) \in Seq(V) /\ IsPart(SubSeq(s, o + 1, e), s, o, e)
  BY <1>1, PartOf
<1>3. p \in Seq(V) /\ IsPart(p, s, o, e)
  BY <1>1, <1>2
<1> HIDE DEF p, o, e
<1>4. 1 \in 1 .. 2 /\ 2 \in 1 .. 2 /\ \A k \in 1 .. 2 : k = 1 \/ k = 2
  OBVIOUS
<1>5. Len(p) = 2 /\ p[1] = s[o + 1] /\ p[2] = s[o + 2]
  BY <1>1, <1>3, <1>4 DEF IsPart
<1>6. p[1] = s[i] /\ p[2] = s[i + 1]
  BY <1>1, <1>5
<1>7. Crlf \in Seq(V) /\ Len(Crlf) = 2 /\ Crlf[1] = "CR" /\ Crlf[2] = "LF"
  BY DEF Crlf
<1>8. ASSUME s[i] = "CR", s[i + 1] = "LF" PROVE p = Crlf
  <2>1. \A k \in 1 .. 2 : p[k] = Crlf[k]
    BY <1>4, <1>6, <1>7, <1>8
  <2> QED
    BY <1>3, <1>5, <1>7, <2>1, SeqEqual
<1>9. ASSUME p = Crlf PROVE s[i] = "CR" /\ s[i + 1] = "LF"
  BY <1>6, <1>7, <1>9
<1> QED
  BY <1>8, <1>9 DEF p

LEMMA CutCrlfIs ==
    ASSUME NEW V, {"CR", "LF"} \subseteq V, NEW t \in Seq(V), \A i \in 1 .. Len(t) : t[i] # "CR"
    PROVE  CutCrlf(t \o Crlf) = t
<1> DEFINE c == t \o Crlf
           n == Len(t)
           N == Len(c)
           J == {j \in 1 .. N - 1 : SubSeq(c, j, j + 1) = Crlf}
<1>1. Crlf \in Seq(V) /\ Len(Crlf) = 2 /\ Crlf[1] = "CR" /\ Crlf[2] = "LF"
  BY DEF Crlf
<1>2. c \in Seq(V) /\ Is2(c, t, Crlf) /\ N = n + Len(Crlf) /\ n \in Nat
  BY <1>1, Elements
<1>3. CutCrlf(c) = First(c, Before1(J, N))
  BY DEF CutCrlf, Before1
<1>4. First(c, n) = t
  BY <1>1, FirstPart
<1> HIDE DEF c
<1>5. \A i \in 1 .. n : c[i] # "CR"
  BY <1>2 DEF Is2
<1>6. c[n + 1] = "CR" /\ c[n + 2] = "LF"
  <2>1. 1 \in 1 .. 2 /\ 2 \in 1 .. 2
    OBVIOUS
  <2> QED
    BY <1>1, <1>2, <2>1 DEF Is2
<1>7. \A j \in 1 .. N - 1 : SubSeq(c, j, j + 1) = Crlf <=> c[j] = "CR" /\ c[j + 1] = "LF"
  <2>1. c \in Seq(V)
    BY <1>2
  <2> SUFFICES ASSUME NEW j \in 1 .. N - 1
               PROVE  SubSeq(c, j, j + 1) = Crlf <=> c[j] = "CR" /\ c[j + 1] = "LF"
    OBVIOUS
  <2> QED
    BY <2>1, PairIs
<1>8. N = n + 2
  BY <1>1, <1>2
<1> HIDE DEF n, N
<1>9. n + 1 \in J
  <2>1. n + 1 \in 1 .. N - 1 /\ n + 1 + 1 = n + 2
    BY <1>2, <1>8
  <2> QED
    BY <1>6, <1>7, <2>1
<1>10. J \in SUBSET (1 .. N)
  BY <1>2, <1>8
<1>11. \A j \in J : n + 1 <= j
  <2> SUFFICES ASSUME NEW j \in J, ~ (n + 1 <= j) PROVE FALSE
    OBVIOUS
  <2>1. j \in 1 .. N - 1 /\ c[j] = "CR"
    BY <1>7
  <2>2. j \in 1 .. n
    BY <1>2, <1>8, <2>1
  <2> QED
    BY <1>5, <2>1, <2>2
<1> HIDE DEF J
<1>12. Before1(J, N) = n
  <2> DEFINE k == n + 1
  <2>1. N \in Nat /\ k \in J /\ \A j \in J : k <= j
    BY <1>2, <1>8, <1>9, <1>11
  <2>3. k - 1 = n
    BY <1>2
  <2> HIDE DEF k
  <2>2. Before1(J, N) = k - 1
    BY <1>10, <2>1, LeastBefore
  <2> QED
    BY <2>2, <2>3
<1> QED
  BY <1>3, <1>4, <1>12 DEF c

LEMMA TrimSame ==
    ASSUME NEW V, NEW text \in Seq(V),
           text # <<>> => text[1] \notin Space /\ text[Len(text)] \notin Space
    PROVE  trim_whitespace(text) = text
<1> DEFINE n == Len(text)
           K == {i \in DOMAIN text : text[i] \notin Space}
<1>1. n \in Nat /\ DOMAIN text = 1 .. n
  BY LenProperties
<1>2. CASE text = <<>>
  <2>1. n = 0
    BY <1>2
  <2>2. K = {}
    BY <1>1, <2>1
  <2> QED
    BY <1>2, <2>2 DEF trim_whitespace
<1>3. CASE text # <<>>
  <2>1. n # 0
    BY <1>3, EmptySeq
  <2>2. 1 \in 1 .. n /\ n \in 1 .. n
    BY <1>1, <2>1
  <2> HIDE DEF n
  <2>3. 1 \in K /\ n \in K /\ K \in SUBSET Nat /\ \A i \in K : 1 <= i /\ i <= n
    BY <1>1, <1>3, <2>2 DEF n
  <2>4. trim_whitespace(text) = IF K = {} THEN <<>> ELSE SubSeq(text, Min(K), Max(K))
    BY DEF trim_whitespace
  <2> HIDE DEF K
  <2>5. Min(K) = 1
    BY <2>3, MinIs
  <2>6. Max(K) = n
    <3>1. n \in K /\ \A y \in K : n >= y
      BY <1>1, <2>3
    <3>2. Max(K) \in K /\ \A y \in K : Max(K) >= y
      BY <3>1 DEF Max
    <3>3. Max(K) \in Nat /\ Max(K) >= n /\ n >= Max(K)
      BY <2>3, <3>1, <3>2
    <3> HIDE DEF Max
    <3> QED
      BY <1>1, <3>3
  <2>7. SubSeq(text, 1, n) = text
    BY SubSeqFull DEF n
  <2> QED
    BY <2>3, <2>4, <2>5, <2>6, <2>7
<1> QED
  BY <1>2, <1>3

LEMMA SentIs ==
    ASSUME NEW V, Telnet \subseteq V, NEW c, IsTyped(c, V)
    PROVE  Sent(c) \in Seq(V) /\ UpTo(Sent(c), "NUL") = Sent(c)
<1> DEFINE W == V \ {"NUL"}
           s == Sent(c)
<1>1. s = Body(c) \o Crlf /\ Body(c) \in Seq(Quiet(V))
  BY BodyIs DEF IsBody
<1>2. Quiet(V) \subseteq W /\ W \subseteq V /\ "CR" \in W /\ "LF" \in W
  BY DEF Quiet, Telnet
<1>3. Body(c) \in Seq(W)
  BY <1>1, <1>2, SeqMonotonic
<1>4. Crlf \in Seq(W)
  BY <1>2 DEF Crlf
<1> HIDE DEF s, W
<1>5. s \in Seq(W)
  BY <1>1, <1>3, <1>4, Elements
<1>6. \A i \in 1 .. Len(s) : s[i] # "NUL"
  <2>1. \A i \in 1 .. Len(s) : s[i] \in W
    BY <1>5, ElementOfSeq
  <2> QED
    BY <2>1 DEF W
<1>7. s \in Seq(V)
  BY <1>2, <1>5, SeqMonotonic
<1> QED
  BY <1>6, <1>7, UpToNone DEF s

LEMMA TextOfSent ==
    ASSUME NEW V, Telnet \subseteq V, NEW c, IsTyped(c, V)
    PROVE  trim_whitespace(CutCrlf(Filter(Sent(c)))) = Text(c)
<1> DEFINE t == Text(c)
           W == Quiet(V) \ {"IP"}
<1>1. t \in Seq(W) /\ Len(t) \in Nat /\ Len(t) > 0 /\ t[1] # "SP" /\ t[Len(t)] # "SP"
  BY TextIs DEF IsText
<1>2. Filter(Sent(c)) = t \o Crlf
  BY FilterSent
<1> HIDE DEF t
<1>3. \A i \in 1 .. Len(t) : t[i] \notin {"CR", "LF"}
  <2>1. \A i \in 1 .. Len(t) : t[i] \in W
    BY <1>1, ElementOfSeq
  <2> QED
    BY <2>1 DEF Quiet
<1>4. t \in Seq(V)
  <2>1. W \subseteq V
    BY DEF Quiet
  <2> QED
    BY <1>1, <2>1, SeqMonotonic
<1>5. CutCrlf(t \o Crlf) = t
  <2>1. {"CR", "LF"} \subseteq V /\ \A i \in 1 .. Len(t) : t[i] # "CR"
    BY <1>3 DEF Telnet
  <2> QED
    BY <1>4, <2>1, CutCrlfIs
<1>6. t[1] \notin Space /\ t[Len(t)] \notin Space
  <2>1. 1 \in 1 .. Len(t) /\ Len(t) \in 1 .. Len(t)
    BY <1>1
  <2> QED
    BY <1>1, <1>3, <2>1 DEF Space
<1>7. trim_whitespace(t) = t
  BY <1>4, <1>6, TrimSame
<1> QED
  BY <1>2, <1>5, <1>7 DEF t

\* How the text is split into the name and the argument.
LEMMA SplitText ==
    ASSUME NEW V, Telnet \subseteq V, NEW c, IsTyped(c, V)
    PROVE  /\ UpTo(Text(c), "SP") = c.name
           /\ trim_whitespace(SubSeq(Text(c), Len(c.name) + 2, Len(Text(c)))) = c.argument
<1> DEFINE a == c.name
           b == c.argument
           s == <<"SP">>
           t == Text(c)
           after == SubSeq(t, Len(a) + 2, Len(t))
<1>1. /\ a \in Seq(Quiet(V) \ {"IP", "SP"}) /\ b \in Seq(Quiet(V) \ {"IP"})
      /\ b # <<>> => b[1] # "SP" /\ b[Len(b)] # "SP"
  BY DEF IsTyped
<1>2. t = IF b = <<>> THEN a ELSE (a \o s) \o b
  BY DEF Text
<1> HIDE DEF a, b, t
<1>3. a \in Seq(V) /\ b \in Seq(V)
  <2>1. Quiet(V) \ {"IP", "SP"} \subseteq V /\ Quiet(V) \ {"IP"} \subseteq V
    BY DEF Quiet
  <2> QED
    BY <1>1, <2>1, SeqMonotonic
<1>4. \A i \in 1 .. Len(a) : a[i] # "SP"
  <2>1. \A i \in 1 .. Len(a) : a[i] \in Quiet(V) \ {"IP", "SP"}
    BY <1>1, ElementOfSeq
  <2> QED
    BY <2>1
<1>5. \A i \in 1 .. Len(b) : b[i] \notin {"CR", "LF"}
  <2>1. \A i \in 1 .. Len(b) : b[i] \in Quiet(V) \ {"IP"}
    BY <1>1, ElementOfSeq
  <2> QED
    BY <2>1 DEF Quiet
<1>6. trim_whitespace(b) = b
  <2>1. ASSUME b # <<>> PROVE b[1] \notin Space /\ b[Len(b)] \notin Space
    <3>1. Len(b) \in Nat /\ Len(b) # 0
      BY <1>3, <2>1, EmptySeq
    <3>2. 1 \in 1 .. Len(b) /\ Len(b) \in 1 .. Len(b)
      BY <3>1
    <3> QED
      BY <1>1, <1>5, <2>1, <3>2 DEF Space
  <2> QED
    BY <1>3, <2>1, TrimSame
<1>7. s \in Seq(V) /\ Len(s) = 1 /\ s[1] = "SP" /\ Len(a) \in Nat
  BY <1>3 DEF Telnet
<1>8. CASE b = <<>>
  <2>1. t = a
    BY <1>2, <1>8
  <2>2. UpTo(t, "SP") = a
    BY <1>3, <1>4, <2>1, UpToNone
  <2>3. after = <<>>
    <3>1. Len(a) + 2 \in Int /\ Len(a) \in Int /\ Len(a) < Len(a) + 2
      BY <1>7
    <3>2. SubSeq(a, Len(a) + 2, Len(a)) = <<>>
      BY <3>1, SubSeqEmpty
    <3> QED
      BY <2>1, <3>2
  <2> HIDE DEF after
  <2>4. trim_whitespace(after) = b
    BY <1>6, <1>8, <2>3
  <2> QED
    BY <2>2, <2>4 DEF after, a, b, t
<1>9. CASE b # <<>>
  <2> DEFINE sb == s \o b
             as == a \o s
  <2> HIDE DEF s
  <2>1. t = as \o b
    BY <1>2, <1>9
  <2>2. Associate(a, s, b)
    BY <1>3, <1>7, Assoc
  <2>3. t = a \o sb
    BY <2>1, <2>2 DEF Associate
  <2>4. sb \in Seq(V) /\ Is2(sb, s, b) /\ Len(sb) = Len(s) + Len(b) /\ Len(b) \in Nat
    BY <1>3, <1>7, Elements
  <2>5. as \in Seq(V) /\ Len(as) = Len(a) + Len(s)
    BY <1>3, <1>7, Elements
  <2>6. SubSeq(as \o b, Len(as) + 1, Len(as \o b)) = b
    BY <1>3, <2>5, PrefixOf
  <2> HIDE DEF sb, as
  <2>7. sb[1] = "SP" /\ Len(sb) > 0
    <3>1. 1 \in 1 .. 1
      OBVIOUS
    <3>2. sb[1] = "SP"
      BY <1>7, <2>4, <3>1 DEF Is2
    <3>3. Len(sb) > 0
      BY <1>7, <2>4
    <3> QED
      BY <3>2, <3>3
  <2>8. UpTo(a \o sb, "SP") = a
    BY <1>3, <1>4, <2>4, <2>7, UpToAt
  <2>9. Len(as) + 1 = Len(a) + 2
    BY <1>7, <2>5
  <2>10. after = b
    BY <2>1, <2>6, <2>9
  <2> HIDE DEF after
  <2>11. trim_whitespace(after) = b
    BY <1>6, <2>10
  <2>12. UpTo(t, "SP") = a
    BY <2>3, <2>8
  <2> QED
    BY <2>11, <2>12 DEF after, a, b, t
<1> QED
  BY <1>8, <1>9

LEMMA ParseIs ==
    ASSUME NEW V, Telnet \subseteq V, NEW c, IsTyped(c, V)
    PROVE  IF Len(Sent(c)) >= ParseSize THEN proto_parse_command(Sent(c)) = SyntaxError
           ELSE Short(c) => proto_parse_command(Sent(c)) = Meant(c)
<1> DEFINE s == Sent(c)
           t == Text(c)
           after == trim_whitespace(SubSeq(t, Len(c.name) + 2, Len(t)))
<1>1. UpTo(s, "NUL") = s
  BY SentIs
<1>2. trim_whitespace(CutCrlf(Filter(s))) = t
  BY TextOfSent
<1>3. UpTo(t, "SP") = c.name /\ after = c.argument
  BY SplitText
<1>4. t # <<>>
  <2>1. Len(t) > 0
    BY TextIs DEF IsText
  <2> HIDE DEF t
  <2>2. Len(<<>>) = 0
    OBVIOUS
  <2> QED
    BY <2>1, <2>2
<1> HIDE DEF s, t
<1>5. proto_parse_command(s)
        = IF Len(s) >= ParseSize \/ t = <<>> THEN SyntaxError
          ELSE [command  |-> to_uppercase(First(c.name, NameSize - 1)),
                argument |-> First(after, ArgSize - 1)]
  BY <1>1, <1>2, <1>3 DEF proto_parse_command
<1> HIDE DEF after
<1>6. CASE Len(s) >= ParseSize
  BY <1>5, <1>6 DEF s
<1>7. CASE ~ (Len(s) >= ParseSize)
  <2> SUFFICES ASSUME Short(c) PROVE proto_parse_command(s) = Meant(c)
    BY <1>7 DEF s
  <2>1. /\ c.name \in Seq(Quiet(V) \ {"IP", "SP"}) /\ c.argument \in Seq(Quiet(V) \ {"IP"})
    BY DEF IsTyped
  <2>2. NameSize - 1 \in Nat /\ ArgSize - 1 \in Nat
    BY SizesArePositive
  <2>3. Len(c.name) <= NameSize - 1 /\ Len(c.argument) <= ArgSize - 1
    <3>1. Len(c.name) < NameSize /\ Len(c.argument) < ArgSize
      BY DEF Short
    <3>2. Len(c.name) \in Nat /\ Len(c.argument) \in Nat
      BY <2>1
    <3>3. NameSize \in Nat /\ ArgSize \in Nat
      BY SizesArePositive
    <3> QED
      BY <3>1, <3>2, <3>3
  <2>4. First(c.name, NameSize - 1) = c.name
    BY <2>1, <2>2, <2>3, FirstAll
  <2>5. First(c.argument, ArgSize - 1) = c.argument
    BY <2>1, <2>2, <2>3, FirstAll
  <2>6. proto_parse_command(s) = [command |-> to_uppercase(c.name), argument |-> c.argument]
    BY <1>3, <1>4, <1>5, <1>7, <2>4, <2>5
  <2> QED
    BY <2>6 DEF Meant
<1> QED
  BY <1>6, <1>7

-----------------------------------------------------------------------------
(* Lines: one command after the other                                      *)

\* Where a line is seen to end.
LineEnds(stream) == {i \in 2 .. Min({Len(stream), LineSize - 1}) :
                        stream[i - 1] = "CR" /\ stream[i] = "LF"}

LEMMA MinBoth ==
    ASSUME NEW a \in Nat, NEW b \in Nat
    PROVE  Min({a, b}) \in Nat /\ Min({a, b}) <= a /\ Min({a, b}) <= b
           /\ (Min({a, b}) = a \/ Min({a, b}) = b)
<1>1. CASE a <= b
  <2>1. {a, b} \in SUBSET Nat /\ a \in {a, b} /\ \A y \in {a, b} : a <= y
    BY <1>1
  <2>2. Min({a, b}) = a
    BY <2>1, MinIs
  <2> QED
    BY <1>1, <2>2
<1>2. CASE ~ (a <= b)
  <2>1. {a, b} \in SUBSET Nat /\ b \in {a, b} /\ \A y \in {a, b} : b <= y
    BY <1>2
  <2>2. Min({a, b}) = b
    BY <2>1, MinIs
  <2> QED
    BY <1>2, <2>2
<1> QED
  BY <1>1, <1>2

LEMMA ReceiveIs ==
    ASSUME NEW V, NEW stream \in Seq(V)
    PROVE  net_receive_line(stream)
             = IF LineEnds(stream) # {}
               THEN [result |-> "line", line |-> SubSeq(stream, 1, Min(LineEnds(stream)))]
               ELSE IF Len(stream) >= LineSize - 1 THEN [result |-> "too long", line |-> <<>>]
               ELSE [result |-> "more", line |-> <<>>]
  BY DEF net_receive_line, LineEnds

IsReceived(r, stream, V) ==
    \/ /\ r.result = "line" /\ r.line \in Seq(V) /\ Len(r.line) \in 2 .. Len(stream)
    \/ r.result = "too long" \/ r.result = "more"

LEMMA ReceivedType ==
    ASSUME NEW V, NEW stream \in Seq(V)
    PROVE  IsReceived(net_receive_line(stream), stream, V)
<1> DEFINE E == LineEnds(stream)
           r == net_receive_line(stream)
           n == Len(stream)
<1>1. r = IF E # {} THEN [result |-> "line", line |-> SubSeq(stream, 1, Min(E))]
          ELSE IF n >= LineSize - 1 THEN [result |-> "too long", line |-> <<>>]
          ELSE [result |-> "more", line |-> <<>>]
  BY ReceiveIs
<1>2. n \in Nat /\ LineSize - 1 \in Nat
  BY SizesArePositive
<1>3. Min({n, LineSize - 1}) \in Nat /\ Min({n, LineSize - 1}) <= n
  BY <1>2, MinBoth
<1>4. E \in SUBSET (2 .. n)
  <2> DEFINE m == Min({n, LineSize - 1})
  <2>1. m \in Nat /\ m <= n
    BY <1>3
  <2>2. E \in SUBSET (2 .. m)
    BY DEF LineEnds
  <2> HIDE DEF E, m, n
  <2>3. 2 .. m \subseteq 2 .. n
    BY <1>2, <2>1
  <2> QED
    BY <2>2, <2>3
<1> HIDE DEF E, r
<1>5. CASE E # {}
  <2>1. E \in SUBSET Nat
    BY <1>2, <1>4
  <2>2. PICK e \in E : \A j \in E : e <= j
    BY <1>5, <2>1, Least
  <2>3. Min(E) = e
    BY <2>1, <2>2, MinIs
  <2>4. e \in 2 .. n
    BY <1>4
  <2> DEFINE l == SubSeq(stream, 1, e)
  <2>5. e \in 0 .. n /\ e - 0 = e
    BY <1>2, <2>4
  <2>6. l \in Seq(V) /\ IsPart(l, stream, 0, e)
    BY <2>5, SplitAt
  <2>7. r = [result |-> "line", line |-> l]
    BY <1>1, <1>5, <2>3
  <2> HIDE DEF l
  <2>8. Len(l) = e
    BY <2>5, <2>6 DEF IsPart
  <2>9. IsReceived(r, stream, V)
    BY <2>4, <2>6, <2>7, <2>8 DEF IsReceived
  <2> QED
    BY <2>9 DEF r
<1>6. CASE E = {}
  <2>1. r = [result |-> "too long", line |-> <<>>] \/ r = [result |-> "more", line |-> <<>>]
    BY <1>1, <1>6
  <2>2. r.result = "too long" \/ r.result = "more"
    <3>1. CASE r = [result |-> "too long", line |-> <<>>]
      BY <3>1
    <3>2. CASE r = [result |-> "more", line |-> <<>>]
      BY <3>2
    <3> QED
      BY <2>1, <3>1, <3>2
  <2>3. IsReceived(r, stream, V)
    BY <2>2, Zenon DEF IsReceived
  <2> QED
    BY <2>3 DEF r
<1> QED
  BY <1>5, <1>6

\* The first line of a stream that begins with one, or that it is too long.
LEMMA ReceiveFirst ==
    ASSUME NEW V, Telnet \subseteq V, NEW body \in Seq(Quiet(V)), NEW rest \in Seq(V)
    PROVE  net_receive_line((body \o Crlf) \o rest)
             = IF Len(body \o Crlf) < LineSize THEN [result |-> "line", line |-> body \o Crlf]
               ELSE [result |-> "too long", line |-> <<>>]
<1> DEFINE s == body \o Crlf
           c == s \o rest
           k == Len(body)
           n == Len(s)
           N == Len(c)
           E == LineEnds(c)
           m == Min({N, LineSize - 1})
<1>1. Crlf \in Seq(V) /\ Len(Crlf) = 2 /\ Crlf[1] = "CR" /\ Crlf[2] = "LF"
  BY DEF Crlf, Telnet
<1>2. body \in Seq(V)
  <2>1. Quiet(V) \subseteq V
    BY DEF Quiet
  <2> QED
    BY <2>1, SeqMonotonic
<1>3. s \in Seq(V) /\ Is2(s, body, Crlf) /\ n = k + Len(Crlf) /\ k \in Nat
  BY <1>1, <1>2, Elements
<1> HIDE DEF s
<1>4. c \in Seq(V) /\ Is2(c, s, rest) /\ N = n + Len(rest) /\ Len(rest) \in Nat
  BY <1>3, Elements
<1>5. SubSeq(c, 1, n) = s
  BY <1>3, PrefixOf
<1> HIDE DEF c
<1>6. \A i \in 1 .. n : c[i] = s[i]
  BY <1>4 DEF Is2
<1>7. \A i \in 1 .. k : s[i] # "CR"
  <2>1. \A i \in 1 .. k : body[i] \in Quiet(V)
    BY ElementOfSeq
  <2>2. \A i \in 1 .. k : s[i] = body[i]
    BY <1>3 DEF Is2
  <2> QED
    BY <2>1, <2>2 DEF Quiet
<1>8. s[k + 1] = "CR" /\ s[k + 2] = "LF"
  <2>1. 1 \in 1 .. 2 /\ 2 \in 1 .. 2
    OBVIOUS
  <2> QED
    BY <1>1, <1>3, <2>1 DEF Is2
<1>9. n = k + 2
  BY <1>1, <1>3
<1>10. net_receive_line(c)
         = IF E # {} THEN [result |-> "line", line |-> SubSeq(c, 1, Min(E))]
           ELSE IF N >= LineSize - 1 THEN [result |-> "too long", line |-> <<>>]
           ELSE [result |-> "more", line |-> <<>>]
  BY <1>4, ReceiveIs
<1>11. LineSize \in Nat /\ LineSize >= 3
  BY SizesArePositive
<1>12. k \in Nat /\ N \in Nat /\ N >= n
  BY <1>3, <1>4, <1>9
<1>13. m \in Nat /\ m <= N /\ m <= LineSize - 1 /\ (m = N \/ m = LineSize - 1)
  <2>1. LineSize - 1 \in Nat
    BY <1>11
  <2> QED
    BY <1>12, <2>1, MinBoth
<1>14. E = {i \in 2 .. m : c[i - 1] = "CR" /\ c[i] = "LF"}
  BY DEF LineEnds
<1> HIDE DEF m, E, N, n, k
<1>15. \A i \in E : i >= n
  <2> SUFFICES ASSUME NEW i \in E, ~ (i >= n) PROVE FALSE
    OBVIOUS
  <2>1. i \in 2 .. m /\ c[i - 1] = "CR"
    BY <1>14
  <2>2. i - 1 \in 1 .. k /\ i - 1 \in 1 .. n
    BY <1>9, <1>12, <1>13, <2>1
  <2> QED
    BY <1>6, <1>7, <2>1, <2>2
<1>16. CASE n < LineSize
  <2>1. n \in 2 .. m
    BY <1>9, <1>11, <1>12, <1>13, <1>16
  <2>2. n - 1 = k + 1 /\ n \in 1 .. n /\ n - 1 \in 1 .. n
    BY <1>9, <1>12
  <2>3. c[n - 1] = "CR" /\ c[n] = "LF"
    BY <1>6, <1>8, <1>9, <2>2
  <2>4. n \in E
    BY <1>14, <2>1, <2>3
  <2>5. E \in SUBSET Nat /\ \A i \in E : n <= i
    <3>1. \A i \in 2 .. m : i \in Nat
      OBVIOUS
    <3>2. E \in SUBSET Nat
      BY <1>14, <3>1
    <3>3. n \in Nat
      BY <1>9, <1>12
    <3> QED
      BY <1>15, <3>2, <3>3
  <2>6. Min(E) = n
    BY <2>4, <2>5, MinIs
  <2>7. net_receive_line(c) = [result |-> "line", line |-> s]
    BY <1>5, <1>10, <2>4, <2>6
  <2> QED
    BY <1>16, <2>7 DEF c, s, n
<1>17. CASE ~ (n < LineSize)
  <2>1. E = {}
    <3> SUFFICES ASSUME NEW i \in E PROVE FALSE
      OBVIOUS
    <3>1. i \in 2 .. m /\ i >= n
      BY <1>14, <1>15
    <3> QED
      BY <1>9, <1>11, <1>12, <1>13, <1>17, <3>1
  <2>2. N >= LineSize - 1
    BY <1>9, <1>11, <1>12, <1>17
  <2>3. net_receive_line(c) = [result |-> "too long", line |-> <<>>]
    BY <1>10, <2>1, <2>2
  <2> QED
    BY <1>17, <2>3 DEF c, s, n
<1> QED
  BY <1>16, <1>17

-----------------------------------------------------------------------------
(* Lines: the loop of client_thread                                        *)

\* What the loop does with what is left of the stream, from byte n of N.
ClientTurn(left, n, N) ==
    LET r == net_receive_line(left)
    IN  IF r.result = "line"
        THEN [put |-> <<proto_parse_command(r.line)>>, next |-> n + Len(r.line)]
        ELSE [put |-> IF r.result = "too long" THEN <<Left>> ELSE <<>>, next |-> N + 1]

ClientTurns(stream) ==
    [n \in DOMAIN stream |-> ClientTurn(SubSeq(stream, n, Len(stream)), n, Len(stream))]

Outcomes(V) == {proto_parse_command(l) : l \in Seq(V)} \cup {Left}

LEMMA ClientTurnType ==
    ASSUME NEW V, NEW left \in Seq(V), NEW n \in Nat, NEW N \in Nat, n <= N
    PROVE  ClientTurn(left, n, N) \in [put : Seq(Outcomes(V)), next : Nat]
           /\ ClientTurn(left, n, N).next > n
<1> DEFINE r == net_receive_line(left)
           W == Outcomes(V)
           T == [put : Seq(W), next : Nat]
           t == ClientTurn(left, n, N)
<1>1. IsReceived(r, left, V)
  BY ReceivedType
<1>2. t = IF r.result = "line"
          THEN [put |-> <<proto_parse_command(r.line)>>, next |-> n + Len(r.line)]
          ELSE [put |-> IF r.result = "too long" THEN <<Left>> ELSE <<>>, next |-> N + 1]
  BY DEF ClientTurn
<1>3. \A put \in Seq(W), k \in Nat :
         k > n => [put |-> put, next |-> k] \in T /\ [put |-> put, next |-> k].next > n
  OBVIOUS
<1> HIDE DEF r, t, T
<1>4. CASE r.result = "line"
  <2> DEFINE k == n + Len(r.line)
             p == proto_parse_command(r.line)
  <2>1. r.line \in Seq(V) /\ Len(r.line) \in 2 .. Len(left)
    BY <1>1, <1>4 DEF IsReceived
  <2>2. Len(r.line) \in Nat /\ Len(r.line) >= 2
    BY <2>1
  <2>3. k \in Nat /\ k > n
    BY <2>2
  <2>4. p \in W
    BY <2>1 DEF Outcomes
  <2>5. t = [put |-> <<p>>, next |-> k]
    BY <1>2, <1>4
  <2> HIDE DEF p, k, W
  <2>6. <<p>> \in Seq(W)
    BY <2>4
  <2>7. t \in T /\ t.next > n
    BY <1>3, <2>3, <2>5, <2>6
  <2> QED
    BY <2>7 DEF t, T, W
<1>5. CASE r.result # "line"
  <2> DEFINE k == N + 1
             put == IF r.result = "too long" THEN <<Left>> ELSE <<>>
  <2>1. k \in Nat /\ k > n
    OBVIOUS
  <2>2. Left \in W
    BY DEF Outcomes
  <2>3. t = [put |-> put, next |-> k]
    BY <1>2, <1>5
  <2> HIDE DEF W, k
  <2>4. put \in Seq(W)
    <3>1. <<Left>> \in Seq(W) /\ <<>> \in Seq(W)
      BY <2>2
    <3> QED
      BY <3>1
  <2> HIDE DEF put
  <2>5. t \in T /\ t.next > n
    BY <1>3, <2>1, <2>3, <2>4
  <2> QED
    BY <2>5 DEF t, T, W
<1> QED
  BY <1>4, <1>5

IsClient(t, stream, W) ==
    /\ Moves(t, W) /\ Len(t) = Len(stream) /\ client_thread(stream) = Written(t)
    /\ \A i \in 1 .. Len(stream) :
          t[i] = ClientTurn(SubSeq(stream, i, Len(stream)), i, Len(stream))

LEMMA ClientIs ==
    ASSUME NEW V, NEW stream \in Seq(V)
    PROVE  IsClient(ClientTurns(stream), stream, Outcomes(V))
           /\ client_thread(stream) \in Seq(Outcomes(V))
<1> DEFINE n == Len(stream)
           t == ClientTurns(stream)
           W == Outcomes(V)
           T == [put : Seq(W), next : Nat]
<1>1. n \in Nat /\ DOMAIN stream = 1 .. n
  BY LenProperties
<1>2. t = [i \in 1 .. n |-> ClientTurn(SubSeq(stream, i, n), i, n)]
  BY <1>1 DEF ClientTurns
<1>3. ASSUME NEW i \in 1 .. n
      PROVE  ClientTurn(SubSeq(stream, i, n), i, n) \in T
             /\ ClientTurn(SubSeq(stream, i, n), i, n).next > i
  <2> DEFINE o == i - 1
             left == SubSeq(stream, o + 1, n)
  <2>1. o \in Nat /\ o <= n /\ o + 1 = i /\ i \in Nat /\ i <= n /\ n <= n
    BY <1>1
  <2> HIDE DEF o
  <2>2. left \in Seq(V)
    BY <1>1, <2>1, PartOf
  <2> HIDE DEF left, n
  <2>3. ClientTurn(left, i, n) \in T /\ ClientTurn(left, i, n).next > i
    BY <1>1, <2>1, <2>2, ClientTurnType
  <2>4. left = SubSeq(stream, i, n)
    BY <2>1 DEF left
  <2> QED
    BY <2>3, <2>4
<1>4. client_thread(stream) = Written(t)
  BY DEF client_thread, ClientTurns, ClientTurn
<1> HIDE DEF t, n, T, W
<1>5. t \in [1 .. n -> T]
  BY <1>2, <1>3
<1>6. t \in Seq(T) /\ Len(t) = n
  BY <1>1, <1>5, FunctionIsSeq
<1>7. \A i \in 1 .. n : t[i] = ClientTurn(SubSeq(stream, i, n), i, n)
  BY <1>2
<1>8. Moves(t, W)
  BY <1>3, <1>6, <1>7 DEF Moves, T
<1>9. IsClient(t, stream, W)
  BY <1>4, <1>6, <1>7, <1>8 DEF IsClient, n
<1>10. client_thread(stream) \in Seq(W)
  BY <1>4, <1>8, WrittenType
<1> QED
  BY <1>9, <1>10 DEF t, W

LEMMA ClientNone == ASSUME NEW V PROVE client_thread(<<>>) = <<>>
<1>1. <<>> \in Seq(V) /\ Len(<<>>) = 0
  OBVIOUS
<1>2. IsClient(ClientTurns(<<>>), <<>>, Outcomes(V))
  BY <1>1, ClientIs
<1> QED
  BY <1>1, <1>2, NoTurn DEF IsClient

\* What is read of what comes later does not depend on what comes before.
LEMMA ClientShift ==
    ASSUME NEW V, NEW a \in Seq(V), NEW b \in Seq(V)
    PROVE  WrittenFrom(ClientTurns(a \o b))[Len(a) + 1] = client_thread(b)
<1> DEFINE c == a \o b
           n == Len(a)
           m == Len(b)
           N == Len(c)
           u == ClientTurns(c)
           v == ClientTurns(b)
           W == Outcomes(V)
<1>1. n \in Nat /\ m \in Nat /\ c \in Seq(V) /\ N = n + m
  BY Elements
<1>2. IsClient(u, c, W) /\ IsClient(v, b, W)
  BY <1>1, ClientIs
<1>3. ASSUME NEW i \in 1 .. m PROVE SubSeq(c, n + i, N) = SubSeq(b, i, m)
  <2>1. m \in i .. m
    BY <1>1
  <2>2. SubSeq(c, n + i, n + m) = SubSeq(b, i, m)
    BY <2>1, LaterPart
  <2> QED
    BY <1>1, <2>2
<1> HIDE DEF c, u, v, n, m, N, W
<1>4. ASSUME NEW i \in 1 .. m
      PROVE  u[n + i].put = v[i].put /\ u[n + i].next = n + v[i].next
  <2> DEFINE left == SubSeq(b, i, m)
             r == net_receive_line(left)
  <2>1. n + i \in 1 .. N /\ i \in Nat /\ i <= m
    BY <1>1
  <2>2. u[n + i] = ClientTurn(left, n + i, N) /\ v[i] = ClientTurn(left, i, m)
    BY <1>2, <1>3, <2>1 DEF IsClient, m, N
  <2>3. left \in Seq(V)
    <3> DEFINE o == i - 1
    <3>1. o \in Nat /\ o <= m /\ o + 1 = i /\ m <= Len(b)
      BY <1>1, <2>1 DEF m
    <3> HIDE DEF o
    <3>2. SubSeq(b, o + 1, m) \in Seq(V)
      BY <1>1, <3>1, PartOf
    <3> QED
      BY <3>1, <3>2
  <2>4. IsReceived(r, left, V)
    BY <2>3, ReceivedType
  <2>5. CASE r.result = "line"
    <3> DEFINE p == <<proto_parse_command(r.line)>>
               k == Len(r.line)
    <3>1. v[i] = [put |-> p, next |-> i + k] /\ u[n + i] = [put |-> p, next |-> (n + i) + k]
      BY <2>2, <2>5 DEF ClientTurn
    <3>2. k \in Nat
      BY <2>4, <2>5 DEF IsReceived
    <3> HIDE DEF p, k
    <3>3. (n + i) + k = n + (i + k)
      BY <1>1, <2>1, <3>2
    <3> QED
      BY <3>1, <3>3
  <2>6. CASE r.result # "line"
    <3> DEFINE p == IF r.result = "too long" THEN <<Left>> ELSE <<>>
    <3>1. v[i] = [put |-> p, next |-> m + 1] /\ u[n + i] = [put |-> p, next |-> N + 1]
      BY <2>2, <2>6 DEF ClientTurn
    <3> HIDE DEF p
    <3>2. N + 1 = n + (m + 1)
      BY <1>1
    <3> QED
      BY <3>1, <3>2
  <2> QED
    BY <2>5, <2>6
<1>5. Len(u) = N /\ Len(v) = m /\ Moves(u, W) /\ Moves(v, W) /\ client_thread(b) = Written(v)
  BY <1>2 DEF IsClient, m, N
<1>6. Shifted(u, v, n)
  BY <1>1, <1>4, <1>5 DEF Shifted
<1>7. WrittenFrom(u)[n + 1] = Written(v)
  BY <1>1, <1>5, <1>6, WrittenShifted
<1> QED
  BY <1>5, <1>7 DEF u, c, n

\* The loop on a stream that begins with a command.
ReadsNext(s, rest) ==
    client_thread(s \o rest) = IF Len(s) < LineSize
                               THEN <<proto_parse_command(s)>> \o client_thread(rest)
                               ELSE <<Left>>

LEMMA ClientNext ==
    ASSUME NEW V, Telnet \subseteq V, NEW d, IsTyped(d, V), NEW rest \in Seq(V)
    PROVE  ReadsNext(Sent(d), rest)
<1> DEFINE s == Sent(d)
           c == s \o rest
           n == Len(s)
           N == Len(c)
           W == Outcomes(V)
           t == ClientTurns(c)
           w == WrittenFrom(t)
<1>1. s \in Seq(V) /\ s = Body(d) \o Crlf /\ Body(d) \in Seq(Quiet(V))
  BY SentIs, BodyIs DEF IsBody
<1>2. net_receive_line(c) = IF n < LineSize THEN [result |-> "line", line |-> s]
                            ELSE [result |-> "too long", line |-> <<>>]
  <2>1. net_receive_line((Body(d) \o Crlf) \o rest)
          = IF Len(Body(d) \o Crlf) < LineSize THEN [result |-> "line", line |-> Body(d) \o Crlf]
            ELSE [result |-> "too long", line |-> <<>>]
    BY <1>1, ReceiveFirst
  <2> QED
    BY <1>1, <2>1
<1>3. n >= 2
  <2>1. Quiet(V) \subseteq V /\ Crlf \in Seq(V) /\ Len(Crlf) = 2
    BY DEF Quiet, Crlf, Telnet
  <2>2. Body(d) \in Seq(V)
    BY <1>1, <2>1, SeqMonotonic
  <2>3. n = Len(Body(d)) + Len(Crlf) /\ Len(Body(d)) \in Nat
    BY <1>1, <2>1, <2>2, Elements
  <2> HIDE DEF n
  <2> QED
    BY <2>1, <2>3
<1> HIDE DEF s
<1>4. c \in Seq(V) /\ n \in Nat /\ N \in Nat /\ N = n + Len(rest) /\ Len(rest) \in Nat
  BY <1>1, Elements
<1>5. w[n + 1] = client_thread(rest)
  BY <1>1, ClientShift
<1> HIDE DEF c
<1>6. IsClient(t, c, W)
  BY <1>4, ClientIs
<1>7. SubSeq(c, 1, N) = c
  BY <1>4, SubSeqFull
<1> HIDE DEF t, w, W
<1>8. Moves(t, W) /\ Len(t) = N /\ client_thread(c) = Written(t)
  BY <1>6 DEF IsClient
<1>9. t[1] = ClientTurn(c, 1, N)
  <2>1. 1 \in 1 .. N
    BY <1>3, <1>4
  <2> QED
    BY <1>6, <1>7, <2>1 DEF IsClient
<1> HIDE DEF n, N
<1>10. client_thread(c) = t[1].put \o w[t[1].next]
  <2>1. Len(t) > 0
    BY <1>3, <1>4, <1>8
  <2> QED
    BY <1>8, <2>1, OneTurn DEF w
<1>11. CASE n < LineSize
  <2>1. t[1] = [put |-> <<proto_parse_command(s)>>, next |-> 1 + n]
    BY <1>2, <1>9, <1>11 DEF ClientTurn, n
  <2>2. 1 + n = n + 1
    BY <1>4
  <2>3. client_thread(c) = <<proto_parse_command(s)>> \o client_thread(rest)
    BY <1>5, <1>10, <2>1, <2>2
  <2> QED
    BY <1>11, <2>3 DEF ReadsNext, c, s, n
<1>12. CASE ~ (n < LineSize)
  <2>1. t[1].put = <<Left>> /\ t[1].next = N + 1
    <3>1. net_receive_line(c) = [result |-> "too long", line |-> <<>>]
      BY <1>2, <1>12
    <3>2. net_receive_line(c).result = "too long"
      <4>1. \A x : [result |-> "too long", line |-> x].result = "too long"
        OBVIOUS
      <4> QED
        BY <3>1, <4>1, Zenon
    <3>3. t[1] = [put |-> <<Left>>, next |-> N + 1]
      BY <1>9, <3>2 DEF ClientTurn
    <3> QED
      BY <3>3
  <2>2. w[N + 1] = <<>>
    <3>1. Steps(w, t, W)
      BY <1>8, WritesSteps DEF w
    <3>2. N + 1 \in Nat /\ N + 1 > Len(t)
      BY <1>4, <1>8
    <3> QED
      BY <3>1, <3>2 DEF Steps
  <2>3. <<Left>> \o <<>> = <<Left>>
    <3>1. <<Left>> \in Seq({Left})
      OBVIOUS
    <3> QED
      BY <3>1, ConcatEmptySeq
  <2>4. client_thread(c) = <<Left>>
    BY <1>10, <2>1, <2>2, <2>3
  <2> QED
    BY <1>12, <2>4 DEF ReadsNext, c, s, n
<1> QED
  BY <1>11, <1>12

-----------------------------------------------------------------------------
(* Lines: the commands of a session                                        *)

Answer(d) == proto_parse_command(Sent(d))
SentBy(D) == [d \in D |-> Sent(d)]
Answers(D) == [d \in D |-> Answer(d)]
Stream(s) == Concat([k \in DOMAIN s |-> Sent(s[k])])

AreTyped(D, V) == \A d \in D : IsTyped(d, V)
IsLong(d) == Len(Sent(d)) >= LineSize
NoLong(s) == \A k \in 1 .. Len(s) : ~ IsLong(s[k])

\* The commands up to the j-th are read, and it ends the session.
Stops(r, s, j) == /\ j \in 1 .. Len(s) /\ IsLong(s[j]) /\ Len(r) = j /\ r[j] = Left
                  /\ \A k \in 1 .. j - 1 : ~ IsLong(s[k]) /\ r[k] = Answer(s[k])

Obeys(s, rest, D) ==
    IF NoLong(s)
    THEN client_thread(Stream(s) \o rest) = Mapped(Answers(D), s) \o client_thread(rest)
    ELSE \E j \in 1 .. Len(s) : Stops(client_thread(Stream(s) \o rest), s, j)

LEMMA StreamIs ==
    ASSUME NEW V, Telnet \subseteq V, NEW D, AreTyped(D, V), NEW s \in Seq(D)
    PROVE  Stream(s) = Concat(Mapped(SentBy(D), s)) /\ Stream(s) \in Seq(V)
<1>1. DOMAIN s = 1 .. Len(s) /\ \A k \in 1 .. Len(s) : s[k] \in D
  BY LenProperties, ElementOfSeq
<1>2. \A d \in D : Sent(d) \in Seq(V)
  BY SentIs DEF AreTyped
<1>3. SentBy(D) \in [D -> Seq(V)]
  BY <1>2 DEF SentBy
<1>4. Mapped(SentBy(D), s) = [k \in DOMAIN s |-> Sent(s[k])]
  BY <1>1 DEF Mapped, SentBy
<1>5. Mapped(SentBy(D), s) \in Seq(Seq(V))
  BY <1>3, MappedType
<1>6. Stream(s) = Concat(Mapped(SentBy(D), s))
  BY <1>4 DEF Stream
<1> QED
  BY <1>5, <1>6, ConcatType

StreamGrows(s, d) == Stream(Append(s, d)) = Stream(s) \o Sent(d)

LEMMA StreamSnoc ==
    ASSUME NEW V, Telnet \subseteq V, NEW D, AreTyped(D, V), NEW s \in Seq(D), NEW d \in D
    PROVE  StreamGrows(s, d)
<1> DEFINE f == SentBy(D)
           parts == Mapped(f, s)
           more == Append(s, d)
<1>1. \A x \in D : Sent(x) \in Seq(V)
  BY SentIs DEF AreTyped
<1>2. f \in [D -> Seq(V)] /\ f[d] = Sent(d) /\ Sent(d) \in Seq(V)
  BY <1>1 DEF SentBy
<1>3. more \in Seq(D)
  BY AppendProperties
<1>4. Stream(s) = Concat(parts)
  BY StreamIs
<1> HIDE DEF more, f
<1>5. Stream(more) = Concat(Mapped(f, more))
  BY <1>3, StreamIs DEF f
<1>6. Mapped(f, more) = Append(parts, f[d])
  BY <1>2, MappedSnoc DEF more
<1>7. parts \in Seq(Seq(V))
  BY <1>2, MappedType
<1> HIDE DEF parts
<1>8. Concat(Append(parts, f[d])) = Concat(parts) \o f[d]
  BY <1>2, <1>7, ConcatSnoc
<1> QED
  BY <1>2, <1>4, <1>5, <1>6, <1>8 DEF more, StreamGrows

LEMMA ObeysNone ==
    ASSUME NEW V, Telnet \subseteq V, NEW D, AreTyped(D, V), NEW rest \in Seq(V)
    PROVE  Obeys(<<>>, rest, D)
<1>1. NoLong(<<>>)
  <2>1. 1 .. Len(<<>>) = {}
    OBVIOUS
  <2> QED
    BY <2>1 DEF NoLong
<1>2. Stream(<<>>) = <<>> /\ Mapped(Answers(D), <<>>) = <<>>
  <2>1. <<>> \in Seq(D)
    OBVIOUS
  <2>2. Stream(<<>>) = Concat(Mapped(SentBy(D), <<>>))
    BY <2>1, StreamIs
  <2> QED
    BY <2>2, MappedNone, ConcatNone
<1>3. <<>> \o rest = rest
  BY ConcatEmptySeq
<1>4. client_thread(rest) \in Seq(Outcomes(V))
  BY ClientIs
<1>5. <<>> \o client_thread(rest) = client_thread(rest)
  BY <1>4, ConcatEmptySeq
<1> QED
  BY <1>1, <1>2, <1>3, <1>5 DEF Obeys

LEMMA ObeysMore ==
    ASSUME NEW V, Telnet \subseteq V, NEW D, AreTyped(D, V), NEW s \in Seq(D), NEW d \in D,
           \A rest \in Seq(V) : Obeys(s, rest, D), NEW rest \in Seq(V)
    PROVE  Obeys(Append(s, d), rest, D)
<1>23. StreamGrows(s, d)
  BY StreamSnoc
<1> DEFINE more == Append(s, d)
           n == Len(s)
           W == Outcomes(V)
           f == Answers(D)
           b == Sent(d)
           later == b \o rest
           r == client_thread(Stream(more) \o rest)
<1>1. IsTyped(d, V) /\ \A x \in D : Sent(x) \in Seq(V)
  BY SentIs DEF AreTyped
<1>2. b \in Seq(V) /\ ReadsNext(b, rest)
  BY <1>1, ClientNext
<1>3. /\ n \in Nat /\ more \in Seq(D) /\ Len(more) = n + 1
      /\ (\A k \in 1 .. n : more[k] = s[k]) /\ more[n + 1] = d
  BY AppendProperties
<1>4. f \in [D -> W] /\ f[d] = Answer(d) /\ \A x \in D : f[x] = Answer(x)
  BY <1>1 DEF Answers, Answer, Outcomes
<1>5. Stream(more) = Stream(s) \o b
  BY <1>23 DEF StreamGrows
<1>6. Stream(s) \in Seq(V)
  BY StreamIs
<1>7. Mapped(f, more) = Append(Mapped(f, s), f[d])
  BY <1>4, MappedSnoc
<1> HIDE DEF more, n, f, b, W
<1>8. Associate(Stream(s), b, rest)
  BY <1>2, <1>6, Assoc
<1>9. later \in Seq(V)
  BY <1>2, Elements
<1>10. r = client_thread(Stream(s) \o later)
  BY <1>5, <1>8 DEF Associate
<1>11. Obeys(s, later, D)
  BY <1>9
<1>12. client_thread(later) = IF Len(b) < LineSize
                              THEN <<proto_parse_command(b)>> \o client_thread(rest)
                              ELSE <<Left>>
  BY <1>2 DEF ReadsNext
<1>13. \A k \in 1 .. n + 1 : k \in 1 .. n \/ k = n + 1
  BY <1>3
<1>14. NoLong(more) <=> NoLong(s) /\ ~ IsLong(d)
  <2>1. ASSUME NoLong(more) PROVE NoLong(s) /\ ~ IsLong(d)
    <3>1. \A k \in 1 .. n : k \in 1 .. n + 1
      BY <1>3
    <3>2. n + 1 \in 1 .. n + 1
      BY <1>3
    <3>3. \A k \in 1 .. n + 1 : ~ IsLong(more[k])
      BY <1>3, <2>1 DEF NoLong
    <3>4. \A k \in 1 .. n : ~ IsLong(s[k])
      BY <1>3, <3>1, <3>3
    <3>5. ~ IsLong(d)
      BY <1>3, <3>2, <3>3
    <3> QED
      BY <3>4, <3>5 DEF NoLong, n
  <2>2. ASSUME NoLong(s), ~ IsLong(d) PROVE NoLong(more)
    <3>1. \A k \in 1 .. n : ~ IsLong(s[k])
      BY <2>2 DEF NoLong, n
    <3>2. \A k \in 1 .. n + 1 : ~ IsLong(more[k])
      BY <1>3, <1>13, <2>2, <3>1
    <3> QED
      BY <1>3, <3>2 DEF NoLong
  <2> QED
    BY <2>1, <2>2
<1>15. Len(b) \in Nat /\ LineSize \in Nat
  BY <1>2, SizesArePositive
<1>16. IsLong(d) <=> ~ (Len(b) < LineSize)
  BY <1>15 DEF IsLong, b
<1>17. proto_parse_command(b) = f[d]
  BY <1>4 DEF Answer, b
<1>18. Mapped(f, s) \in Seq(W) /\ f[d] \in W /\ client_thread(rest) \in Seq(W)
  <2>1. client_thread(rest) \in Seq(W)
    BY ClientIs DEF W
  <2> QED
    BY <1>4, <2>1, MappedType
<1>19. IsMapped(Mapped(f, s), f, s, W)
  BY <1>4, MappedType
<1> HIDE DEF later, r
<1>20. CASE NoLong(more)
  <2> DEFINE a == Mapped(f, s)
             p == <<f[d]>>
             c == client_thread(rest)
  <2>1. client_thread(later) = p \o c
    BY <1>12, <1>14, <1>16, <1>17, <1>20
  <2>2. r = a \o (p \o c)
    BY <1>10, <1>11, <1>14, <1>20, <2>1 DEF Obeys, f
  <2>3. p \in Seq(W) /\ a \in Seq(W) /\ c \in Seq(W)
    BY <1>18
  <2>4. Mapped(f, more) = a \o p
    BY <1>7, <1>18, AppendIsConcat
  <2> HIDE DEF a, p, c
  <2>5. Associate(a, p, c)
    BY <2>3, Assoc
  <2>6. r = Mapped(f, more) \o c
    BY <2>2, <2>4, <2>5 DEF Associate
  <2> QED
    BY <1>20, <2>6 DEF Obeys, r, f, c, more
<1>21. CASE ~ NoLong(s)
  <2>1. PICK j \in 1 .. n : Stops(r, s, j)
    BY <1>10, <1>11, <1>21 DEF Obeys, n
  <2>2. IsLong(s[j]) /\ Len(r) = j /\ r[j] = Left
        /\ \A k \in 1 .. j - 1 : ~ IsLong(s[k]) /\ r[k] = Answer(s[k])
    BY <2>1 DEF Stops
  <2>3. j \in 1 .. n + 1 /\ \A k \in 1 .. j - 1 : k \in 1 .. n
    BY <1>3
  <2>4. more[j] = s[j] /\ \A k \in 1 .. j - 1 : more[k] = s[k]
    BY <1>3, <2>3
  <2>5. Stops(r, more, j)
    BY <1>3, <2>2, <2>3, <2>4 DEF Stops
  <2>6. ~ NoLong(more)
    BY <1>14, <1>21
  <2> QED
    BY <1>3, <2>3, <2>5, <2>6 DEF Obeys, r, more
<1>22. CASE NoLong(s) /\ IsLong(d)
  <2> DEFINE a == Mapped(f, s)
             j == n + 1
  <2>1. client_thread(later) = <<Left>>
    BY <1>12, <1>16, <1>22
  <2>2. r = a \o <<Left>>
    BY <1>10, <1>11, <1>22, <2>1 DEF Obeys, f
  <2>3. Left \in W
    BY DEF W, Outcomes
  <2>4. r = Append(a, Left)
    BY <1>18, <2>2, <2>3, AppendIsConcat
  <2>5. a \in Seq(W) /\ Len(a) = n /\ \A k \in 1 .. n : a[k] = f[s[k]]
    BY <1>19 DEF IsMapped, n
  <2> HIDE DEF a
  <2>6. Len(r) = n + 1 /\ r[n + 1] = Left /\ \A k \in 1 .. n : r[k] = a[k]
    BY <1>3, <2>3, <2>4, <2>5, AppendProperties
  <2>7. \A k \in 1 .. n : s[k] \in D /\ ~ IsLong(s[k])
    BY <1>22, ElementOfSeq DEF NoLong, n
  <2>8. \A k \in 1 .. n : ~ IsLong(more[k]) /\ r[k] = Answer(more[k])
    BY <1>3, <1>4, <2>5, <2>6, <2>7
  <2>9. j \in 1 .. n + 1 /\ j - 1 = n
    BY <1>3
  <2>10. Len(r) = j /\ r[j] = Left /\ more[j] = d
    BY <1>3, <2>6
  <2> HIDE DEF j
  <2>11. Stops(r, more, j)
    BY <1>3, <1>22, <2>8, <2>9, <2>10 DEF Stops
  <2>12. ~ NoLong(more)
    BY <1>14, <1>22
  <2> QED
    BY <1>3, <2>9, <2>11, <2>12 DEF Obeys, r, more
<1> QED
  BY <1>14, <1>20, <1>21, <1>22

LEMMA ObeysAlways ==
    ASSUME NEW V, Telnet \subseteq V, NEW D, AreTyped(D, V), NEW s \in Seq(D), NEW rest \in Seq(V)
    PROVE  Obeys(s, rest, D)
<1> DEFINE S == {t \in Seq(D) : \A rr \in Seq(V) : Obeys(t, rr, D)}
<1>1. <<>> \in S
  <2>1. <<>> \in Seq(D)
    OBVIOUS
  <2> QED
    BY <2>1, ObeysNone
<1>2. ASSUME NEW t \in Seq(D), NEW d \in D, t \in S PROVE Append(t, d) \in S
  <2>1. Append(t, d) \in Seq(D)
    BY AppendProperties
  <2>2. \A rr \in Seq(V) : Obeys(t, rr, D)
    BY <1>2
  <2>3. ASSUME NEW rr \in Seq(V) PROVE Obeys(Append(t, d), rr, D)
    BY <2>2, ObeysMore
  <2> QED
    BY <2>1, <2>3
<1>3. Grows(S, D)
  <2> HIDE DEF S
  <2> QED
    BY <1>1, <1>2 DEF Grows
<1>4. s \in S
  <2> HIDE DEF S
  <2> QED
    BY <1>3, SnocInduction
<1> QED
  BY <1>4

\* What a stream is read as, named part by part as ReadAsMeant does.
Longs(typed) == {k \in DOMAIN typed : Len(Sent(typed[k])) >= LineSize}

AnswersRight(d, answer) ==
    IF Len(Sent(d)) >= ParseSize THEN answer = SyntaxError ELSE Short(d) => answer = Meant(d)

IsReadAs(typed, read, longs, n) ==
    /\ Len(read) = IF longs = {} THEN n ELSE n + 1
    /\ longs # {} => read[n + 1] = Left
    /\ \A k \in 1 .. n : AnswersRight(typed[k], read[k])

\* Commands typed one after the other, of any length and with any signals among
\* their bytes, are read as they were meant and in that order, up to the one
\* too long for the line buffer: client_thread, net_receive_line and
\* proto_parse_command, for every size of their buffers.
THEOREM CommandsAreRead ==
    ASSUME NEW V, Telnet \subseteq V, NEW D, AreTyped(D, V), NEW typed \in Seq(D)
    PROVE  ReadAsMeant(typed)
<1> DEFINE r == client_thread(Stream(typed))
           L == Longs(typed)
           m == Len(typed)
           n == Before1(L, m)
<1>1. m \in Nat /\ DOMAIN typed = 1 .. m /\ \A k \in 1 .. m : typed[k] \in D
  BY LenProperties, ElementOfSeq
<1>2. ReadAsMeant(typed) <=> IsReadAs(typed, r, L, n)
  BY DEF ReadAsMeant, IsReadAs, AnswersRight, Longs, Before1, Stream
<1>3. \A k \in 1 .. m : AnswersRight(typed[k], Answer(typed[k]))
  <2> SUFFICES ASSUME NEW k \in 1 .. m PROVE AnswersRight(typed[k], Answer(typed[k]))
    OBVIOUS
  <2> DEFINE d == typed[k]
  <2>1. IsTyped(d, V)
    BY <1>1 DEF AreTyped
  <2> HIDE DEF d
  <2>2. AnswersRight(d, Answer(d))
    BY <2>1, ParseIs DEF AnswersRight, Answer
  <2> QED
    BY <2>2 DEF d
<1>4. Stream(typed) \in Seq(V)
  BY StreamIs
<1>5. Obeys(typed, <<>>, D)
  <2>1. <<>> \in Seq(V)
    OBVIOUS
  <2> QED
    BY <2>1, ObeysAlways
<1>6. r = client_thread(Stream(typed) \o <<>>)
  <2>1. Stream(typed) \o <<>> = Stream(typed)
    BY <1>4, ConcatEmptySeq
  <2> QED
    BY <2>1
<1>7. L \in SUBSET (1 .. m) /\ \A k \in 1 .. m : k \in L <=> IsLong(typed[k])
  BY <1>1 DEF Longs, IsLong
<1> HIDE DEF r, L, m, n
<1>8. CASE NoLong(typed)
  <2> DEFINE a == Mapped(Answers(D), typed)
             W == Outcomes(V)
  <2>1. L = {}
    BY <1>7, <1>8 DEF NoLong, m
  <2>2. n = m
    BY <1>1, <2>1, NothingBefore DEF n
  <2>3. Answers(D) \in [D -> W] /\ \A d \in D : Answers(D)[d] = Answer(d)
    <3>1. \A d \in D : Sent(d) \in Seq(V)
      BY SentIs DEF AreTyped
    <3> QED
      BY <3>1 DEF Answers, Answer, Outcomes
  <2> HIDE DEF W
  <2>4. a \in Seq(W) /\ IsMapped(a, Answers(D), typed, W)
    BY <2>3, MappedType
  <2>5. r = a \o client_thread(<<>>)
    BY <1>5, <1>6, <1>8 DEF Obeys
  <2> HIDE DEF a
  <2>6. r = a
    BY <2>4, <2>5, ClientNone, ConcatEmptySeq
  <2>7. Len(a) = m /\ \A k \in 1 .. m : a[k] = Answer(typed[k])
    BY <1>1, <2>3, <2>4 DEF IsMapped, m
  <2>8. \A k \in 1 .. n : AnswersRight(typed[k], r[k])
    BY <1>3, <2>2, <2>6, <2>7
  <2>9. IsReadAs(typed, r, L, n)
    BY <2>1, <2>2, <2>6, <2>7, <2>8 DEF IsReadAs
  <2> QED
    BY <1>2, <2>9
<1>9. CASE ~ NoLong(typed)
  <2>1. PICK j \in 1 .. m : Stops(r, typed, j)
    BY <1>5, <1>6, <1>9 DEF Obeys, m
  <2>2. IsLong(typed[j]) /\ Len(r) = j /\ r[j] = Left
        /\ \A k \in 1 .. j - 1 : ~ IsLong(typed[k]) /\ r[k] = Answer(typed[k])
    BY <2>1 DEF Stops
  <2>3. j \in L
    BY <1>7, <2>2
  <2>4. \A k \in L : j <= k
    <3> SUFFICES ASSUME NEW k \in L, ~ (j <= k) PROVE FALSE
      OBVIOUS
    <3>1. k \in 1 .. m /\ IsLong(typed[k])
      BY <1>7
    <3>2. k \in 1 .. j - 1
      BY <1>1, <3>1
    <3> QED
      BY <2>2, <3>1, <3>2
  <2>5. n = j - 1
    BY <1>1, <1>7, <2>3, <2>4, LeastBefore DEF n
  <2>6. n + 1 = j /\ \A k \in 1 .. n : k \in 1 .. m /\ k \in 1 .. j - 1
    BY <1>1, <2>5
  <2>7. \A k \in 1 .. n : AnswersRight(typed[k], r[k])
    BY <1>3, <2>2, <2>6
  <2>8. IsReadAs(typed, r, L, n)
    BY <2>2, <2>3, <2>6, <2>7 DEF IsReadAs
  <2> QED
    BY <1>2, <2>8
<1> QED
  BY <1>8, <1>9

-----------------------------------------------------------------------------
(* The inputs                                                              *)

LEMMA BoundedIsSeq ==
    ASSUME NEW S, NEW T, S \subseteq T, NEW n, NEW s \in BoundedSeq(S, n)
    PROVE  s \in Seq(T)
<1>1. PICK m \in 0 .. n : s \in [1 .. m -> S]
  BY DEF BoundedSeq, SeqOf
<1>2. m \in Nat /\ s \in [1 .. m -> T]
  BY <1>1
<1> QED
  BY <1>2, FunctionIsSeq

Characters == {"CR", "LF", "x", "o"}

\* An upload: what has arrived of its stream, in the segments of recv.
UploadInput ==
    /\ given.kind = "upload" /\ input.offset \in 0 .. Len(given.file)
    /\ input.stream \in Seq(Characters) /\ input.cuts \in Seq(Nat)
    /\ IsCut(input.stream, input.cuts)
    /\ input = [kind |-> "upload", offset |-> input.offset, stream |-> input.stream,
                cuts |-> input.cuts]

DownloadInput == input.file \in Seq(Characters) /\ input.offset \in Nat

\* The characters of a path argument.
Signs == {"/", "\\", ".", "a", "b", "^"}

PathInput == /\ IsDirectory(input.base, Signs) /\ input.p \in Seq(Signs)
             /\ input.q \in Seq(Signs)

PortsInput ==
    /\ input.min \in Port \ {0} /\ input.max \in Port /\ input.min <= input.max
    /\ input.start \in 0 .. input.max - input.min /\ input.free \in SUBSET Port

\* The commands of the instance, and the bytes of them.
Commands == FirstLines \cup NextLines
LineBytes == {"a", "b", "A"} \cup Telnet

LinesInput == input.typed \in Seq(Commands)

\* The inputs the model makes are inputs the code can be given.
InputInv ==
    /\ given \in Given
    /\ input.kind = "upload" => UploadInput
    /\ input.kind = "download" => DownloadInput
    /\ input.kind = "path" => PathInput
    /\ input.kind = "lines" => LinesInput
    /\ input.kind = "ports" => PortsInput

LEMMA NamesAreSigns == \A p \in Names : p \in Seq(Signs)
<1> SUFFICES ASSUME NEW p \in Names PROVE p \in Seq(Signs)
  OBVIOUS
<1>1. {"/", "\\", ".", "a"} \subseteq Signs
  BY DEF Signs
<1>2. p \in BoundedSeq({"/", "\\", ".", "a"}, MaxName)
  BY DEF Names
<1> QED
  BY <1>1, <1>2, BoundedIsSeq

\* The directories of the instance are directories a session can be in.
LEMMA BasesAreDirectories == \A base \in Bases : IsDirectory(base, Signs)
<1> DEFINE V == Signs
           W == NoBack(V)
           a == <<"a">>
           b == <<"b">>
           s == <<"/">>
<1>1. /\ "/" \in V /\ "/" \in W /\ a \in Seq(W) /\ b \in Seq(W) /\ Len(a) = 1 /\ Len(b) = 1
      /\ a[1] = "a" /\ b[1] = "b"
  BY DEF Signs, NoBack
<1>2. "/" \notin Control /\ "a" \notin Control /\ "b" \notin Control
  BY LettersAreNoControl
<1>3. Len(Dots(1)) = 1 /\ Dots(1)[1] = "." /\ Len(Dots(2)) = 2
  <2>1. Dots(1) \in [1 .. 1 -> {"."}] /\ Dots(2) \in [1 .. 2 -> {"."}]
    BY DEF Dots
  <2> QED
    BY <2>1, FunctionIsSeq
<1>4. a \in Plain(W) /\ b \in Plain(W)
  <2>1. \A i \in 1 .. 1 : i = 1
    OBVIOUS
  <2> HIDE DEF a, b, W
  <2>2. a \in Runs(W) /\ b \in Runs(W)
    BY <1>1, <2>1 DEF Runs
  <2>3. a # Dots(1) /\ b # Dots(1)
    BY <1>1, <1>3
  <2>4. a # Dots(2)
    <3>1. Len(a) = 1
      BY <1>1
    <3>2. Len(Dots(2)) = 2
      BY <1>3
    <3>3. Len(a) # Len(Dots(2))
      BY <3>1, <3>2
    <3> QED
      BY <3>3
  <2>5. b # Dots(2)
    <3>1. Len(b) = 1
      BY <1>1
    <3>2. Len(Dots(2)) = 2
      BY <1>3
    <3>3. Len(b) # Len(Dots(2))
      BY <3>1, <3>2
    <3> QED
      BY <3>3
  <2> QED
    BY <2>2, <2>3, <2>4, <2>5 DEF Plain
<1> DEFINE none == <<>>
           one == Append(none, a)
           two == Append(one, b)
<1>5. /\ none \in Seq(Plain(W)) /\ none \in Seq(Runs(W))
      /\ one \in Seq(Plain(W)) /\ one \in Seq(Runs(W)) /\ one # none
      /\ two \in Seq(Plain(W))
  <2>1. Plain(W) \subseteq Runs(W)
    BY DEF Plain
  <2> HIDE DEF a, b, W
  <2> QED
    BY <1>4, <2>1, AppendProperties
<1>6. a \in Runs(W) /\ b \in Runs(W)
  BY <1>4 DEF Plain
<1>7. Build(none) = s /\ Sound(Build(none))
  BY RootIsSound
<1>8. Build(one) = s \o a
  BY <1>1, <1>5, <1>6, BuildSnoc
<1>9. Build(two) = Build(one) \o (s \o b)
  BY <1>1, <1>5, <1>6, BuildSnoc
<1>10. W \subseteq V /\ a \in Seq(V) /\ b \in Seq(V)
  BY DEF NoBack, Signs
<1>11. proto_validate_path(a) /\ proto_validate_path(b)
  <2>1. (\A i \in 1 .. 1 : i = 1) /\ \A i \in 1 .. 1 - 1 : FALSE
    OBVIOUS
  <2>2. (\A i \in 1 .. Len(a) : a[i] \notin Control) /\ \A i \in 1 .. Len(a) - 1 : FALSE
    BY <1>1, <1>2, <2>1
  <2>3. (\A i \in 1 .. Len(b) : b[i] \notin Control) /\ \A i \in 1 .. Len(b) - 1 : FALSE
    BY <1>1, <1>2, <2>1
  <2> HIDE DEF a, b
  <2>4. proto_validate_path(a)
    BY <1>10, <2>2, ValidIs
  <2>5. proto_validate_path(b)
    BY <1>10, <2>3, ValidIs
  <2> QED
    BY <2>4, <2>5
<1> HIDE DEF a, b
<1>12. s \o a \in Seq(V) /\ <<>> \o (s \o a) = s \o a
  <2> DEFINE sa == s \o a
  <2>1. sa \in Seq(V)
    BY <1>1, <1>10, NamesJoin
  <2> HIDE DEF sa
  <2>2. <<>> \o sa = sa
    BY <2>1, ConcatEmptySeq
  <2> QED
    BY <2>1, <2>2 DEF sa
<1>13. Sound(Build(one))
  <2>1. Sound(<<>>)
    <3>1. Len(<<>>) = 0 /\ (\A i \in 2 .. 0 : FALSE) /\ (\A i \in 2 .. 0 - 1 : FALSE)
      OBVIOUS
    <3> QED
      BY <3>1 DEF Sound
  <2>2. Sound(<<>> \o (s \o a))
    <3>1. <<>> \in Seq(V)
      OBVIOUS
    <3> QED
      BY <1>1, <1>10, <1>11, <2>1, <3>1, SoundMore
  <2> QED
    BY <1>8, <1>12, <2>2
<1>14. Sound(Build(two))
  <2>1. Build(one) \in Seq(V)
    BY <1>8, <1>12
  <2>2. Sound(Build(one) \o (s \o b))
    BY <1>1, <1>10, <1>11, <1>13, <2>1, SoundMore
  <2> QED
    BY <1>9, <2>2
<1>15. Build(one) = <<"/", "a">>
  <2>1. s \o a = <<"/", "a">>
    BY Ones DEF a
  <2> QED
    BY <1>8, <2>1
<1>16. Build(two) = <<"/", "a", "/", "b">>
  <2>1. <<"/", "a">> \o (s \o b) = <<"/", "a", "/", "b">>
    <3>1. s \o b = <<"/", "b">>
      BY Ones DEF b
    <3> QED
      BY <3>1, Twos
  <2> QED
    BY <1>9, <1>15, <2>1
<1> HIDE DEF none, one, two, W
<1>17. IsDirectory(Build(none), V) /\ IsDirectory(Build(one), V) /\ IsDirectory(Build(two), V)
  BY <1>5, <1>7, <1>13, <1>14 DEF IsDirectory, W
<1> QED
  BY <1>7, <1>15, <1>16, <1>17 DEF Bases

LEMMA SignalMore ==
    ASSUME NEW s, IsSignal(s), NEW u \in SignalUnits
    PROVE  IsSignal(s \o u)
<1> DEFINE B == SignalBytes
<1>1. PICK us \in Seq(SignalUnits) : s = Concat(us)
  BY DEF IsSignal
<1>2. SignalUnits \subseteq Seq(B)
  BY DEF SignalUnits, SignalBytes
<1>3. us \in Seq(Seq(B)) /\ u \in Seq(B)
  BY <1>2, SeqMonotonic
<1>4. Concat(Append(us, u)) = Concat(us) \o u
  BY <1>3, ConcatSnoc
<1>5. Append(us, u) \in Seq(SignalUnits)
  BY AppendProperties
<1> QED
  BY <1>1, <1>4, <1>5 DEF IsSignal

LEMMA FourTwos == \A x, y : <<x, y, x, y>> \o <<x, y>> = <<x, y, x, y, x, y>>
<1> SUFFICES ASSUME NEW x, NEW y PROVE <<x, y, x, y>> \o <<x, y>> = <<x, y, x, y, x, y>>
  OBVIOUS
<1> DEFINE T == {x, y}
           a == <<x, y, x, y>>
           b == <<x, y>>
           c == <<x, y, x, y, x, y>>
           d == a \o b
<1>1. a \in Seq(T) /\ b \in Seq(T) /\ c \in Seq(T) /\ Len(a) = 4 /\ Len(b) = 2 /\ Len(c) = 6
  OBVIOUS
<1>2. /\ a[1] = x /\ a[2] = y /\ a[3] = x /\ a[4] = y /\ b[1] = x /\ b[2] = y
      /\ c[1] = x /\ c[2] = y /\ c[3] = x /\ c[4] = y /\ c[5] = x /\ c[6] = y
  OBVIOUS
<1> HIDE DEF a, b, c, T
<1>3. d \in Seq(T) /\ Len(d) = Len(a) + Len(b) /\ Is2(d, a, b)
  BY <1>1, Elements
<1> HIDE DEF d
<1>4. Len(d) = 6
  BY <1>1, <1>3
<1>5. 1 \in 1 .. 4 /\ 2 \in 1 .. 4 /\ 3 \in 1 .. 4 /\ 4 \in 1 .. 4 /\ 1 \in 1 .. 2 /\ 2 \in 1 .. 2
  OBVIOUS
<1>6. 4 + 1 = 5 /\ 4 + 2 = 6
      /\ \A i \in 1 .. 6 : i = 1 \/ i = 2 \/ i = 3 \/ i = 4 \/ i = 5 \/ i = 6
  OBVIOUS
<1>7. (\A i \in 1 .. 4 : d[i] = a[i]) /\ \A i \in 1 .. 2 : d[4 + i] = b[i]
  BY <1>1, <1>3 DEF Is2
<1>8. d[1] = x /\ d[2] = y /\ d[3] = x /\ d[4] = y
  BY <1>2, <1>5, <1>7
<1>9. d[5] = x /\ d[6] = y
  <2>1. d[4 + 1] = b[1] /\ d[4 + 2] = b[2]
    BY <1>5, <1>7
  <2> QED
    BY <1>2, <1>6, <2>1
<1>10. \A i \in 1 .. 6 : d[i] = c[i]
  BY <1>2, <1>6, <1>8, <1>9
<1>11. d = c
  BY <1>1, <1>3, <1>4, <1>10, SeqEqual
<1> QED
  BY <1>11 DEF a, b, c, d

LEMMA SignalsAreSignals == \A s \in Signals : IsSignal(s)
<1> DEFINE ip == <<"IP">>
           iacip == <<"IAC", "IP">>
           iacdm == <<"IAC", "DM">>
<1>1. ip \in SignalUnits /\ iacip \in SignalUnits /\ iacdm \in SignalUnits
  BY DEF SignalUnits
<1>2. ip \in Seq(SignalBytes) /\ iacip \in Seq(SignalBytes) /\ iacdm \in Seq(SignalBytes)
  BY DEF SignalBytes
<1>3. iacip \o iacdm = <<"IAC", "IP", "IAC", "DM">> /\ iacdm \o iacdm = <<"IAC", "DM", "IAC", "DM">>
  BY Twos
<1>4. <<"IAC", "DM", "IAC", "DM">> \o iacdm = <<"IAC", "DM", "IAC", "DM", "IAC", "DM">>
  BY FourTwos
<1> HIDE DEF ip, iacip, iacdm
<1>5. IsSignal(<<>>)
  <2>1. <<>> \in Seq(SignalUnits) /\ Concat(<<>>) = <<>>
    BY ConcatNone
  <2> QED
    BY <2>1 DEF IsSignal
<1>6. <<>> \o ip = ip /\ <<>> \o iacip = iacip /\ <<>> \o iacdm = iacdm
  BY <1>2, ConcatEmptySeq
<1>7. IsSignal(ip) /\ IsSignal(iacip) /\ IsSignal(iacdm)
  <2>1. IsSignal(<<>> \o ip) /\ IsSignal(<<>> \o iacip) /\ IsSignal(<<>> \o iacdm)
    BY <1>1, <1>5, SignalMore
  <2> QED
    BY <1>6, <2>1
<1>8. IsSignal(iacip \o iacdm) /\ IsSignal(iacdm \o iacdm)
  BY <1>1, <1>7, SignalMore
<1>9. IsSignal((iacdm \o iacdm) \o iacdm)
  BY <1>1, <1>8, SignalMore
<1> QED
  BY <1>3, <1>4, <1>5, <1>7, <1>8, <1>9 DEF Signals, ip, iacip

\* The commands of the instance are commands as they are typed.
AreNames(names, V) == \A n \in names : n \in Seq(Quiet(V) \ {"IP", "SP"}) /\ n # <<>>

AreArguments(args, V) ==
    \A a \in args : /\ a \in Seq(Quiet(V) \ {"IP"})
                    /\ a # <<>> => a[1] # "SP" /\ a[Len(a)] # "SP"

LEMMA TypedAre ==
    ASSUME NEW V, NEW names, NEW args, NEW signals, AreNames(names, V), AreArguments(args, V),
           \A s \in signals : IsSignal(s)
    PROVE  AreTyped(Typed(names, args, signals), V)
<1> SUFFICES ASSUME NEW c \in Typed(names, args, signals) PROVE IsTyped(c, V)
  BY DEF AreTyped
<1> DEFINE With(n, a, s) == {[name |-> n, argument |-> a, signal |-> s, at |-> i] :
                                i \in 1 .. Len(Text([name |-> n, argument |-> a])) + 1}
<1>7. Typed(names, args, signals) = UNION {With(n, a, s) : n \in names, a \in args, s \in signals}
  BY DEF Typed
<1>8. PICK n \in names, a \in args, s \in signals : c \in With(n, a, s)
  <2> HIDE DEF With
  <2> QED
    BY <1>7
<1>1. PICK i \in 1 .. Len(Text([name |-> n, argument |-> a])) + 1 :
         c = [name |-> n, argument |-> a, signal |-> s, at |-> i]
  BY <1>8
<1>2. c.name = n /\ c.argument = a /\ c.signal = s /\ c.at = i
  BY <1>1
<1>3. Text(c) = Text([name |-> n, argument |-> a])
  BY <1>2 DEF Text
<1>4. c.at \in 1 .. Len(Text(c)) + 1
  BY <1>1, <1>2, <1>3
<1>5. n \in Seq(Quiet(V) \ {"IP", "SP"}) /\ n # <<>>
  BY DEF AreNames
<1>6. a \in Seq(Quiet(V) \ {"IP"}) /\ (a # <<>> => a[1] # "SP" /\ a[Len(a)] # "SP")
  BY DEF AreArguments
<1> QED
  BY <1>2, <1>4, <1>5, <1>6 DEF IsTyped

LEMMA CommandsAreTyped == AreTyped(Commands, LineBytes)
<1> DEFINE V == LineBytes
           W == Quiet(V) \ {"IP"}
           X == Quiet(V) \ {"IP", "SP"}
<1>1. "a" \in X /\ "b" \in X /\ "A" \in X /\ "a" \in W /\ "IAC" \in W /\ "SP" \in W
  BY DEF LineBytes, Quiet, Telnet
<1> HIDE DEF W, X
<1>2. /\ <<"a">> \in Seq(X) /\ <<"A", "b">> \in Seq(X) /\ <<"A">> \in Seq(X)
      /\ <<"a">> # <<>> /\ <<"A", "b">> # <<>> /\ <<"A">> # <<>>
  BY <1>1
<1>3. AreNames({<<"a">>, <<"A", "b">>}, V) /\ AreNames({<<"A">>}, V)
  BY <1>2 DEF AreNames, X
<1>4. /\ <<>> \in Seq(W) /\ <<"a">> \in Seq(W) /\ <<"IAC">> \in Seq(W)
      /\ <<"a", "SP", "IAC">> \in Seq(W) /\ <<"a", "a", "a", "a">> \in Seq(W)
      /\ <<"a", "SP", "a">> \in Seq(W)
  BY <1>1
<1>5. ASSUME NEW a \in Arguments \cup {<<>>, <<"a", "SP", "a">>}
      PROVE  a \in Seq(W) /\ (a # <<>> => a[1] # "SP" /\ a[Len(a)] # "SP")
  <2>1. a \in Seq(W)
    BY <1>4 DEF Arguments
  <2>2. a = <<>> \/ (a[1] # "SP" /\ a[Len(a)] # "SP")
    BY DEF Arguments
  <2> QED
    BY <2>1, <2>2
<1>6. AreArguments(Arguments, V) /\ AreArguments({<<>>, <<"a", "SP", "a">>}, V)
  BY <1>5 DEF AreArguments, W
<1>7. \A s \in Signals : IsSignal(s)
  BY SignalsAreSignals
<1>8. \A s \in {<<>>, <<"IAC", "IP">>} : IsSignal(s)
  BY <1>7 DEF Signals
<1> HIDE DEF V
<1>9. AreTyped(FirstLines, V) /\ AreTyped(NextLines, V)
  BY <1>3, <1>6, <1>7, <1>8, TypedAre DEF FirstLines, NextLines
<1> QED
  BY <1>9 DEF AreTyped, Commands, V

LEMMA GivenFiles ==
    ASSUME given \in Given
    PROVE  /\ given.kind \in {"upload", "download"} => given.file \in Seq(Characters)
           /\ given.kind = "path" => IsDirectory(given.base, Signs) /\ given.p \in Seq(Signs)
           /\ given.kind = "lines" => given.line \in FirstLines
           /\ given.kind = "ports" => given.min \in Port \ {0} /\ given.max \in Port
<1>1. CASE given \in [kind : {"upload"}, file : OldFiles]
  <2>1. given.kind = "upload" /\ given.file \in BoundedSeq({"o"}, MaxFile)
    BY <1>1 DEF OldFiles
  <2>2. {"o"} \subseteq Characters
    BY DEF Characters
  <2> QED
    BY <2>1, <2>2, BoundedIsSeq
<1>2. CASE given \in [kind : {"download"}, file : Texts(MaxStream)]
  <2>1. given.kind = "download" /\ given.file \in BoundedSeq({"CR", "LF", "x"}, MaxStream)
    BY <1>2 DEF Texts
  <2>2. {"CR", "LF", "x"} \subseteq Characters
    BY DEF Characters
  <2> QED
    BY <2>1, <2>2, BoundedIsSeq
<1>3. CASE given \in [kind : {"path"}, base : Bases, p : Names]
  <2>1. given.kind = "path" /\ given.base \in Bases /\ given.p \in Names
    BY <1>3
  <2>2. IsDirectory(given.base, Signs)
    BY <2>1, BasesAreDirectories
  <2>3. given.p \in Seq(Signs)
    BY <2>1, NamesAreSigns
  <2> QED
    BY <2>1, <2>2, <2>3
<1>4. CASE given \in [kind : {"lines"}, line : FirstLines]
  BY <1>4
<1>5. CASE given \in [kind : {"ports"}, min : Port \ {0}, max : Port]
  BY <1>5
<1> QED
  BY <1>1, <1>2, <1>3, <1>4, <1>5 DEF Given

\* One more segment of at most a buffer makes a stream that is cut, of one.
LEMMA CutOnce ==
    ASSUME NEW V, NEW stream \in Seq(V), NEW cuts \in Seq(Nat), IsCut(stream, cuts),
           NEW segment \in Seq(V), Len(segment) \in 1 .. Buffer
    PROVE  /\ stream \o segment \in Seq(V)
           /\ Append(cuts, Len(stream) + Len(segment)) \in Seq(Nat)
           /\ IsCut(stream \o segment, Append(cuts, Len(stream) + Len(segment)))
<1> DEFINE n == Len(stream)
           m == Len(cuts)
           c == n + Len(segment)
           whole == stream \o segment
           more == Append(cuts, c)
<1>1. /\ n \in Nat /\ m \in Nat /\ Len(segment) \in Nat /\ DOMAIN cuts = 1 .. m
      /\ \A k \in 1 .. m : cuts[k] \in Nat
  BY LenProperties, ElementOfSeq
<1>2. whole \in Seq(V) /\ Len(whole) = c
  BY ConcatProperties
<1>3. c \in Nat /\ c - n \in 1 .. Buffer
  BY <1>1
<1>4. /\ more \in Seq(Nat) /\ Len(more) = m + 1 /\ \A k \in 1 .. m : more[k] = cuts[k]
      /\ more[m + 1] = c
  BY <1>1, <1>3, AppendProperties
<1>5. DOMAIN more = 1 .. m + 1 /\ more # <<>> /\ (cuts = <<>> <=> m = 0)
  BY <1>1, <1>4
<1>6. (\A k \in 1 .. m : cuts[k] - Start(cuts, k) \in 1 .. Buffer)
      /\ n = IF m = 0 THEN 0 ELSE cuts[m]
  BY <1>1, <1>5 DEF IsCut
<1> HIDE DEF n, m, c, whole, more
<1>7. Start(more, m + 1) = n
  <2>1. CASE m = 0
    BY <1>6, <2>1 DEF Start
  <2>2. CASE m # 0
    <3>1. m \in 1 .. m /\ m + 1 # 1 /\ (m + 1) - 1 = m
      BY <1>1, <2>2
    <3> QED
      BY <1>4, <1>6, <2>2, <3>1 DEF Start
  <2> QED
    BY <2>1, <2>2
<1>8. \A k \in 1 .. m : Start(more, k) = Start(cuts, k)
  <2>1. \A k \in 1 .. m : k # 1 => k - 1 \in 1 .. m
    BY <1>1
  <2> QED
    BY <1>4, <2>1 DEF Start
<1>9. \A k \in 1 .. m + 1 : more[k] - Start(more, k) \in 1 .. Buffer
  <2>1. \A k \in 1 .. m + 1 : k \in 1 .. m \/ k = m + 1
    BY <1>1
  <2> QED
    BY <1>3, <1>4, <1>6, <1>7, <1>8, <2>1
<1>10. IsCut(whole, more)
  BY <1>2, <1>4, <1>5, <1>9 DEF IsCut
<1> QED
  BY <1>2, <1>4, <1>10 DEF whole, more, c, n

LEMMA InputStart == Init => InputInv
<1> SUFFICES ASSUME Init PROVE InputInv
  OBVIOUS
<1>1. given \in Given /\ input.kind = "none"
  BY DEF Init, None
<1> QED
  BY <1>1 DEF InputInv

LEMMA InputStep == InputInv /\ [Next]_vars => InputInv'
<1> SUFFICES ASSUME InputInv, [Next]_vars PROVE InputInv'
  OBVIOUS
<1>1. given' = given
  BY DEF Next, vars
<1>2. given' \in Given
  BY <1>1 DEF InputInv
<1>3. CASE given.kind = "upload" /\ Upload
  <2>1. PICK offset \in 0 .. Len(given.file) :
           input' = [kind |-> "upload", offset |-> offset, stream |-> <<>>, cuts |-> <<>>]
    BY <1>3 DEF Upload
  <2>2. <<>> \in Seq(Characters) /\ <<>> \in Seq(Nat) /\ IsCut(<<>>, <<>>)
    BY DEF IsCut
  <2>3. UploadInput'
    BY <1>1, <1>3, <2>1, <2>2 DEF UploadInput
  <2>4. input'.kind = "upload"
    BY <2>1
  <2> QED
    BY <1>2, <2>3, <2>4 DEF InputInv
<1>4. CASE given.kind = "download" /\ Download
  <2>1. PICK offset \in 0 .. Len(given.file) + 1 :
           input' = [kind |-> "download", file |-> given.file, offset |-> offset]
    BY <1>4 DEF Download
  <2>2. given.file \in Seq(Characters) /\ offset \in Nat
    BY <1>4, GivenFiles DEF InputInv
  <2>3. DownloadInput' /\ input'.kind = "download"
    BY <2>1, <2>2 DEF DownloadInput
  <2> QED
    BY <1>2, <2>3 DEF InputInv
<1>5. CASE given.kind = "path" /\ Path
  <2>1. PICK q \in Names \cup {<<"^">>, <<"a", "^">>} :
           input' = [kind |-> "path", base |-> given.base, p |-> given.p, q |-> q]
    BY <1>5 DEF Path
  <2>2. q \in Seq(Signs)
    <3>1. <<"^">> \in Seq(Signs) /\ <<"a", "^">> \in Seq(Signs)
      BY DEF Signs
    <3> QED
      BY <3>1, NamesAreSigns
  <2>3. IsDirectory(given.base, Signs) /\ given.p \in Seq(Signs)
    BY <1>5, GivenFiles DEF InputInv
  <2>4. PathInput' /\ input'.kind = "path"
    BY <2>1, <2>2, <2>3 DEF PathInput
  <2> QED
    BY <1>2, <2>4 DEF InputInv
<1>6. CASE given.kind = "lines" /\ Type
  <2>1. given.line \in Commands
    BY <1>6, GivenFiles DEF InputInv, Commands
  <2>2. ASSUME input' = [kind |-> "lines", typed |-> <<given.line>>]
        PROVE  LinesInput' /\ input'.kind = "lines"
    <3>1. <<given.line>> \in Seq(Commands)
      BY <2>1
    <3> QED
      BY <2>2, <3>1 DEF LinesInput
  <2>3. ASSUME NEW d \in NextLines, input' = [kind |-> "lines", typed |-> <<given.line, d>>]
        PROVE  LinesInput' /\ input'.kind = "lines"
    <3>1. d \in Commands
      BY DEF Commands
    <3>2. <<given.line, d>> \in Seq(Commands)
      BY <2>1, <3>1
    <3> QED
      BY <2>3, <3>2 DEF LinesInput
  <2>4. LinesInput' /\ input'.kind = "lines"
    BY <1>6, <2>2, <2>3 DEF Type
  <2> QED
    BY <1>2, <2>4 DEF InputInv
<1>7. CASE given.kind = "ports" /\ given.min <= given.max /\ Bind
  <2>1. PICK start \in 0 .. given.max - given.min,
             free \in UNION {kSubset(k, Port) : k \in 0 .. 2} :
           input' = [kind |-> "ports", min |-> given.min, max |-> given.max, start |-> start,
                     free |-> free]
    BY <1>7 DEF Bind
  <2>2. free \in SUBSET Port
    BY DEF kSubset
  <2>3. given.min \in Port \ {0} /\ given.max \in Port
    BY <1>7, GivenFiles DEF InputInv
  <2>4. PortsInput' /\ input'.kind = "ports"
    BY <1>7, <2>1, <2>2, <2>3 DEF PortsInput
  <2> QED
    BY <1>2, <2>4 DEF InputInv
<1>8. CASE input.kind = "upload" /\ Recv
  <2>1. UploadInput
    BY <1>8 DEF InputInv
  <2>2. PICK segment \in Texts(Buffer) \ {<<>>} :
           input' = [input EXCEPT !.stream = input.stream \o segment,
                                  !.cuts = Append(input.cuts, Len(input.stream) + Len(segment))]
    BY <1>8 DEF Recv
  <2>3. segment \in Seq(Characters) /\ Len(segment) \in 1 .. Buffer
    <3>1. segment \in BoundedSeq({"CR", "LF", "x"}, Buffer) /\ segment # <<>>
      BY <2>2 DEF Texts
    <3>2. segment \in Seq(Characters)
      <4>1. {"CR", "LF", "x"} \subseteq Characters
        BY DEF Characters
      <4> QED
        BY <3>1, <4>1, BoundedIsSeq
    <3>3. PICK m \in 0 .. Buffer : segment \in [1 .. m -> {"CR", "LF", "x"}]
      BY <3>1 DEF BoundedSeq, SeqOf
    <3>4. Len(segment) = m /\ m \in Nat /\ Len(segment) # 0
      <4>1. m \in Nat
        BY <3>3
      <4>2. Len(segment) = m
        BY <3>3, <4>1, FunctionIsSeq
      <4> QED
        BY <3>1, <3>2, <4>1, <4>2, EmptySeq
    <3> QED
      BY <3>2, <3>3, <3>4
  <2> DEFINE stream == input.stream \o segment
             cuts == Append(input.cuts, Len(input.stream) + Len(segment))
  <2>4. stream \in Seq(Characters) /\ cuts \in Seq(Nat) /\ IsCut(stream, cuts)
    BY <2>1, <2>3, CutOnce DEF UploadInput
  <2> HIDE DEF stream, cuts
  <2>5. input' = [kind |-> "upload", offset |-> input.offset, stream |-> stream, cuts |-> cuts]
    <3> DEFINE Of(a, b, c) == [kind |-> "upload", offset |-> a, stream |-> b, cuts |-> c]
    <3>1. input = Of(input.offset, input.stream, input.cuts)
      BY <2>1 DEF UploadInput
    <3>2. input' = [[input EXCEPT !.stream = stream] EXCEPT !.cuts = cuts]
      BY <2>2 DEF stream, cuts
    <3>3. \A a, b, c, s : [Of(a, b, c) EXCEPT !.stream = s] = Of(a, s, c)
      OBVIOUS
    <3>4. \A a, b, c, s : [Of(a, b, c) EXCEPT !.cuts = s] = Of(a, b, s)
      OBVIOUS
    <3> HIDE DEF Of
    <3>5. [input EXCEPT !.stream = stream] = Of(input.offset, stream, input.cuts)
      BY <3>1, <3>3
    <3>6. input' = [Of(input.offset, stream, input.cuts) EXCEPT !.cuts = cuts]
      BY <3>2, <3>5
    <3>7. input' = Of(input.offset, stream, cuts)
      BY <3>4, <3>6
    <3> QED
      BY <3>7 DEF Of
  <2>6. given.kind = "upload" /\ input.offset \in 0 .. Len(given.file)
    BY <2>1 DEF UploadInput
  <2>7. UploadInput' /\ input'.kind = "upload"
    BY <1>1, <2>4, <2>5, <2>6 DEF UploadInput
  <2> QED
    BY <1>2, <2>7 DEF InputInv
<1>9. CASE UNCHANGED vars
  BY <1>9 DEF vars, InputInv, UploadInput, DownloadInput, PathInput, LinesInput, PortsInput
<1> QED
  BY <1>3, <1>4, <1>5, <1>6, <1>7, <1>8, <1>9 DEF Next

THEOREM InputAlways == Spec => []InputInv
  BY InputStart, InputStep, PTL DEF Spec

\* ASCII mode changes line ends and nothing else, in every state of the model:
\* for every size of the buffer and every way recv cuts a stream.
THEOREM AsciiAlways == Spec => []AsciiExact
<1>1. InputInv => AsciiExact
  <2> SUFFICES ASSUME InputInv PROVE AsciiExact
    OBVIOUS
  <2>1. Small[1] \notin Characters /\ "CR" \in Characters
    BY DEF Small, Characters
  <2>2. ASSUME input.kind = "upload"
        PROVE  UploadIsExact(given.file, input.offset, input.stream, input.cuts)
    <3>1. UploadInput /\ given \in Given
      BY <2>2 DEF InputInv
    <3>2. given.file \in Seq(Characters)
      BY <3>1, GivenFiles DEF UploadInput
    <3> QED
      BY <2>1, <3>1, <3>2, UploadExact DEF UploadInput
  <2>3. ASSUME input.kind = "download" PROVE DownloadIsExact(input.file, input.offset)
    BY <2>1, <2>3, DownloadExact DEF InputInv, DownloadInput
  <2> QED
    BY <2>2, <2>3 DEF AsciiExact
<1> QED
  BY <1>1, InputAlways, PTL

\* The passive range is searched whole, from wherever the search starts, and
\* the port found is the port told.
THEOREM PortsAlways == Spec => []PortsExact
<1>1. InputInv => PortsExact
  <2> SUFFICES ASSUME InputInv, input.kind = "ports"
               PROVE  /\ FindsFree(input.min, input.max, input.start, input.free)
                      /\ Carries(input.min) /\ Carries(input.max)
    BY DEF PortsExact
  <2>1. PortsInput
    BY DEF InputInv
  <2> QED
    BY <2>1, SearchIsComplete, BytesCarryPort DEF PortsInput
<1> QED
  BY <1>1, InputAlways, PTL

\* A path argument names one file, from every directory a session can be in
\* and whatever the sizes of the buffers: its result is in the one form that
\* names it, going there in two steps is as going in one, ".." goes up and a
\* name goes down.
THEOREM PathsAlways == Spec => []PathsExact
<1>1. InputInv => PathsExact
  <2> SUFFICES ASSUME InputInv, input.kind = "path"
               PROVE  /\ IsCanonical(input.base, input.p \o input.q)
                      /\ Composes(input.base, input.p, input.q)
                      /\ GoesUp(input.base, input.p)
                      /\ GoesDown(input.base, input.p)
    BY DEF PathsExact
  <2>1. PathInput
    BY DEF InputInv
  <2>2. {"/", "."} \subseteq Signs /\ "/" \in Signs
    BY DEF Signs
  <2>3. IsDirectory(input.base, Signs) /\ input.p \in Seq(Signs) /\ input.q \in Seq(Signs)
    BY <2>1 DEF PathInput
  <2>4. Absolute(input.base, Signs) /\ input.p \o input.q \in Seq(Signs)
    BY <2>2, <2>3, DirectoryIs, Elements
  <2>5. IsCanonical(input.base, input.p \o input.q)
    BY <2>2, <2>4, PathIsCanonical
  <2>6. Composes(input.base, input.p, input.q)
    BY <2>2, <2>3, <2>4, PathComposes
  <2>7. GoesUp(input.base, input.p)
    BY <2>2, <2>3, PathGoesUp
  <2>8. GoesDown(input.base, input.p)
    BY <2>2, <2>3, PathGoesDown
  <2> QED
    BY <2>5, <2>6, <2>7, <2>8
<1> QED
  BY <1>1, InputAlways, PTL

\* Commands are read as typed, in every state of the model: for all sizes of
\* the buffers and every set of Telnet's commands with the two signals in it.
THEOREM LinesAlways == Spec => []LinesExact
<1>1. InputInv => LinesExact
  <2> SUFFICES ASSUME InputInv, input.kind = "lines" PROVE ReadAsMeant(input.typed)
    BY DEF LinesExact
  <2>1. input.typed \in Seq(Commands)
    BY DEF InputInv, LinesInput
  <2>2. Telnet \subseteq LineBytes
    BY DEF LineBytes
  <2> QED
    BY <2>1, <2>2, CommandsAreTyped, CommandsAreRead
<1> QED
  BY <1>1, InputAlways, PTL
=============================================================================
