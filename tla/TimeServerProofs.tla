-------------------------- MODULE TimeServerProofs --------------------------
(***************************************************************************)
(* Proofs about TimeServer and TemporalTable for every set of handles,     *)
(* times, domains and threads: the types; that the index, though it lags,  *)
(* can be searched; that the views of a table agree; that get and remove   *)
(* do what each criterion says; and that the default domain agrees with    *)
(* its AtTimeLinks.                                                        *)
(*                                                                         *)
(* First what the operations of a table do: to lists, to the index, to the *)
(* whole table.  Then the steps of the server.                             *)
(***************************************************************************)
EXTENDS TimeServer, FiniteSetTheorems, SequenceTheorems, TLAPS

----------------------------------------------------------------------------
(* Induction over the natural numbers, for sets.                            *)

(* A set of natural numbers that is not empty has a least one.              *)
LEMMA LeastNatural ==
  ASSUME NEW S, S \subseteq Nat, S # {}
  PROVE  \E m \in S : \A n \in S : m <= n
<1> DEFINE R == {ss \in Nat \X Nat : ss[1] < ss[2]}
<1>1. IsWellFoundedOn(R, Nat)
  BY NatLessThanWellFounded DEF OpToRel
<1>2. PICK m \in S : \A n \in S : ~(<<n, m>> \in R)
  <2> HIDE DEF R
  <2> QED
    BY <1>1, WFMin
<1>3. \A n \in S : ~(n < m)
  BY <1>2
<1> QED
  BY <1>3

(* A set that has 0 and with n has n + 1 has all natural numbers.           *)
LEMMA SetInduction ==
  ASSUME NEW S, 0 \in S, \A n \in Nat : n \in S => n + 1 \in S
  PROVE  \A n \in Nat : n \in S
<1> SUFFICES ASSUME NEW k \in Nat, k \notin S PROVE FALSE
  OBVIOUS
<1> DEFINE C == {n \in Nat : n \notin S}
<1>1. PICK m \in C : \A n \in C : m <= n
  <2>1. C \subseteq Nat /\ C # {}
    OBVIOUS
  <2> HIDE DEF C
  <2> QED
    BY <2>1, LeastNatural
<1>2. m \in Nat /\ m # 0 /\ m - 1 \in Nat /\ m - 1 \notin C
  BY <1>1
<1> QED
  BY <1>1, <1>2

(* The least and the greatest of a set of positions.                        *)
LEMMA MinFacts ==
  ASSUME NEW S, S \subseteq Nat, S # {}
  PROVE  Min(S) \in S /\ \A n \in S : Min(S) <= n
<1>1. \E m \in S : \A n \in S : m <= n
  BY LeastNatural
<1> QED
  BY <1>1 DEF Min

(* The greatest of a bounded set of positions.                              *)
LEMMA MaxFacts ==
  ASSUME NEW k \in Nat, NEW S, S \subseteq 0 .. k, S # {}
  PROVE  Max(S) \in S /\ \A n \in S : n <= Max(S)
<1> DEFINE C == {k - n : n \in S}
<1>1. PICK c \in C : \A d \in C : c <= d
  <2>1. PICK n \in S : TRUE
    OBVIOUS
  <2>2. k - n \in C /\ \A i \in S : k - i \in Nat
    BY <2>1
  <2>3. C \subseteq Nat /\ C # {}
    BY <2>2
  <2> HIDE DEF C
  <2> QED
    BY <2>3, LeastNatural
<1>2. PICK m \in S : c = k - m
  BY <1>1
<1>3. \A n \in S : n <= m
  <2> TAKE n \in S
  <2>1. k - m <= k - n
    BY <1>1, <1>2
  <2> QED
    BY <2>1
<1> QED
  BY <1>3 DEF Max

----------------------------------------------------------------------------
(* The order of the times.                                                  *)

(* The fields of a time.                                                    *)
LEMMA TimeFields ==
  ASSUME NEW t \in Temporals
  PROVE  t.lower \in Nat /\ t.upper \in Nat /\ t.lower <= t.upper /\ t.normal \in BOOLEAN
BY TableAssumption

(* Temporal::compareTo is a strict total order.                             *)
LEMMA LessOrder ==
  /\ \A a \in Temporals : ~Less(a, a)
  /\ \A a, b, c \in Temporals : Less(a, b) /\ Less(b, c) => Less(a, c)
  /\ \A a, b \in Temporals : a = b \/ Less(a, b) \/ Less(b, a)
  /\ \A a, b \in Temporals : Less(a, b) => a.lower <= b.lower
<1> DEFINE R == [lower : Nat, upper : Nat, normal : BOOLEAN]
<1>1. \A a, b \in R : a.lower = b.lower /\ a.upper = b.upper /\ a.normal = b.normal => a = b
  OBVIOUS
<1>2. Temporals \subseteq R
  BY TableAssumption
<1>3. \A a, b \in Temporals : a = b \/ Less(a, b) \/ Less(b, a)
  <2> SUFFICES ASSUME NEW a \in Temporals, NEW b \in Temporals PROVE a = b \/ Less(a, b) \/ Less(b, a)
    OBVIOUS
  <2>1. a.normal \in BOOLEAN /\ b.normal \in BOOLEAN
    BY TimeFields
  <2>2. a.normal = b.normal \/ (a.normal /\ ~b.normal) \/ (b.normal /\ ~a.normal)
    BY <2>1, SMT
  <2> QED
    BY <1>1, <1>2, <2>2, TimeFields DEF Less
<1>4. \A a, b, c \in Temporals : Less(a, b) /\ Less(b, c) => Less(a, c)
  BY TimeFields DEF Less
<1>5. \A a, b \in Temporals : Less(a, b) => a.lower <= b.lower
  BY TimeFields DEF Less
<1>6. \A a \in Temporals : ~Less(a, a)
  BY TimeFields DEF Less
<1> QED
  BY <1>3, <1>4, <1>5, <1>6

----------------------------------------------------------------------------
(* Lists.                                                                   *)

(* A strictly ordered list has each time once, and is as long as its range. *)
LEMMA SortedOnce ==
  ASSUME NEW list \in Seq(Temporals), Sorted(list)
  PROVE  /\ \A i, j \in 1 .. Len(list) : list[i] = list[j] => i = j
         /\ \A i, j \in 1 .. Len(list) : Less(list[i], list[j]) => i < j
         /\ \A i, j \in 1 .. Len(list) : i < j => Less(list[i], list[j])
         /\ \A i \in 1 .. Len(list) : list[i] \in Temporals
<1>1. \A i, j \in 1 .. Len(list) : i < j => Less(list[i], list[j])
  BY DEF Sorted
<1>2. \A i \in 1 .. Len(list) : list[i] \in Temporals
  OBVIOUS
<1>3. \A i, j \in 1 .. Len(list) : i = j \/ i < j \/ j < i
  OBVIOUS
<1> QED
  BY <1>1, <1>2, <1>3, LessOrder

(* The elements of a sequence.                                              *)
LEMMA RangeOf ==
  ASSUME NEW S, NEW list \in Seq(S)
  PROVE  /\ \A x : x \in Range(list) <=> \E i \in 1 .. Len(list) : list[i] = x
         /\ Range(list) \subseteq S
         /\ list = <<>> <=> Range(list) = {}
         /\ list = <<>> <=> Len(list) = 0
         /\ Len(list) \in Nat /\ DOMAIN list = 1 .. Len(list)
         /\ list # <<>> => Last(list) \in Range(list) /\ Last(list) = list[Len(list)] /\ Len(list) \in 1 .. Len(list)
<1>1. \A x : x \in Range(list) <=> \E i \in 1 .. Len(list) : list[i] = x
  BY DEF Range
<1>2. list = <<>> <=> Len(list) = 0
  BY EmptySeq
<1>3. Len(list) \in Nat /\ DOMAIN list = 1 .. Len(list) /\ \A i \in 1 .. Len(list) : list[i] \in S
  OBVIOUS
<1>4. Range(list) \subseteq S
  BY <1>1, <1>3
<1>5. list = <<>> <=> Range(list) = {}
  <2>1. list = <<>> => Range(list) = {}
    BY <1>1, <1>2
  <2>2. list # <<>> => list[1] \in Range(list)
    BY <1>1, <1>2, <1>3
  <2> QED
    BY <2>1, <2>2
<1>6. list # <<>> => Last(list) \in Range(list) /\ Last(list) = list[Len(list)] /\ Len(list) \in 1 .. Len(list)
  BY <1>1, <1>2, <1>3 DEF Last
<1> QED
  BY <1>1, <1>2, <1>3, <1>4, <1>5, <1>6

(* A sorted list has as many times as positions.                            *)
LEMMA SortedCount ==
  ASSUME NEW list \in Seq(Temporals), Sorted(list)
  PROVE  IsFiniteSet(Range(list)) /\ Cardinality(Range(list)) = Len(list)
<1>1. list \in [1 .. Len(list) -> Range(list)] /\ Len(list) \in Nat
  BY DEF Range
<1>2. list \in Bijection(1 .. Len(list), Range(list))
  <2>1. list \in Injection(1 .. Len(list), Range(list))
    BY <1>1, SortedOnce DEF Injection, IsInjective
  <2>2. list \in Surjection(1 .. Len(list), Range(list))
    BY <1>1, RangeOf DEF Surjection
  <2> QED
    BY <2>1, <2>2 DEF Bijection
<1>3. ExistsBijection(1 .. Len(list), Range(list))
  BY <1>2 DEF ExistsBijection
<1> QED
  BY <1>1, <1>3, FS_CountingElements, FS_NatBijection

(* PositionOf finds a time that is in the list.                             *)
LEMMA PositionFacts ==
  ASSUME NEW list \in Seq(Temporals), NEW t \in Range(list)
  PROVE  PositionOf(list, t) \in 1 .. Len(list) /\ list[PositionOf(list, t)] = t
<1>1. \E i \in DOMAIN list : list[i] = t
  BY DEF Range
<1>2. DOMAIN list = 1 .. Len(list)
  OBVIOUS
<1> QED
  BY <1>1, <1>2 DEF PositionOf

(* The tail of a list.                                                      *)
LEMMA LastFacts ==
  ASSUME NEW list \in Seq(Temporals), Sorted(list), list # <<>>
  PROVE  /\ Last(list) \in Range(list)
         /\ \A x \in Range(list) : ~Less(Last(list), x)
         /\ \A x \in Range(list) : (\A y \in Range(list) : ~Less(x, y)) => x = Last(list)
<1>1. Last(list) \in Range(list) /\ Last(list) = list[Len(list)] /\ Len(list) \in 1 .. Len(list)
  BY RangeOf
<1>2. \A x \in Range(list) : \E i \in 1 .. Len(list) : x = list[i]
  BY RangeOf
<1>3. \A x \in Range(list) : ~Less(Last(list), x)
  <2> SUFFICES ASSUME NEW i \in 1 .. Len(list), Less(Last(list), list[i]) PROVE FALSE
    BY <1>2
  <2> QED
    BY <1>1, SortedOnce
<1>4. Range(list) \subseteq Temporals
  BY RangeOf
<1> QED
  BY <1>1, <1>3, <1>4, LessOrder

(* A sequence is the function of its elements.                              *)
LEMMA SeqFunction ==
  ASSUME NEW S, NEW list \in Seq(S), NEW n, Len(list) = n
  PROVE  list = [k \in 1 .. n |-> list[k]]
OBVIOUS

(* Linking an entry in at position i, and unlinking the one there.          *)
LEMMA InsertFacts ==
  ASSUME NEW list \in Seq(Temporals), NEW i \in 1 .. Len(list) + 1, NEW t \in Temporals
  PROVE  /\ InsertAt(list, i, t) \in Seq(Temporals)
         /\ InsertAt(list, i, t) =
              [k \in 1 .. Len(list) + 1 |-> IF k < i THEN list[k] ELSE IF k = i THEN t ELSE list[k - 1]]
<1> DEFINE a == SubSeq(list, 1, i - 1)
           b == SubSeq(list, i, Len(list))
<1>1. a \in Seq(Temporals) /\ Len(a) = i - 1 /\ \A k \in 1 .. i - 1 : a[k] = list[k]
  OBVIOUS
<1>2. b \in Seq(Temporals) /\ Len(b) = Len(list) - i + 1 /\ \A k \in 1 .. Len(list) - i + 1 : b[k] = list[i + k - 1]
  OBVIOUS
<1>3. InsertAt(list, i, t) = (a \o <<t>>) \o b
  BY DEF InsertAt
<1>4. Len(list) \in Nat
  OBVIOUS
<1> HIDE DEF a, b
<1>5. a \o <<t>> \in Seq(Temporals) /\ Len(a \o <<t>>) = i /\ (a \o <<t>>)[i] = t
      /\ \A k \in 1 .. i - 1 : (a \o <<t>>)[k] = list[k]
  BY <1>1
<1> DEFINE c == a \o <<t>>
<1> HIDE DEF c
<1>6. c \o b \in Seq(Temporals) /\ Len(c \o b) = Len(list) + 1
      /\ \A k \in 1 .. Len(list) + 1 : (c \o b)[k] = IF k <= i THEN c[k] ELSE b[k - i]
  <2>1. c \in Seq(Temporals) /\ Len(c) = i
    BY <1>5 DEF c
  <2>2. /\ c \o b \in Seq(Temporals) /\ Len(c \o b) = Len(c) + Len(b)
        /\ \A k \in 1 .. Len(c) + Len(b) : (c \o b)[k] = IF k <= Len(c) THEN c[k] ELSE b[k - Len(c)]
    BY <1>2, <2>1, ConcatProperties
  <2>3. Len(c) + Len(b) = Len(list) + 1
    BY <1>2, <1>4, <2>1
  <2> QED
    BY <2>1, <2>2, <2>3
<1>7. \A k \in 1 .. Len(list) + 1 : k > i => k - i \in 1 .. Len(list) - i + 1 /\ i + (k - i) - 1 = k - 1
  BY <1>4
<1>8. \A k \in 1 .. Len(list) + 1 : (c \o b)[k] = IF k < i THEN list[k] ELSE IF k = i THEN t ELSE list[k - 1]
  BY <1>2, <1>4, <1>5, <1>6, <1>7 DEF c
<1>9. c \o b = [k \in 1 .. Len(list) + 1 |-> (c \o b)[k]]
  BY <1>6, SeqFunction
<1> QED
  BY <1>3, <1>6, <1>8, <1>9 DEF c

(* A list without the entry at one position.                                *)
LEMMA RemoveFacts ==
  ASSUME NEW list \in Seq(Temporals), NEW i \in 1 .. Len(list)
  PROVE  /\ RemoveAt(list, i) \in Seq(Temporals)
         /\ RemoveAt(list, i) = [k \in 1 .. Len(list) - 1 |-> IF k < i THEN list[k] ELSE list[k + 1]]
<1> DEFINE a == SubSeq(list, 1, i - 1)
           b == SubSeq(list, i + 1, Len(list))
<1>1. a \in Seq(Temporals) /\ Len(a) = i - 1 /\ \A k \in 1 .. i - 1 : a[k] = list[k]
  OBVIOUS
<1>2. b \in Seq(Temporals) /\ Len(b) = Len(list) - i /\ \A k \in 1 .. Len(list) - i : b[k] = list[i + k]
  OBVIOUS
<1>3. RemoveAt(list, i) = a \o b
  BY DEF RemoveAt
<1>4. Len(list) \in Nat
  OBVIOUS
<1> HIDE DEF a, b
<1>5. a \o b \in Seq(Temporals) /\ Len(a \o b) = Len(list) - 1
      /\ \A k \in 1 .. Len(list) - 1 : (a \o b)[k] = IF k <= i - 1 THEN a[k] ELSE b[k - (i - 1)]
  <2>1. /\ a \o b \in Seq(Temporals) /\ Len(a \o b) = Len(a) + Len(b)
        /\ \A k \in 1 .. Len(a) + Len(b) : (a \o b)[k] = IF k <= Len(a) THEN a[k] ELSE b[k - Len(a)]
    BY <1>1, <1>2, ConcatProperties
  <2>2. Len(a) = i - 1 /\ Len(a) + Len(b) = Len(list) - 1
    BY <1>1, <1>2, <1>4
  <2> QED
    BY <2>1, <2>2
<1>6. \A k \in 1 .. Len(list) - 1 : k > i - 1 => k - (i - 1) \in 1 .. Len(list) - i /\ i + (k - (i - 1)) = k + 1
  BY <1>4
<1>7. \A k \in 1 .. Len(list) - 1 : (a \o b)[k] = IF k < i THEN list[k] ELSE list[k + 1]
  BY <1>1, <1>2, <1>4, <1>5, <1>6
<1>8. a \o b = [k \in 1 .. Len(list) - 1 |-> (a \o b)[k]]
  BY <1>5, SeqFunction
<1> QED
  BY <1>3, <1>5, <1>7, <1>8

(* A time is put between the earlier and the later ones.                    *)
LEMMA InsertSorted ==
  ASSUME NEW list \in Seq(Temporals), Sorted(list), NEW i \in 1 .. Len(list) + 1, NEW t \in Temporals,
         \A k \in 1 .. Len(list) : k < i => Less(list[k], t),
         \A k \in 1 .. Len(list) : k >= i => Less(t, list[k])
  PROVE  /\ InsertAt(list, i, t) \in Seq(Temporals)
         /\ Sorted(InsertAt(list, i, t))
         /\ Range(InsertAt(list, i, t)) = Range(list) \cup {t}
         /\ t \notin Range(list)
<1> DEFINE R == InsertAt(list, i, t)
<1>1. /\ R \in Seq(Temporals)
      /\ R = [k \in 1 .. Len(list) + 1 |-> IF k < i THEN list[k] ELSE IF k = i THEN t ELSE list[k - 1]]
  BY InsertFacts
<1>2. Len(list) \in Nat /\ DOMAIN R = 1 .. Len(list) + 1 /\ Len(R) = Len(list) + 1
  BY <1>1
<1> HIDE DEF R
<1>6. \A x : x \in Range(R) <=> \E k \in 1 .. Len(list) + 1 : R[k] = x
  <2>1. R \in Seq(Temporals) /\ Len(R) = Len(list) + 1
    BY <1>1, <1>2
  <2> QED
    BY <2>1, RangeOf
<1>3. Sorted(R)
  <2> SUFFICES ASSUME NEW a \in 1 .. Len(list) + 1, NEW b \in 1 .. Len(list) + 1, a < b PROVE Less(R[a], R[b])
    BY <1>2 DEF Sorted
  <2>1. CASE b < i
    BY <2>1, <1>1, SortedOnce
  <2>2. CASE b = i
    BY <2>2, <1>1
  <2>3. CASE b > i /\ a < i
    <3>1. b - 1 \in 1 .. Len(list) /\ a \in 1 .. Len(list) /\ a < b - 1
      BY <2>3, <1>2
    <3>2. R[a] = list[a] /\ R[b] = list[b - 1]
      BY <2>3, <1>1
    <3> QED
      BY <3>1, <3>2, SortedOnce
  <2>4. CASE b > i /\ a = i
    <3>1. b - 1 \in 1 .. Len(list) /\ b - 1 >= i /\ R[a] = t /\ R[b] = list[b - 1]
      BY <2>4, <1>1, <1>2
    <3> QED
      BY <3>1
  <2>5. CASE b > i /\ a > i
    <3>1. a - 1 \in 1 .. Len(list) /\ b - 1 \in 1 .. Len(list) /\ a - 1 < b - 1 /\ R[a] = list[a - 1] /\ R[b] = list[b - 1]
      BY <2>5, <1>1, <1>2
    <3> QED
      BY <3>1, SortedOnce
  <2> QED
    BY <2>1, <2>2, <2>3, <2>4, <2>5
<1>4. Range(R) = Range(list) \cup {t}
  <2>1. ASSUME NEW x \in Range(R) PROVE x \in Range(list) \cup {t}
    <3>1. PICK k \in 1 .. Len(list) + 1 : R[k] = x
      BY <2>1, <1>6
    <3>2. x = t \/ \E j \in 1 .. Len(list) : x = list[j]
      <4>1. CASE k < i
        BY <4>1, <3>1, <1>1
      <4>2. CASE k = i
        BY <4>2, <3>1, <1>1
      <4>3. CASE k > i
        <5>1. k - 1 \in 1 .. Len(list) /\ x = list[k - 1]
          BY <4>3, <3>1, <1>1, <1>2
        <5> QED
          BY <5>1
      <4> QED
        BY <4>1, <4>2, <4>3
    <3> QED
      BY <3>2, RangeOf
  <2>2. t \in Range(R)
    <3>1. i \in 1 .. Len(list) + 1 /\ R[i] = t
      BY <1>1, <1>2
    <3> QED
      BY <3>1, <1>6
  <2>3. ASSUME NEW x \in Range(list) PROVE x \in Range(R)
    <3>1. PICK k \in 1 .. Len(list) : list[k] = x
      BY RangeOf
    <3>2. \E j \in 1 .. Len(list) + 1 : R[j] = x
      <4>1. CASE k < i
        <5>1. k \in 1 .. Len(list) + 1 /\ R[k] = x
          BY <4>1, <3>1, <1>1, <1>2
        <5> QED
          BY <5>1
      <4>2. CASE k >= i
        <5>1. k + 1 \in 1 .. Len(list) + 1 /\ k + 1 > i /\ (k + 1) - 1 = k
          BY <4>2, <1>1, <1>2
        <5>2. R[k + 1] = x
          BY <5>1, <3>1, <1>1
        <5> QED
          BY <5>1, <5>2
      <4> QED
        BY <4>1, <4>2
    <3> QED
      BY <3>2, <1>6
  <2> QED
    BY <2>1, <2>2, <2>3
<1>5. t \notin Range(list)
  <2> SUFFICES ASSUME NEW k \in 1 .. Len(list), list[k] = t PROVE FALSE
    BY RangeOf
  <2> QED
    BY LessOrder
<1> QED
  BY <1>1, <1>3, <1>4, <1>5 DEF R

(* TemporalEntry::add, from the head or from an entry that is not later,    *)
(* keeps the order and adds the time and nothing else.                      *)
LEMMA AddFromFacts ==
  ASSUME NEW list \in Seq(Temporals), Sorted(list), NEW t \in Temporals, NEW p,
         p = 1 \/ (p \in 1 .. Len(list) /\ ~Less(t, list[p]))
  PROVE  /\ AddFrom(list, p, t) \in Seq(Temporals)
         /\ Sorted(AddFrom(list, p, t))
         /\ Range(AddFrom(list, p, t)) = Range(list) \cup {t}
<1> DEFINE later == {j \in p .. Len(list) : ~Less(list[j], t)}
           i == IF later = {} THEN Len(list) + 1 ELSE Min(later)
<1>1. Len(list) \in Nat /\ p \in Nat /\ p >= 1
  OBVIOUS
<1>2. \A k \in 1 .. Len(list) : list[k] \in Temporals
  OBVIOUS
<1>3. \A k \in 1 .. Len(list) : k < p => Less(list[k], t)
  <2> SUFFICES ASSUME NEW k \in 1 .. Len(list), k < p PROVE Less(list[k], t)
    OBVIOUS
  <2>1. p \in 1 .. Len(list) /\ ~Less(t, list[p])
    BY <1>1
  <2>2. Less(list[k], list[p])
    BY <2>1, SortedOnce
  <2> QED
    BY <2>1, <2>2, <1>2, LessOrder
<1>4. AddFrom(list, p, t) = CASE i <= Len(list) /\ list[i] = t -> list
                               [] i > 1 /\ i = p /\ i <= Len(list) -> list
                               [] OTHER -> InsertAt(list, i, t)
  BY DEF AddFrom
<1>5. i \in 1 .. Len(list) + 1 /\ (\A k \in 1 .. Len(list) : k < i => Less(list[k], t))
      /\ (i <= Len(list) => i \in p .. Len(list) /\ ~Less(list[i], t))
  <2>1. CASE later = {}
    <3>1. i = Len(list) + 1
      BY <2>1
    <3>2. \A k \in 1 .. Len(list) : k >= p => Less(list[k], t)
      BY <2>1, <1>1
    <3> HIDE DEF i
    <3> QED
      BY <3>1, <3>2, <1>1, <1>3
  <2>2. CASE later # {}
    <3>1. later \subseteq Nat
      BY <1>1
    <3>2. Min(later) \in later /\ \A n \in later : Min(later) <= n
      BY <3>1, <2>2, MinFacts
    <3>3. i = Min(later)
      BY <2>2
    <3>4. i \in p .. Len(list) /\ ~Less(list[i], t)
      BY <3>2, <3>3
    <3>5. \A k \in 1 .. Len(list) : k >= p /\ k < i => Less(list[k], t)
      <4> SUFFICES ASSUME NEW k \in 1 .. Len(list), k >= p, k < i, ~Less(list[k], t) PROVE FALSE
        OBVIOUS
      <4>1. k \in later
        BY <1>1
      <4> HIDE DEF later
      <4>2. i <= k
        BY <3>2, <3>3, <4>1
      <4> HIDE DEF i
      <4>3. i \in Nat
        BY <3>4, <1>1
      <4> QED
        BY <4>2, <4>3
    <3> HIDE DEF i, later
    <3> QED
      BY <3>4, <3>5, <1>1, <1>3
  <2> QED
    BY <2>1, <2>2
<1> HIDE DEF i, later
<1>6. CASE i <= Len(list) /\ list[i] = t
  <2>1. t \in Range(list)
    BY <1>5, <1>6, RangeOf
  <2>2. AddFrom(list, p, t) = list
    BY <1>4, <1>6
  <2> QED
    BY <2>1, <2>2
<1>7. CASE ~(i <= Len(list) /\ list[i] = t)
  <2>1. \A k \in 1 .. Len(list) : k >= i => Less(t, list[k])
    <3> SUFFICES ASSUME NEW k \in 1 .. Len(list), k >= i PROVE Less(t, list[k])
      OBVIOUS
    <3>1. i \in 1 .. Len(list) /\ ~Less(list[i], t) /\ list[i] # t
      BY <1>1, <1>5, <1>7
    <3>2. Less(t, list[i])
      BY <3>1, <1>2, LessOrder
    <3>3. k = i \/ Less(list[i], list[k])
      BY <3>1, SortedOnce
    <3> QED
      BY <3>1, <3>2, <3>3, <1>2, LessOrder
  <2>2. ~(i > 1 /\ i = p /\ i <= Len(list))
    <3> SUFFICES ASSUME i > 1, i = p, i <= Len(list) PROVE FALSE
      OBVIOUS
    <3>1. i \in 1 .. Len(list) /\ ~Less(t, list[i])
      BY <1>1
    <3> QED
      BY <3>1, <2>1
  <2>3. AddFrom(list, p, t) = InsertAt(list, i, t)
    BY <1>4, <1>7, <2>2
  <2> QED
    BY <2>1, <2>3, <1>5, InsertSorted
<1> QED
  BY <1>6, <1>7

(* TemporalEntry::remove keeps the order and takes the time away.           *)
LEMMA UnlinkFacts ==
  ASSUME NEW list \in Seq(Temporals), Sorted(list), NEW t \in Range(list)
  PROVE  /\ Unlink(list, t) \in Seq(Temporals)
         /\ Sorted(Unlink(list, t))
         /\ Range(Unlink(list, t)) = Range(list) \ {t}
<1> DEFINE p == PositionOf(list, t)
           R == Unlink(list, t)
<1>1. p \in 1 .. Len(list) /\ list[p] = t /\ Len(list) \in Nat
  BY PositionFacts
<1>2. /\ R \in Seq(Temporals) /\ Len(R) = Len(list) - 1
      /\ R = [k \in 1 .. Len(list) - 1 |-> IF k < p THEN list[k] ELSE list[k + 1]]
  <2>1. /\ R \in Seq(Temporals)
        /\ R = [k \in 1 .. Len(list) - 1 |-> IF k < p THEN list[k] ELSE list[k + 1]]
    BY <1>1, RemoveFacts DEF Unlink
  <2> HIDE DEF p, R
  <2>2. DOMAIN R = 1 .. Len(list) - 1
    BY <2>1
  <2> QED
    BY <1>1, <2>1, <2>2
<1> HIDE DEF p, R
<1>6. \A x : x \in Range(R) <=> \E k \in 1 .. Len(list) - 1 : R[k] = x
  <2>1. R \in Seq(Temporals) /\ Len(R) = Len(list) - 1
    BY <1>2
  <2> QED
    BY <2>1, RangeOf
<1>3. Sorted(R)
  <2> SUFFICES ASSUME NEW a \in 1 .. Len(list) - 1, NEW b \in 1 .. Len(list) - 1, a < b PROVE Less(R[a], R[b])
    <3>1. DOMAIN R = 1 .. Len(list) - 1
      BY <1>2
    <3> QED
      BY <3>1 DEF Sorted
  <2> DEFINE a1 == IF a < p THEN a ELSE a + 1
             b1 == IF b < p THEN b ELSE b + 1
  <2>1. a1 \in 1 .. Len(list) /\ b1 \in 1 .. Len(list) /\ a1 < b1
    BY <1>1
  <2>2. R[a] = list[a1] /\ R[b] = list[b1]
    BY <1>2
  <2> HIDE DEF a1, b1
  <2> QED
    BY <2>1, <2>2, SortedOnce
<1>4. ASSUME NEW x \in Range(R) PROVE x \in Range(list) \ {t}
  <2>1. PICK k \in 1 .. Len(list) - 1 : R[k] = x
    BY <1>6
  <2> DEFINE j == IF k < p THEN k ELSE k + 1
  <2>2. j \in 1 .. Len(list) /\ j # p /\ x = list[j]
    BY <1>1, <1>2, <2>1
  <2> HIDE DEF j
  <2> QED
    BY <2>2, <1>1, SortedOnce, RangeOf
<1>5. ASSUME NEW x \in Range(list) \ {t} PROVE x \in Range(R)
  <2>1. PICK k \in 1 .. Len(list) : list[k] = x
    BY RangeOf
  <2>2. k # p
    BY <1>1, <2>1
  <2> DEFINE j == IF k < p THEN k ELSE k - 1
  <2>3. j \in 1 .. Len(list) - 1 /\ (j < p => j = k) /\ (~(j < p) => j + 1 = k)
    BY <1>1, <2>2
  <2> HIDE DEF j
  <2>4. j \in 1 .. Len(list) - 1 /\ R[j] = x
    BY <1>2, <2>1, <2>3
  <2> QED
    BY <2>4, <1>6
<1> QED
  BY <1>2, <1>3, <1>4, <1>5 DEF R

----------------------------------------------------------------------------
(* The binary search in the index.                                          *)

Nondecreasing(index) == \A i, j \in DOMAIN index : i < j => ~Less(index[j], index[i])

(* One step of getTemporalIndexTablePos, for the positions r[1] .. r[2].    *)
Ranges(n) == (0 .. n) \X (-1 .. n - 1)
Mid(r) == (r[1] + r[2]) \div 2
Half(index, t, r) == IF Less(t, index[Mid(r) + 1]) THEN <<r[1], Mid(r) - 1>> ELSE <<Mid(r) + 1, r[2]>>
SearchStep(index, t, f, r) ==
  IF index[Mid(r) + 1] = t THEN Mid(r)
  ELSE IF Half(index, t, r)[1] <= Half(index, t, r)[2] THEN f[Half(index, t, r)]
  ELSE Half(index, t, r)[2]

(* The middle of a range lies in it.                                        *)
LEMMA MidFacts ==
  ASSUME NEW n \in Nat, NEW r \in Ranges(n), r[1] <= r[2]
  PROVE  Mid(r) \in Int /\ r[1] <= Mid(r) /\ Mid(r) <= r[2] /\ Mid(r) + 1 \in 1 .. n
<1>1. r[1] \in 0 .. n /\ r[2] \in -1 .. n - 1
  BY DEF Ranges
<1>2. Mid(r) \in Int /\ 2 * Mid(r) <= r[1] + r[2] /\ r[1] + r[2] <= 2 * Mid(r) + 1
  BY <1>1 DEF Mid
<1> QED
  BY <1>1, <1>2

(* The half that the binary search goes on with is a smaller range.         *)
LEMMA HalfFacts ==
  ASSUME NEW index, NEW t, NEW n \in Nat, NEW r \in Ranges(n),
         Half(index, t, r)[1] <= Half(index, t, r)[2]
  PROVE  /\ Half(index, t, r) \in Ranges(n)
         /\ r[1] <= r[2]
         /\ Half(index, t, r)[2] - Half(index, t, r)[1] < r[2] - r[1]
<1>1. r[1] \in 0 .. n /\ r[2] \in -1 .. n - 1 /\ r = <<r[1], r[2]>>
  BY DEF Ranges
<1>2. Mid(r) \in Int /\ 2 * Mid(r) <= r[1] + r[2] /\ r[1] + r[2] <= 2 * Mid(r) + 1
  BY <1>1 DEF Mid
<1>3. CASE Less(t, index[Mid(r) + 1])
  <2>1. Half(index, t, r) = <<r[1], Mid(r) - 1>>
    BY <1>3 DEF Half
  <2> HIDE DEF Half
  <2>2. r[1] <= Mid(r) - 1
    BY <2>1
  <2>3. Mid(r) - 1 \in -1 .. n - 1 /\ r[1] <= r[2] /\ Mid(r) - 1 - r[1] < r[2] - r[1]
    BY <2>2, <1>1, <1>2
  <2> QED
    BY <2>1, <2>3, <1>1 DEF Ranges
<1>4. CASE ~Less(t, index[Mid(r) + 1])
  <2>1. Half(index, t, r) = <<Mid(r) + 1, r[2]>>
    BY <1>4 DEF Half
  <2> HIDE DEF Half
  <2>2. Mid(r) + 1 <= r[2]
    BY <2>1
  <2>3. Mid(r) + 1 \in 0 .. n /\ r[1] <= r[2] /\ r[2] - (Mid(r) + 1) < r[2] - r[1]
    BY <2>2, <1>1, <1>2
  <2> QED
    BY <2>1, <2>3, <1>1 DEF Ranges
<1> QED
  BY <1>3, <1>4

(* The recursion ends, so getTemporalIndexTablePos is a function.           *)
LEMMA SearchDefined ==
  ASSUME NEW index \in Seq(Temporals), NEW t
  PROVE  \E f : /\ f = [r \in Ranges(Len(index)) |-> SearchStep(index, t, f, r)]
                /\ getTemporalIndexTablePos(index, t) = f[<<0, Len(index) - 1>>]
<1> DEFINE n == Len(index)
           D(m) == {r \in Ranges(n) : r[2] - r[1] < m}
           Solved == {m \in Nat : \E f : f = [r \in D(m) |-> SearchStep(index, t, f, r)]}
<1>1. n \in Nat
  OBVIOUS
<1> HIDE DEF n
<1>2. \A r \in Ranges(n) : r[1] \in Int /\ r[2] \in Int /\ r[2] - r[1] < n
  BY <1>1 DEF Ranges
<1>3. 0 \in Solved
  <2> DEFINE f == [r \in D(0) |-> SearchStep(index, t, <<>>, r)]
  <2>1. ASSUME NEW r \in D(0) PROVE SearchStep(index, t, <<>>, r) = SearchStep(index, t, f, r)
    <3>1. r \in Ranges(n) /\ ~(r[1] <= r[2])
      BY <1>2
    <3>2. ~(Half(index, t, r)[1] <= Half(index, t, r)[2])
      BY <1>1, <3>1, HalfFacts
    <3> HIDE DEF f
    <3> QED
      BY <3>2 DEF SearchStep
  <2>2. f = [r \in D(0) |-> SearchStep(index, t, f, r)]
    <3>1. [r \in D(0) |-> SearchStep(index, t, <<>>, r)] = [r \in D(0) |-> SearchStep(index, t, f, r)]
      <4> HIDE DEF f, D
      <4> QED
        BY <2>1
    <3> QED
      BY <3>1
  <2> HIDE DEF f
  <2> QED
    BY <2>2
<1>4. ASSUME NEW m \in Nat, m \in Solved PROVE m + 1 \in Solved
  <2>1. PICK f : f = [r \in D(m) |-> SearchStep(index, t, f, r)]
    BY <1>4
  <2> DEFINE g == [r \in D(m + 1) |-> SearchStep(index, t, f, r)]
  <2>2. D(m) \subseteq D(m + 1)
    BY <1>2
  <2>3. \A r \in D(m) : g[r] = f[r]
    <3> HIDE DEF D
    <3> QED
      BY <2>1, <2>2
  <2>4. ASSUME NEW r \in D(m + 1) PROVE SearchStep(index, t, f, r) = SearchStep(index, t, g, r)
    <3>1. CASE Half(index, t, r)[1] <= Half(index, t, r)[2]
      <4> DEFINE s == Half(index, t, r)
      <4>1. r \in Ranges(n) /\ r[2] - r[1] < m + 1
        OBVIOUS
      <4>2. s \in Ranges(n) /\ s[2] - s[1] < r[2] - r[1]
        BY <4>1, <3>1, <1>1, HalfFacts
      <4>3. s \in D(m)
        BY <4>1, <4>2, <1>2
      <4>4. g[s] = f[s]
        BY <2>3, <4>3
      <4> HIDE DEF g, s, D
      <4> QED
        BY <4>4 DEF SearchStep, s
    <3>2. CASE ~(Half(index, t, r)[1] <= Half(index, t, r)[2])
      <4> HIDE DEF g
      <4> QED
        BY <3>2 DEF SearchStep
    <3> QED
      BY <3>1, <3>2
  <2>5. g = [r \in D(m + 1) |-> SearchStep(index, t, g, r)]
    <3>1. [r \in D(m + 1) |-> SearchStep(index, t, f, r)] = [r \in D(m + 1) |-> SearchStep(index, t, g, r)]
      <4> HIDE DEF g, D
      <4> QED
        BY <2>4
    <3> QED
      BY <3>1
  <2> HIDE DEF g, D
  <2> QED
    BY <2>5
<1>5. n \in Solved
  <2>1. \A m \in Nat : m \in Solved => m + 1 \in Solved
    BY <1>4
  <2> HIDE DEF Solved
  <2> QED
    BY <1>1, <1>3, <2>1, SetInduction
<1>6. D(n) = Ranges(n)
  BY <1>2
<1>7. \E f : f = [r \in Ranges(n) |-> SearchStep(index, t, f, r)]
  <2> HIDE DEF D
  <2> QED
    BY <1>5, <1>6
<1> DEFINE search == CHOOSE f : f = [r \in Ranges(n) |-> SearchStep(index, t, f, r)]
<1>8. search = [r \in Ranges(n) |-> SearchStep(index, t, search, r)]
  BY <1>7
<1>9. getTemporalIndexTablePos(index, t) = search[<<0, n - 1>>]
  BY DEF getTemporalIndexTablePos, SearchStep, Half, Mid, Ranges, n
<1> HIDE DEF search
<1> QED
  BY <1>8, <1>9 DEF n

(* What the search finds in an index that is in order: a position of t, if  *)
(* there is one, and never an entry later than t.                           *)
LEMMA SearchFacts ==
  ASSUME NEW index \in Seq(Temporals), index # <<>>, Nondecreasing(index), NEW t \in Temporals,
         NEW pos, pos = getTemporalIndexTablePos(index, t)
  PROVE  /\ pos \in -1 .. Len(index) - 1
         /\ pos >= 0 => ~Less(t, index[pos + 1])
         /\ t \in Range(index) => pos >= 0 /\ index[pos + 1] = t
<1> DEFINE n == Len(index)
           Inv(r) == /\ \A k \in 1 .. n : index[k] = t => r[1] <= k - 1 /\ k - 1 <= r[2]
                     /\ r[1] = 0 \/ ~Less(t, index[r[1]])
           Post(p) == /\ p \in -1 .. n - 1
                      /\ p >= 0 => ~Less(t, index[p + 1])
                      /\ (\E k \in 1 .. n : index[k] = t) => p >= 0 /\ index[p + 1] = t
<1>1. PICK f : /\ f = [r \in Ranges(n) |-> SearchStep(index, t, f, r)]
               /\ pos = f[<<0, n - 1>>]
  BY SearchDefined
<1>2. n \in Nat /\ n > 0 /\ DOMAIN index = 1 .. n /\ \A k \in 1 .. n : index[k] \in Temporals
  BY RangeOf
<1> DEFINE Done == {m \in Nat : \A r \in Ranges(n) : r[1] <= r[2] /\ r[2] - r[1] < m /\ Inv(r) => Post(f[r])}
<1> HIDE DEF n
<1>3. 0 \in Done
  BY DEF Ranges
<1>4. ASSUME NEW m \in Nat, m \in Done PROVE m + 1 \in Done
  <2> SUFFICES ASSUME NEW r \in Ranges(n), r[1] <= r[2], r[2] - r[1] < m + 1, Inv(r) PROVE Post(f[r])
    OBVIOUS
  <2> DEFINE e == index[Mid(r) + 1]
             s == Half(index, t, r)
  <2>1. r[1] \in 0 .. n /\ r[2] \in -1 .. n - 1
    BY DEF Ranges
  <2>2. Mid(r) \in Int /\ r[1] <= Mid(r) /\ Mid(r) <= r[2] /\ Mid(r) + 1 \in 1 .. n
    BY <1>2, MidFacts
  <2>3. e \in Temporals
    BY <2>2, <1>2
  <2>4. f[r] = IF e = t THEN Mid(r) ELSE IF s[1] <= s[2] THEN f[s] ELSE s[2]
    BY <1>1 DEF SearchStep
  <2>5. \A k \in 1 .. n : /\ k < Mid(r) + 1 => ~Less(e, index[k])
                          /\ k > Mid(r) + 1 => ~Less(index[k], e)
    BY <2>2, <1>2 DEF Nondecreasing
  <2>6. s = IF Less(t, e) THEN <<r[1], Mid(r) - 1>> ELSE <<Mid(r) + 1, r[2]>>
    BY DEF Half
  <2>7. s[1] <= s[2] => s \in Ranges(n) /\ s[2] - s[1] < r[2] - r[1]
    BY <1>2, HalfFacts
  <2>8. CASE e = t
    <3>1. f[r] = Mid(r) /\ ~Less(t, e)
      BY <2>4, <2>8, <2>3, LessOrder
    <3>2. Mid(r) \in -1 .. n - 1 /\ Mid(r) >= 0 /\ ~Less(t, index[Mid(r) + 1]) /\ index[Mid(r) + 1] = t
      BY <3>1, <2>1, <2>2, <2>8, <1>2
    <3> HIDE DEF s, e
    <3> QED
      BY <3>1, <3>2
  <2>9. CASE e # t /\ Less(t, e)
    <3>1. s = <<r[1], Mid(r) - 1>>
      BY <2>6, <2>9
    <3>2. \A k \in 1 .. n : index[k] = t => r[1] <= k - 1 /\ k - 1 <= Mid(r) - 1
      <4> SUFFICES ASSUME NEW k \in 1 .. n, index[k] = t PROVE r[1] <= k - 1 /\ k - 1 <= Mid(r) - 1
        OBVIOUS
      <4>1. ~(k > Mid(r) + 1) /\ k # Mid(r) + 1
        BY <2>5, <2>9
      <4> QED
        BY <4>1, <2>2
    <3> HIDE DEF s, e
    <3>3. CASE s[1] <= s[2]
      <4>1. s[1] = r[1] /\ s[2] = Mid(r) - 1
        BY <3>1
      <4>2. Inv(s)
        BY <3>2, <4>1
      <4>3. s \in Ranges(n) /\ s[2] - s[1] < m
        BY <2>7, <3>3, <4>1, <2>1, <2>2
      <4>4. Post(f[s])
        BY <4>2, <4>3, <3>3, <1>4
      <4> QED
        BY <4>4, <2>4, <2>9, <3>3
    <3>4. CASE ~(s[1] <= s[2])
      <4>1. s[1] = r[1] /\ s[2] = Mid(r) - 1
        BY <3>1
      <4>2. f[r] = r[1] - 1 /\ Mid(r) = r[1]
        BY <4>1, <3>4, <2>1, <2>2, <2>4, <2>9
      <4>3. ~\E k \in 1 .. n : index[k] = t
        BY <3>2, <4>2, <2>1
      <4>4. r[1] - 1 \in -1 .. n - 1 /\ (r[1] - 1) + 1 = r[1] /\ (r[1] - 1 >= 0 => r[1] # 0)
        BY <2>1, <1>2
      <4> QED
        BY <4>2, <4>3, <4>4
    <3> QED
      BY <3>3, <3>4
  <2>10. CASE e # t /\ ~Less(t, e)
    <3>1. s = <<Mid(r) + 1, r[2]>>
      BY <2>6, <2>10
    <3>2. \A k \in 1 .. n : index[k] = t => Mid(r) + 1 <= k - 1 /\ k - 1 <= r[2]
      <4> SUFFICES ASSUME NEW k \in 1 .. n, index[k] = t PROVE Mid(r) + 1 <= k - 1 /\ k - 1 <= r[2]
        OBVIOUS
      <4>1. Less(e, t)
        BY <2>10, <2>3, LessOrder
      <4>2. ~(k < Mid(r) + 1) /\ k # Mid(r) + 1
        BY <2>5, <2>10, <4>1
      <4> QED
        BY <4>2, <2>2
    <3>5. ~Less(t, index[Mid(r) + 1])
      BY <2>10
    <3> HIDE DEF s, e
    <3>6. s[1] = Mid(r) + 1 /\ s[2] = r[2]
      BY <3>1
    <3>3. CASE s[1] <= s[2]
      <4>2. Inv(s)
        BY <3>2, <3>5, <3>6
      <4>3. s \in Ranges(n) /\ s[2] - s[1] < m
        BY <2>7, <3>3, <3>6, <2>1, <2>2
      <4>4. Post(f[s])
        BY <4>2, <4>3, <3>3, <1>4
      <4> QED
        BY <4>4, <2>4, <2>10, <3>3
    <3>4. CASE ~(s[1] <= s[2])
      <4>2. f[r] = Mid(r) /\ Mid(r) = r[2]
        BY <3>6, <3>4, <2>1, <2>2, <2>4, <2>10
      <4>3. ~\E k \in 1 .. n : index[k] = t
        BY <3>2, <4>2, <2>1
      <4> QED
        BY <4>2, <4>3, <3>5, <2>1
    <3> QED
      BY <3>3, <3>4
  <2> HIDE DEF e
  <2> QED
    BY <2>8, <2>9, <2>10
<1>5. n \in Done
  <2>1. \A m \in Nat : m \in Done => m + 1 \in Done
    BY <1>4
  <2> HIDE DEF Done
  <2> QED
    BY <1>2, <1>3, <2>1, SetInduction
<1>6. <<0, n - 1>> \in Ranges(n) /\ Inv(<<0, n - 1>>)
  BY <1>2 DEF Ranges
<1>7. Post(pos)
  BY <1>1, <1>2, <1>5, <1>6
<1> QED
  BY <1>7, RangeOf DEF n

----------------------------------------------------------------------------
(* The index against the list.                                              *)

(* getPreviousTemporalEntry: an entry that is not later than t.             *)
LEMMA PreviousFacts ==
  ASSUME NEW T, NEW t \in Temporals, T.sortedTemporalList \in Seq(Temporals),
         T.temporalIndexTable \in Seq(Temporals), T.temporalIndexTable # <<>>,
         Nondecreasing(T.temporalIndexTable),
         Range(T.temporalIndexTable) \subseteq Range(T.sortedTemporalList)
  PROVE  \/ getPreviousTemporalEntry(T, t) = 0
         \/ /\ getPreviousTemporalEntry(T, t) \in 1 .. Len(T.sortedTemporalList)
            /\ ~Less(t, T.sortedTemporalList[getPreviousTemporalEntry(T, t)])
<1> DEFINE index == T.temporalIndexTable
           list == T.sortedTemporalList
           found == getTemporalIndexTablePos(index, t)
           pos == IF found >= 0 /\ index[found + 1] = t THEN found - 1 ELSE found
<1>1. getPreviousTemporalEntry(T, t) = IF pos < 0 THEN 0 ELSE PositionOf(list, index[pos + 1])
  BY DEF getPreviousTemporalEntry
<1>2. /\ found \in -1 .. Len(index) - 1
      /\ found >= 0 => ~Less(t, index[found + 1])
  BY SearchFacts
<1>3. Len(index) \in Nat /\ DOMAIN index = 1 .. Len(index) /\ \A k \in 1 .. Len(index) : index[k] \in Range(index)
  BY RangeOf
<1> HIDE DEF found
<1>4. CASE pos < 0
  BY <1>1, <1>4
<1>5. CASE ~(pos < 0)
  <2>1. pos + 1 \in 1 .. Len(index) /\ ~Less(t, index[pos + 1])
    <3>1. CASE found >= 0 /\ index[found + 1] = t
      <4>1. pos = found - 1 /\ pos + 1 \in DOMAIN index /\ found + 1 \in DOMAIN index /\ pos + 1 < found + 1
        BY <3>1, <1>2, <1>3, <1>5
      <4> HIDE DEF pos, index
      <4>2. ~Less(index[found + 1], index[pos + 1])
        BY <4>1 DEF Nondecreasing, index
      <4> QED
        BY <4>1, <4>2, <3>1, <1>3
    <3>2. CASE ~(found >= 0 /\ index[found + 1] = t)
      <4>1. pos = found
        BY <3>2
      <4> HIDE DEF pos, index
      <4> QED
        BY <4>1, <1>2, <1>3, <1>5
    <3> QED
      BY <3>1, <3>2
  <2>2. index[pos + 1] \in Range(list)
    BY <2>1, <1>3
  <2>3. getPreviousTemporalEntry(T, t) = PositionOf(list, index[pos + 1])
    BY <1>1, <1>5
  <2>4. PositionOf(list, index[pos + 1]) \in 1 .. Len(list) /\ list[PositionOf(list, index[pos + 1])] = index[pos + 1]
    BY <2>2, PositionFacts
  <2> HIDE DEF pos, index, list
  <2> QED
    BY <2>1, <2>3, <2>4 DEF list
<1> QED
  BY <1>4, <1>5

(* The last position before those of t.                                     *)
LEMMA BeforeFacts ==
  ASSUME NEW index \in Seq(Temporals), index # <<>>, Nondecreasing(index), NEW t \in Temporals,
         NEW pos, pos = getTemporalIndexTablePos(index, t), NEW b, b = Before(index, t, pos)
  PROVE  /\ pos \in -1 .. Len(index) - 1 /\ b \in 0 .. pos + 1
         /\ b = 0 \/ Less(index[b], t)
         /\ b = pos + 1 <=> t \notin Range(index)
         /\ \A k \in 1 .. b : index[k] # t
         /\ \A k \in b + 1 .. pos + 1 : index[k] = t
<1> DEFINE others == {i \in 1 .. pos + 1 : index[i] # t}
<1>1. /\ pos \in -1 .. Len(index) - 1
      /\ pos >= 0 => ~Less(t, index[pos + 1])
      /\ t \in Range(index) => pos >= 0 /\ index[pos + 1] = t
  BY SearchFacts
<1>2. Len(index) \in Nat /\ DOMAIN index = 1 .. Len(index) /\ \A k \in 1 .. Len(index) : index[k] \in Temporals /\ index[k] \in Range(index)
  BY RangeOf
<1>3. b = IF others = {} THEN 0 ELSE Max(others)
  BY DEF Before
<1>4. /\ b \in 0 .. pos + 1
      /\ b # 0 => b \in 1 .. pos + 1 /\ index[b] # t
      /\ \A k \in b + 1 .. pos + 1 : index[k] = t
  <2>1. CASE others = {}
    <3>1. b = 0
      BY <2>1, <1>3
    <3>2. \A k \in 1 .. pos + 1 : index[k] = t
      BY <2>1
    <3> QED
      BY <3>1, <3>2, <1>1
  <2>2. CASE others # {}
    <3>1. others \subseteq 0 .. pos + 1 /\ pos + 1 \in Nat
      BY <1>1, <1>2
    <3>2. b = Max(others)
      BY <2>2, <1>3
    <3>3. b \in others /\ \A n \in others : n <= b
      <4> HIDE DEF others
      <4> QED
        BY <2>2, <3>1, <3>2, MaxFacts
    <3>4. b \in 1 .. pos + 1 /\ index[b] # t
      BY <3>3
    <3>5. ASSUME NEW k \in b + 1 .. pos + 1, index[k] # t PROVE FALSE
      <4>1. k \in 1 .. pos + 1 /\ ~(k <= b)
        BY <3>4, <1>1
      <4>2. k \in others
        BY <4>1, <3>5
      <4> QED
        BY <4>1, <4>2, <3>3
    <3> QED
      BY <3>4, <3>5
  <2> QED
    BY <2>1, <2>2
<1> HIDE DEF others
<1>5. b # 0 => Less(index[b], t)
  <2> SUFFICES ASSUME b # 0 PROVE Less(index[b], t)
    OBVIOUS
  <2>1. b \in 1 .. Len(index) /\ pos + 1 \in 1 .. Len(index) /\ b <= pos + 1 /\ pos >= 0
    BY <1>1, <1>2, <1>4
  <2>2. b = pos + 1 \/ ~Less(index[pos + 1], index[b])
    BY <2>1, <1>2 DEF Nondecreasing
  <2>3. ~Less(t, index[pos + 1]) /\ index[b] # t
    BY <2>1, <1>1, <1>4
  <2> QED
    BY <2>1, <2>2, <2>3, <1>2, LessOrder
<1>6. \A k \in 1 .. b : index[k] # t
  <2> SUFFICES ASSUME NEW k \in 1 .. b, index[k] = t PROVE FALSE
    OBVIOUS
  <2>1. b \in 1 .. Len(index) /\ k \in 1 .. Len(index) /\ k <= b
    BY <1>1, <1>2, <1>4
  <2>2. k = b \/ ~Less(index[b], index[k])
    BY <2>1, <1>2 DEF Nondecreasing
  <2> QED
    BY <2>1, <2>2, <1>5, <1>2, LessOrder
<1>7. b = pos + 1 <=> t \notin Range(index)
  <2>1. ASSUME t \in Range(index), b = pos + 1 PROVE FALSE
    <3>1. b \in 1 .. b /\ index[b] = t
      BY <2>1, <1>1
    <3> QED
      BY <3>1, <1>6
  <2>2. ASSUME b # pos + 1 PROVE t \in Range(index)
    <3>1. pos + 1 \in b + 1 .. pos + 1 /\ pos + 1 \in 1 .. Len(index)
      BY <2>2, <1>1, <1>2, <1>4
    <3> QED
      BY <3>1, <1>2, <1>4
  <2> QED
    BY <2>1, <2>2
<1> QED
  BY <1>1, <1>4, <1>5, <1>6, <1>7

(* The entry after that of t.                                               *)
LEMMA NextFacts ==
  ASSUME NEW list \in Seq(Temporals), Sorted(list), NEW t \in Range(list), Last(list) # t,
         NEW next, next = list[PositionOf(list, t) + 1]
  PROVE  /\ next \in Range(list) /\ next # t
         /\ \A x \in Range(list) : Less(t, x) => ~Less(x, next)
         /\ Less(t, next)
<1> DEFINE p == PositionOf(list, t)
<1>1. p \in 1 .. Len(list) /\ list[p] = t /\ Len(list) \in Nat
  BY PositionFacts
<1>2. p # Len(list)
  BY <1>1, RangeOf
<1> HIDE DEF p
<1>3. p + 1 \in 1 .. Len(list) /\ next = list[p + 1]
  BY <1>1, <1>2 DEF p
<1>4. next \in Range(list) /\ next \in Temporals
  BY <1>3, RangeOf, SortedOnce
<1>5. Less(t, next)
  BY <1>1, <1>3, SortedOnce
<1>6. ASSUME NEW x \in Range(list), Less(t, x), Less(x, next) PROVE FALSE
  <2>1. PICK k \in 1 .. Len(list) : list[k] = x
    BY RangeOf
  <2>2. p < k /\ k < p + 1
    BY <1>1, <1>3, <1>6, <2>1, SortedOnce
  <2> QED
    BY <1>1, <2>1, <2>2
<1>7. t \in Temporals
  BY RangeOf
<1> QED
  BY <1>4, <1>5, <1>6, <1>7, LessOrder

(* Cutting the index off keeps a part of it.                                *)
LEMMA CutFacts ==
  ASSUME NEW index \in Seq(Temporals), NEW b \in 0 .. Len(index)
  PROVE  /\ SubSeq(index, 1, b) \in Seq(Temporals)
         /\ Len(SubSeq(index, 1, b)) = b
         /\ \A k \in 1 .. b : SubSeq(index, 1, b)[k] = index[k]
OBVIOUS

(* Before an entry is deleted no pointer to it is left in the index, every  *)
(* other entry of the index stays, and its order is kept.                   *)
LEMMA DropFacts ==
  ASSUME NEW T, NEW t, T.sortedTemporalList \in Seq(Temporals), Sorted(T.sortedTemporalList),
         T.temporalIndexTable \in Seq(Temporals), T.temporalIndexTable # <<>>,
         Nondecreasing(T.temporalIndexTable),
         Range(T.temporalIndexTable) \subseteq Range(T.sortedTemporalList),
         t \in Range(T.sortedTemporalList)
  PROVE  LET R == DropFromIndex(T, t, getTemporalIndexTablePos(T.temporalIndexTable, t)) IN
         /\ R \in Seq(Temporals) /\ Nondecreasing(R) /\ Len(R) <= Len(T.temporalIndexTable)
         /\ Range(R) \subseteq Range(T.sortedTemporalList) \ {t}
         /\ Range(T.temporalIndexTable) \ {t} \subseteq Range(R)
<1> DEFINE index == T.temporalIndexTable
           list == T.sortedTemporalList
           pos == getTemporalIndexTablePos(index, t)
           b == Before(index, t, pos)
           next == list[PositionOf(list, t) + 1]
           R == DropFromIndex(T, t, pos)
<1> SUFFICES /\ R \in Seq(Temporals) /\ Nondecreasing(R) /\ Len(R) <= Len(T.temporalIndexTable)
             /\ Range(R) \subseteq Range(T.sortedTemporalList) \ {t}
             /\ Range(T.temporalIndexTable) \ {t} \subseteq Range(R)
  OBVIOUS
<1>1. t \in Temporals
  BY RangeOf
<1>2. /\ pos \in -1 .. Len(index) - 1 /\ b \in 0 .. pos + 1
      /\ b = 0 \/ Less(index[b], t)
      /\ b = pos + 1 <=> t \notin Range(index)
      /\ \A k \in 1 .. b : index[k] # t
      /\ \A k \in b + 1 .. pos + 1 : index[k] = t
  <2>1. index \in Seq(Temporals) /\ index # <<>> /\ Nondecreasing(index)
    OBVIOUS
  <2>2. pos = getTemporalIndexTablePos(index, t) /\ b = Before(index, t, pos)
    OBVIOUS
  <2> HIDE DEF index, pos, b
  <2> QED
    BY ONLY <1>1, <2>1, <2>2, BeforeFacts
<1>3. R = IF b = pos + 1 THEN index
          ELSE IF Last(list) # t THEN [i \in DOMAIN index |-> IF index[i] = t THEN next ELSE index[i]]
               ELSE SubSeq(index, 1, b)
  BY DEF DropFromIndex
<1> HIDE DEF R
<1>4. list # <<>> /\ Range(list) \subseteq Temporals
  BY RangeOf
<1>5. /\ Len(index) \in Nat /\ DOMAIN index = 1 .. Len(index)
      /\ \A k \in 1 .. Len(index) : index[k] \in Temporals /\ index[k] \in Range(index) /\ index[k] \in Range(list)
      /\ \A x \in Range(index) : \E k \in 1 .. Len(index) : index[k] = x
  BY RangeOf
<1>6. CASE b = pos + 1
  BY <1>2, <1>3, <1>5, <1>6
<1>7. CASE b # pos + 1 /\ Last(list) # t
  <2>1. R = [i \in 1 .. Len(index) |-> IF index[i] = t THEN next ELSE index[i]]
    BY <1>3, <1>5, <1>7
  <2>2. /\ next \in Range(list) /\ next # t /\ Less(t, next)
        /\ \A x \in Range(list) : Less(t, x) => ~Less(x, next)
    BY <1>7, NextFacts
  <2>3. next \in Temporals
    BY <2>2, <1>4
  <2> HIDE DEF next, b, pos, index, list
  <2>4. \A k \in 1 .. Len(index) : R[k] = IF index[k] = t THEN next ELSE index[k]
    BY <2>1
  <2>5. R \in [1 .. Len(index) -> Temporals]
    BY <2>1, <2>3, <1>5
  <2>6. R \in Seq(Temporals) /\ Len(R) = Len(index)
    BY <2>5, <1>5
  <2>7. \A x : x \in Range(R) <=> \E k \in 1 .. Len(index) : R[k] = x
    BY <2>6, RangeOf
  <2>8. Nondecreasing(R)
    <3> SUFFICES ASSUME NEW i \in 1 .. Len(index), NEW j \in 1 .. Len(index), i < j, Less(R[j], R[i])
                 PROVE  FALSE
      BY <2>5 DEF Nondecreasing
    <3>1. ~Less(index[j], index[i])
      BY <1>5 DEF Nondecreasing, index
    <3>2. index[i] \in Temporals /\ index[j] \in Temporals /\ index[i] \in Range(list) /\ index[j] \in Range(list)
      BY <1>5
    <3>3. CASE index[i] = t /\ index[j] = t
      BY <3>3, <2>3, <2>4, LessOrder
    <3>4. CASE index[i] = t /\ index[j] # t
      <4>1. R[i] = next /\ R[j] = index[j]
        BY <3>4, <2>4
      <4>2. Less(t, index[j])
        BY <3>1, <3>2, <3>4, <1>1, LessOrder
      <4> QED
        BY <4>1, <4>2, <3>2, <2>2
    <3>5. CASE index[i] # t /\ index[j] = t
      <4>1. R[i] = index[i] /\ R[j] = next
        BY <3>5, <2>4
      <4> QED
        BY <4>1, <3>1, <3>2, <3>5, <2>2, <2>3, <1>1, LessOrder
    <3>6. CASE index[i] # t /\ index[j] # t
      BY <3>1, <3>6, <2>4
    <3> QED
      BY <3>3, <3>4, <3>5, <3>6
  <2>9. Range(R) \subseteq Range(list) \ {t}
    BY <2>2, <2>4, <2>7, <1>5
  <2>10. Range(index) \ {t} \subseteq Range(R)
    <3> SUFFICES ASSUME NEW k \in 1 .. Len(index), index[k] # t PROVE index[k] \in Range(R)
      BY <1>5
    <3> QED
      BY <2>4, <2>7
  <2> QED
    BY <2>6, <2>8, <2>9, <2>10, <1>5 DEF index, list
<1>8. CASE b # pos + 1 /\ Last(list) = t
  <2>1. R = SubSeq(index, 1, b) /\ b \in 0 .. Len(index)
    BY <1>2, <1>3, <1>5, <1>8
  <2>2. R \in Seq(Temporals) /\ Len(R) = b /\ \A k \in 1 .. b : R[k] = index[k]
    BY <2>1, CutFacts
  <2>3. \A x \in Range(list) : ~Less(t, x)
    BY <1>4, <1>8, LastFacts
  <2> HIDE DEF next, b, pos, index, list
  <2>4. ASSUME NEW k \in 1 .. Len(index), k > b PROVE index[k] = t
    <3>1. CASE k <= pos + 1
      BY <3>1, <2>4, <1>2
    <3>2. CASE k > pos + 1
      <4>1. pos + 1 \in 1 .. Len(index) /\ pos + 1 \in b + 1 .. pos + 1
        BY <1>2, <1>5, <1>8
      <4>2. index[pos + 1] = t
        BY <4>1, <1>2
      <4>3. ~Less(index[k], t)
        BY <4>1, <4>2, <3>2, <1>5 DEF Nondecreasing, index
      <4>4. index[k] \in Temporals /\ ~Less(t, index[k])
        BY <1>5, <2>3
      <4> QED
        BY <4>3, <4>4, <1>1, LessOrder
    <3> QED
      BY <3>1, <3>2, <1>2
  <2>5. \A x : x \in Range(R) <=> \E k \in 1 .. b : R[k] = x
    BY <2>2, RangeOf
  <2>6. DOMAIN R = 1 .. b /\ 1 .. b \subseteq 1 .. Len(index)
    BY <2>1, <2>2, <1>5
  <2>7. Nondecreasing(R)
    <3> SUFFICES ASSUME NEW i \in 1 .. b, NEW j \in 1 .. b, i < j PROVE ~Less(R[j], R[i])
      BY <2>6 DEF Nondecreasing
    <3> QED
      BY <2>2, <2>6, <1>5 DEF Nondecreasing, index
  <2>8. Range(R) \subseteq Range(list) \ {t}
    BY <2>2, <2>5, <2>6, <1>2, <1>5
  <2>9. Range(index) \ {t} \subseteq Range(R)
    <3> SUFFICES ASSUME NEW k \in 1 .. Len(index), index[k] # t PROVE index[k] \in Range(R)
      BY <1>5
    <3>1. k \in 1 .. b
      BY <2>1, <2>4
    <3> QED
      BY <3>1, <2>2, <2>5
  <2> QED
    BY <2>1, <2>2, <2>7, <2>8, <2>9, <1>5 DEF index, list
<1> QED
  BY <1>6, <1>7, <1>8

----------------------------------------------------------------------------
(* A table.                                                                 *)

Tables ==
  [sortedTemporalList : Seq(Temporals), temporalIndexTable : Seq(Temporals),
   indexTableSize : Nat, pendingUpdateCount : Nat,
   handleMap : [Handles -> Seq(Temporals)],
   tailHandleMap : [Handles -> Temporals \cup {NoTail, Dangling}],
   temporalMap : [Temporals -> SUBSET Handles], undefined : BOOLEAN]

Timed(T) == {t \in Temporals : T.temporalMap[t] # {}}

(* The list has the times of the map, in order.                             *)
ListOK(T) == Sorted(T.sortedTemporalList) /\ Range(T.sortedTemporalList) = Timed(T)

(* The times the index does not show yet.                                   *)
Lag(T) == Range(T.sortedTemporalList) \ Range(T.temporalIndexTable)

IndexInOrder(T) ==
  /\ Nondecreasing(T.temporalIndexTable)
  /\ Range(T.temporalIndexTable) \subseteq Range(T.sortedTemporalList)
  /\ Len(T.temporalIndexTable) <= T.indexTableSize

(* The pending updates bound the lag: so the index is rebuilt before it is  *)
(* empty and the list is not.                                               *)
IndexOK(T) ==
  /\ IndexInOrder(T)
  /\ T.temporalIndexTable = <<>> => T.sortedTemporalList = <<>>
  /\ Cardinality(Lag(T)) <= T.pendingUpdateCount

SameMaps(T, U) ==
  /\ T.handleMap = U.handleMap
  /\ T.tailHandleMap = U.tailHandleMap
  /\ T.temporalMap = U.temporalMap
  /\ T.undefined = U.undefined

(* getCount is the length of the sorted list, and the lag is finite.        *)
LEMMA CountFacts ==
  ASSUME NEW T \in Tables, ListOK(T)
  PROVE  getCount(T) = Len(T.sortedTemporalList) /\ IsFiniteSet(Range(T.sortedTemporalList)) /\ IsFiniteSet(Lag(T))
<1>1. T.sortedTemporalList \in Seq(Temporals) /\ Sorted(T.sortedTemporalList)
  BY DEF Tables, ListOK
<1>2. IsFiniteSet(Range(T.sortedTemporalList)) /\ Cardinality(Range(T.sortedTemporalList)) = Len(T.sortedTemporalList)
  BY <1>1, SortedCount
<1>3. IsFiniteSet(Lag(T))
  BY <1>2, FS_Subset DEF Lag
<1> QED
  BY <1>2, <1>3 DEF getCount, ListOK, Timed

(* An update that the index does not show, or a rebuild: the index is       *)
(* usable afterwards.                                                       *)
LEMMA PendingFacts ==
  ASSUME NEW T \in Tables, ListOK(T), IndexInOrder(T), Cardinality(Lag(T)) <= T.pendingUpdateCount + 1
  PROVE  /\ PendingUpdate(T) \in Tables
         /\ SameMaps(PendingUpdate(T), T)
         /\ PendingUpdate(T).sortedTemporalList = T.sortedTemporalList
         /\ IndexOK(PendingUpdate(T))
<1> DEFINE U == [T EXCEPT !.pendingUpdateCount = @ + 1]
           list == T.sortedTemporalList
           n == Len(list)
           p == T.pendingUpdateCount + 1
           R == PendingUpdate(T)
<1>1. /\ U \in Tables /\ SameMaps(U, T) /\ U.sortedTemporalList = list
      /\ U.temporalIndexTable = T.temporalIndexTable /\ U.indexTableSize = T.indexTableSize
      /\ U.pendingUpdateCount = p /\ p \in Nat /\ p >= 1
  <2>1. T.pendingUpdateCount \in Nat
    BY DEF Tables
  <2>2. p \in Nat /\ p >= 1
    BY <2>1
  <2> HIDE DEF p
  <2>3. U = [T EXCEPT !.pendingUpdateCount = p]
    BY DEF p
  <2> HIDE DEF U
  <2>4. U \in Tables
    BY <2>2, <2>3 DEF Tables
  <2> QED
    BY <2>2, <2>3, <2>4 DEF Tables, SameMaps
<1>2. getCount(T) = n /\ n \in Nat /\ list \in Seq(Temporals) /\ Sorted(list)
      /\ IsFiniteSet(Lag(T)) /\ IsFiniteSet(Range(list)) /\ Cardinality(Range(list)) = n
  <2>1. list \in Seq(Temporals) /\ Sorted(list)
    BY DEF Tables, ListOK
  <2> QED
    BY <2>1, CountFacts, SortedCount
<1>3. R = IF n \div p < PENDING_UPDATE_RATE_THRESHOLD THEN updateIndexTable(U, n) ELSE U
  BY <1>1, <1>2 DEF PendingUpdate
<1>4. CASE n \div p < PENDING_UPDATE_RATE_THRESHOLD
  <2> DEFINE size == IF n > U.indexTableSize \/ n < U.indexTableSize \div 4 THEN n * 2 ELSE U.indexTableSize
  <2>1. SubSeq(list, 1, n) = list
    BY <1>2
  <2>2. updateIndexTable(U, n) = [U EXCEPT !.temporalIndexTable = list, !.indexTableSize = size, !.pendingUpdateCount = 0]
    <3>1. ~(n < Len(list))
      BY <1>2
    <3> QED
      BY <1>1, <2>1, <3>1 DEF updateIndexTable
  <2>3. size \in Nat /\ n <= size
    <3>1. U.indexTableSize \in Nat
      BY <1>1 DEF Tables
    <3> QED
      BY <3>1, <1>2
  <2> HIDE DEF size, U, list, p, n
  <2>4. /\ R \in Tables /\ R.temporalIndexTable = list /\ R.indexTableSize = size /\ R.pendingUpdateCount = 0
        /\ R.sortedTemporalList = list /\ SameMaps(R, U)
    <3> HIDE DEF R
    <3>1. R = [U EXCEPT !.temporalIndexTable = list, !.indexTableSize = size, !.pendingUpdateCount = 0]
      BY <1>3, <1>4, <2>2 DEF R
    <3> QED
      BY <3>1, <1>1, <1>2, <2>3 DEF Tables, SameMaps
  <2> HIDE DEF R
  <2>5. Lag(R) = {}
    BY <2>4 DEF Lag
  <2>6. Nondecreasing(list)
    <3>1. \A i, j \in DOMAIN list : i < j => Less(list[i], list[j])
      BY <1>2 DEF Sorted
    <3>2. \A i \in DOMAIN list : list[i] \in Temporals
      BY <1>2
    <3> QED
      BY <3>1, <3>2, LessOrder DEF Nondecreasing
  <2>7. IndexOK(R)
    BY <2>3, <2>4, <2>5, <2>6, <1>2, FS_EmptySet DEF IndexOK, IndexInOrder, n
  <2> QED
    BY <1>1, <2>4, <2>7 DEF SameMaps, R, list
<1>5. CASE ~(n \div p < PENDING_UPDATE_RATE_THRESHOLD)
  <2>1. R = U
    BY <1>3, <1>5
  <2>2. n >= 2 * p
    <3>1. PENDING_UPDATE_RATE_THRESHOLD \in Nat /\ PENDING_UPDATE_RATE_THRESHOLD >= 2
      BY TableAssumption
    <3> HIDE DEF n, p, U, list, R
    <3>2. n \div p \in Nat /\ n \div p >= 2
      BY <3>1, <1>1, <1>2, <1>5
    <3>3. p * (n \div p) <= n
      BY <1>1, <1>2
    <3>4. p * (n \div p) >= p * 2
      BY <3>2, <1>1
    <3> QED
      BY <3>2, <3>3, <3>4, <1>1, <1>2
  <2> HIDE DEF U, list, p, n, R
  <2>3. T.temporalIndexTable # <<>>
    <3> SUFFICES ASSUME T.temporalIndexTable = <<>> PROVE FALSE
      OBVIOUS
    <3>1. Range(T.temporalIndexTable) = {}
      BY DEF Range
    <3>2. Lag(T) = Range(list)
      BY <3>1 DEF Lag, list
    <3> QED
      BY <3>2, <2>2, <1>1, <1>2 DEF p
  <2>4. Lag(R) = Lag(T) /\ IndexInOrder(R)
    BY <2>1, <1>1 DEF Lag, IndexInOrder, list
  <2>5. IndexOK(R)
    BY <2>1, <2>3, <2>4, <1>1 DEF IndexOK, p
  <2> QED
    BY <2>1, <2>5, <1>1 DEF R, list
<1> QED
  BY <1>4, <1>5

(* removeFromSortedEntries finds the entry of t, however far the index lags *)
(* behind, and leaves the list and the index in order.                      *)
LEMMA RemoveSortedFacts ==
  ASSUME NEW T \in Tables, NEW t, Sorted(T.sortedTemporalList), t \in Range(T.sortedTemporalList), IndexOK(T),
         Timed(T) = Range(T.sortedTemporalList) \ {t}
  PROVE  /\ removeFromSortedEntries(T, t) \in Tables
         /\ SameMaps(removeFromSortedEntries(T, t), T)
         /\ ListOK(removeFromSortedEntries(T, t))
         /\ IndexOK(removeFromSortedEntries(T, t))
<1> DEFINE index == T.temporalIndexTable
           list == T.sortedTemporalList
           pos == getTemporalIndexTablePos(index, t)
           b == Before(index, t, pos)
           start == IF b = 0 THEN 0 ELSE PositionOf(list, index[b])
           I == DropFromIndex(T, t, pos)
           U == [T EXCEPT !.temporalIndexTable = I]
           V == [T EXCEPT !.temporalIndexTable = I, !.sortedTemporalList = Unlink(list, t)]
<1>1. /\ list \in Seq(Temporals) /\ index \in Seq(Temporals) /\ Sorted(list) /\ Nondecreasing(index)
      /\ T.indexTableSize \in Nat /\ T.pendingUpdateCount \in Nat
      /\ Range(index) \subseteq Range(list) /\ Len(index) <= T.indexTableSize
      /\ Cardinality(Lag(T)) <= T.pendingUpdateCount
      /\ index = <<>> => list = <<>>
  BY DEF Tables, IndexOK, IndexInOrder
<1>2. index # <<>> /\ t \in Temporals
  <2>1. list # <<>>
    BY <1>1, RangeOf
  <2> QED
    BY <1>1, <2>1, RangeOf
<1>3. \E i \in start + 1 .. Len(list) : list[i] = t
  <2> DEFINE p == PositionOf(list, t)
             q == PositionOf(list, index[b])
  <2>1. p \in 1 .. Len(list) /\ list[p] = t
    BY <1>1, PositionFacts
  <2>2. pos \in -1 .. Len(index) - 1 /\ b \in 0 .. pos + 1 /\ (b = 0 \/ Less(index[b], t))
    <3>1. pos = getTemporalIndexTablePos(index, t) /\ b = Before(index, t, pos)
      OBVIOUS
    <3> HIDE DEF index, pos, b
    <3> QED
      BY ONLY <1>1, <1>2, <3>1, BeforeFacts
  <2> HIDE DEF index, pos, b, list
  <2>3. CASE b = 0
    BY <2>1, <2>3
  <2>4. CASE b # 0
    <3>1. b \in 1 .. Len(index)
      BY <2>2, <2>4, <1>1
    <3>2. index[b] \in Range(list)
      BY <3>1, <1>1, RangeOf
    <3>3. q \in 1 .. Len(list) /\ list[q] = index[b]
      BY <3>2, <1>1, PositionFacts
    <3>4. Less(list[q], list[p])
      BY <2>1, <2>2, <2>4, <3>3
    <3>5. q < p
      BY <3>3, <3>4, <2>1, <1>1, SortedOnce
    <3>6. start = q
      BY <2>4
    <3> HIDE DEF p, q, start
    <3>7. p \in start + 1 .. Len(list)
      BY <3>3, <3>5, <3>6, <2>1, <1>1
    <3> QED
      BY <3>7, <2>1
  <2> QED
    BY <2>3, <2>4
<1>4. removeFromSortedEntries(T, t) = PendingUpdate([U EXCEPT !.sortedTemporalList = Unlink(@, t)])
  BY <1>3 DEF removeFromSortedEntries
<1>5. /\ I \in Seq(Temporals) /\ Nondecreasing(I) /\ Len(I) <= Len(index)
      /\ Range(I) \subseteq Range(list) \ {t}
      /\ Range(index) \ {t} \subseteq Range(I)
  <2>1. I = DropFromIndex(T, t, getTemporalIndexTablePos(T.temporalIndexTable, t)) /\ t \in Range(list)
    OBVIOUS
  <2>2. /\ T.sortedTemporalList \in Seq(Temporals) /\ Sorted(T.sortedTemporalList)
        /\ T.temporalIndexTable \in Seq(Temporals) /\ T.temporalIndexTable # <<>>
        /\ Nondecreasing(T.temporalIndexTable)
        /\ Range(T.temporalIndexTable) \subseteq Range(T.sortedTemporalList)
        /\ t \in Range(T.sortedTemporalList)
    BY <1>1, <1>2
  <2> HIDE DEF I
  <2> QED
    BY ONLY <2>1, <2>2, DropFacts DEF index, list
<1>6. /\ Unlink(list, t) \in Seq(Temporals)
      /\ Sorted(Unlink(list, t))
      /\ Range(Unlink(list, t)) = Range(list) \ {t}
  BY <1>1, UnlinkFacts
<1>7. [U EXCEPT !.sortedTemporalList = Unlink(@, t)] = V
  <2> HIDE DEF I
  <2>1. U.sortedTemporalList = list /\ U \in Tables
    BY <1>5 DEF Tables
  <2> QED
    BY <2>1 DEF Tables
<1> DEFINE L == Unlink(list, t)
<1> HIDE DEF I, L, index, U
<1>8. V = [T EXCEPT !.temporalIndexTable = I, !.sortedTemporalList = L]
  BY DEF L
<1>9. /\ V \in Tables /\ SameMaps(V, T) /\ V.temporalIndexTable = I /\ V.sortedTemporalList = L
      /\ V.indexTableSize = T.indexTableSize /\ V.pendingUpdateCount = T.pendingUpdateCount
  <2> HIDE DEF V, list
  <2> QED
    BY <1>5, <1>6, <1>8 DEF Tables, SameMaps, L
<1> HIDE DEF V
<1>10. ListOK(V)
  BY <1>6, <1>9 DEF ListOK, Timed, SameMaps, L
<1>11. IndexInOrder(V)
  <2>1. Range(I) \subseteq Range(L)
    BY <1>5, <1>6 DEF L
  <2>2. Len(I) <= T.indexTableSize
    BY <1>1, <1>5
  <2> QED
    BY <2>1, <2>2, <1>5, <1>9 DEF IndexInOrder
<1>12. Cardinality(Lag(V)) <= V.pendingUpdateCount + 1
  <2>1. Lag(V) \subseteq Lag(T)
    BY <1>5, <1>6, <1>9 DEF Lag, L, index
  <2>2. IsFiniteSet(Lag(T))
    BY <1>1, SortedCount, FS_Subset DEF Lag
  <2>3. Cardinality(Lag(V)) <= Cardinality(Lag(T)) /\ Cardinality(Lag(V)) \in Nat /\ Cardinality(Lag(T)) \in Nat
    BY <2>1, <2>2, FS_Subset, FS_CardinalityType
  <2> QED
    BY <2>3, <1>1, <1>9
<1> HIDE DEF list
<1>13. /\ PendingUpdate(V) \in Tables
       /\ SameMaps(PendingUpdate(V), V)
       /\ PendingUpdate(V).sortedTemporalList = V.sortedTemporalList
       /\ IndexOK(PendingUpdate(V))
  BY <1>9, <1>10, <1>11, <1>12, PendingFacts
<1>14. removeFromSortedEntries(T, t) = PendingUpdate(V)
  BY <1>4, <1>7
<1> QED
  BY <1>9, <1>10, <1>13, <1>14 DEF SameMaps, ListOK, Timed

----------------------------------------------------------------------------
(* The three views.                                                         *)

(* A handle's list has its own times, in order, and a tail that is not      *)
(* dangling is the last of them.                                            *)
HandleOK(T, h) ==
  /\ Sorted(T.handleMap[h])
  /\ Range(T.handleMap[h]) = {t \in Temporals : h \in T.temporalMap[t]}
  /\ T.tailHandleMap[h] \in Temporals => T.handleMap[h] # <<>> /\ T.tailHandleMap[h] = Last(T.handleMap[h])

TableOK(T) ==
  /\ T \in Tables
  /\ ListOK(T)
  /\ IndexOK(T)
  /\ ~T.undefined => \A h \in Handles : HandleOK(T, h)

(* The fields of a table.                                                   *)
LEMMA TableFields ==
  ASSUME NEW T \in Tables
  PROVE  /\ T.sortedTemporalList \in Seq(Temporals) /\ T.temporalIndexTable \in Seq(Temporals)
         /\ T.indexTableSize \in Nat /\ T.pendingUpdateCount \in Nat
         /\ T.handleMap \in [Handles -> Seq(Temporals)]
         /\ T.tailHandleMap \in [Handles -> Temporals \cup {NoTail, Dangling}]
         /\ T.temporalMap \in [Temporals -> SUBSET Handles]
         /\ T.undefined \in BOOLEAN
BY DEF Tables

(* addToMaps: the handle's list, and its tail.                              *)
LEMMA MapsFacts ==
  ASSUME NEW T \in Tables, ~T.undefined, NEW h \in Handles, NEW t \in Temporals, NEW later \in BOOLEAN,
         \A g \in Handles : HandleOK(T, g)
  PROVE  LET R == addToMaps(T, h, t, later) IN
         /\ R \in Tables
         /\ R.temporalMap = [T.temporalMap EXCEPT ![t] = @ \cup {h}]
         /\ ~R.undefined => \A g \in Handles : HandleOK(R, g)
         /\ R.sortedTemporalList = T.sortedTemporalList /\ R.temporalIndexTable = T.temporalIndexTable
         /\ R.indexTableSize = T.indexTableSize /\ R.pendingUpdateCount = T.pendingUpdateCount
<1> DEFINE list == T.handleMap[h]
           tail == T.tailHandleMap[h]
           added == CASE tail = Dangling /\ later -> list
                      [] tail \in Temporals /\ Less(tail, t) -> AddFrom(list, PositionOf(list, tail), t)
                      [] OTHER -> AddFrom(list, 1, t)
           newTail == CASE tail = Dangling -> Dangling
                        [] tail \in Temporals /\ ~Less(tail, t) -> tail
                        [] OTHER -> Last(added)
           bad == tail = Dangling
           R == addToMaps(T, h, t, later)
<1> USE TableAssumption
<1>1. /\ list \in Seq(Temporals) /\ Sorted(list)
      /\ Range(list) = {x \in Temporals : h \in T.temporalMap[x]}
      /\ tail \in Temporals \cup {NoTail, Dangling}
      /\ tail \in Temporals => list # <<>> /\ tail = Last(list)
  BY TableFields DEF HandleOK
<1>2. AddFrom(list, 1, t) \in Seq(Temporals) /\ Sorted(AddFrom(list, 1, t))
      /\ Range(AddFrom(list, 1, t)) = Range(list) \cup {t}
  <2> HIDE DEF list
  <2> QED
    BY <1>1, AddFromFacts
<1>3. ASSUME tail \in Temporals, Less(tail, t)
      PROVE  LET A == AddFrom(list, PositionOf(list, tail), t) IN
             A \in Seq(Temporals) /\ Sorted(A) /\ Range(A) = Range(list) \cup {t}
  <2> DEFINE p == PositionOf(list, tail)
  <2> HIDE DEF list, tail
  <2>1. tail \in Range(list)
    BY <1>1, <1>3, RangeOf
  <2>2. p \in 1 .. Len(list) /\ list[p] = tail
    BY <2>1, <1>1, PositionFacts
  <2>3. ~Less(t, list[p])
    BY <2>2, <1>3, LessOrder
  <2> HIDE DEF p
  <2>4. AddFrom(list, p, t) \in Seq(Temporals) /\ Sorted(AddFrom(list, p, t))
        /\ Range(AddFrom(list, p, t)) = Range(list) \cup {t}
    BY <2>2, <2>3, <1>1, AddFromFacts
  <2> QED
    BY <2>4 DEF p
<1>4. /\ added \in Seq(Temporals)
      /\ ~bad => Sorted(added) /\ Range(added) = Range(list) \cup {t}
  <2> HIDE DEF list, tail
  <2>1. CASE tail = Dangling /\ later
    BY <2>1, <1>1
  <2>2. CASE ~(tail = Dangling /\ later) /\ tail \in Temporals /\ Less(tail, t)
    <3>1. added = AddFrom(list, PositionOf(list, tail), t)
      BY <2>2
    <3> HIDE DEF added
    <3> QED
      BY <3>1, <1>3, <2>2
  <2>3. CASE ~(tail = Dangling /\ later) /\ ~(tail \in Temporals /\ Less(tail, t))
    <3>1. added = AddFrom(list, 1, t)
      BY <2>3
    <3> HIDE DEF added
    <3> QED
      BY <3>1, <1>2
  <2> QED
    BY <2>1, <2>2, <2>3
<1>5. ~bad => added # <<>> /\ Last(added) \in Temporals
  <2> HIDE DEF list, tail, added
  <2> QED
    BY <1>4, RangeOf
<1>6. newTail \in Temporals \cup {NoTail, Dangling}
  <2> HIDE DEF list, tail, added
  <2> QED
    BY <1>1, <1>5
<1>7. ~bad => newTail = Last(added)
  <2> SUFFICES ASSUME ~bad PROVE newTail = Last(added)
    OBVIOUS
  <2> HIDE DEF list, tail, added
  <2>1. CASE tail \in Temporals /\ ~Less(tail, t)
    <3>1. newTail = tail
      BY <2>1
    <3>2. tail \in Range(list) /\ \A x \in Range(list) : ~Less(tail, x)
      BY <1>1, <2>1, LastFacts
    <3>3. tail \in Range(added) /\ \A x \in Range(added) : ~Less(tail, x)
      BY <3>2, <1>4, <2>1
    <3> QED
      BY <3>1, <3>3, <1>4, <1>5, LastFacts
  <2>2. CASE ~(tail \in Temporals /\ ~Less(tail, t))
    BY <2>2
  <2> QED
    BY <2>1, <2>2
<1>8. R = [T EXCEPT !.handleMap[h] = added, !.tailHandleMap[h] = newTail,
                    !.temporalMap[t] = T.temporalMap[t] \cup {h}, !.undefined = @ \/ bad]
  BY DEF addToMaps
<1> HIDE DEF list, tail, added, newTail, R, bad
<1>9. R.undefined = bad /\ R.undefined \in BOOLEAN
  <2>1. T.undefined = FALSE
    BY TableFields
  <2>2. bad \in BOOLEAN
    BY DEF bad
  <2> QED
    BY <1>8, <2>1, <2>2 DEF Tables
<1>10. /\ R.handleMap = [T.handleMap EXCEPT ![h] = added]
       /\ R.tailHandleMap = [T.tailHandleMap EXCEPT ![h] = newTail]
       /\ R.temporalMap = [T.temporalMap EXCEPT ![t] = @ \cup {h}]
       /\ R.sortedTemporalList = T.sortedTemporalList /\ R.temporalIndexTable = T.temporalIndexTable
       /\ R.indexTableSize = T.indexTableSize /\ R.pendingUpdateCount = T.pendingUpdateCount
  BY <1>8 DEF Tables
<1>11. /\ R.handleMap \in [Handles -> Seq(Temporals)]
       /\ R.tailHandleMap \in [Handles -> Temporals \cup {NoTail, Dangling}]
       /\ R.temporalMap \in [Temporals -> SUBSET Handles]
  BY <1>4, <1>6, <1>10, TableFields
<1>12. R \in Tables
  <2>1. R = [T EXCEPT !.handleMap = R.handleMap, !.tailHandleMap = R.tailHandleMap,
                      !.temporalMap = R.temporalMap, !.undefined = R.undefined]
    BY <1>8 DEF Tables
  <2> QED
    BY <2>1, <1>9, <1>11 DEF Tables
<1>13. ASSUME ~R.undefined, NEW g \in Handles PROVE HandleOK(R, g)
  <2>1. CASE g = h
    <3>1. R.handleMap[g] = added /\ R.tailHandleMap[g] = newTail
      BY <1>10, <2>1, TableFields
    <3>2. \A x \in Temporals : R.temporalMap[x] = IF x = t THEN T.temporalMap[x] \cup {h} ELSE T.temporalMap[x]
      BY <1>10, TableFields
    <3>3. ~bad
      BY <1>9, <1>13
    <3>4. Range(added) = {x \in Temporals : g \in R.temporalMap[x]}
      BY <3>2, <3>3, <2>1, <1>1, <1>4
    <3> QED
      BY <3>1, <3>3, <3>4, <1>4, <1>5, <1>7 DEF HandleOK
  <2>2. CASE g # h
    <3>1. R.handleMap[g] = T.handleMap[g] /\ R.tailHandleMap[g] = T.tailHandleMap[g]
      BY <1>10, <2>2, TableFields
    <3>2. \A x \in Temporals : R.temporalMap[x] = IF x = t THEN T.temporalMap[x] \cup {h} ELSE T.temporalMap[x]
      BY <1>10, TableFields
    <3>3. {x \in Temporals : g \in R.temporalMap[x]} = {x \in Temporals : g \in T.temporalMap[x]}
      BY <3>2, <2>2
    <3> QED
      BY <3>1, <3>3 DEF HandleOK
  <2> QED
    BY <2>1, <2>2
<1> QED
  BY <1>10, <1>12, <1>13 DEF R

(* add: the pair is entered into the three views, and the index is usable.  *)
LEMMA AddFacts ==
  ASSUME NEW T, TableOK(T), ~T.undefined, NEW h \in Handles, NEW t \in Temporals, NEW later \in BOOLEAN
  PROVE  /\ TableOK(add(T, h, t, later))
         /\ add(T, h, t, later).temporalMap = [T.temporalMap EXCEPT ![t] = @ \cup {h}]
<1> DEFINE list == T.sortedTemporalList
           index == T.temporalIndexTable
           indexed == index # <<>>
           previous == IF indexed THEN getPreviousTemporalEntry(T, t) ELSE 0
           start == IF previous = 0 THEN 1 ELSE previous
           L == AddFrom(list, start, t)
           T1 == [T EXCEPT !.sortedTemporalList = L]
           U == addToMaps(T1, h, t, later)
           room == indexed /\ Len(index) < T.indexTableSize /\ Less(Last(index), t)
           R == add(T, h, t, later)
<1>1. /\ T \in Tables /\ list \in Seq(Temporals) /\ index \in Seq(Temporals) /\ Sorted(list) /\ Nondecreasing(index)
      /\ T.indexTableSize \in Nat /\ T.pendingUpdateCount \in Nat
      /\ Range(index) \subseteq Range(list) /\ Len(index) <= T.indexTableSize
      /\ Cardinality(Lag(T)) <= T.pendingUpdateCount
      /\ index = <<>> => list = <<>>
      /\ Range(list) = Timed(T) /\ ListOK(T)
  BY DEF TableOK, Tables, IndexOK, IndexInOrder, ListOK
<1>2. L \in Seq(Temporals) /\ Sorted(L) /\ Range(L) = Range(list) \cup {t}
  <2>1. start = 1 \/ (start \in 1 .. Len(list) /\ ~Less(t, list[start]))
    <3>1. indexed => \/ getPreviousTemporalEntry(T, t) = 0
                     \/ /\ getPreviousTemporalEntry(T, t) \in 1 .. Len(list)
                        /\ ~Less(t, list[getPreviousTemporalEntry(T, t)])
      BY <1>1, PreviousFacts
    <3> QED
      BY <3>1
  <2> HIDE DEF start, list
  <2> QED
    BY <2>1, <1>1, AddFromFacts
<1>3. R = IF getCount(U) = getCount(T) THEN U
          ELSE IF room THEN [U EXCEPT !.temporalIndexTable = Append(@, t)]
          ELSE PendingUpdate(U)
  BY DEF add
<1> HIDE DEF L, R
<1>4. /\ T1 \in Tables /\ T1.sortedTemporalList = L /\ T1.temporalIndexTable = index
      /\ T1.indexTableSize = T.indexTableSize /\ T1.pendingUpdateCount = T.pendingUpdateCount
      /\ SameMaps(T1, T)
  BY <1>1, <1>2 DEF Tables, SameMaps
<1> HIDE DEF T1, list, index
<1>5. \A g \in Handles : HandleOK(T1, g)
  BY <1>4 DEF TableOK, HandleOK, SameMaps
<1>6. ~T1.undefined
  BY <1>4 DEF SameMaps
<1>7. /\ U \in Tables
      /\ U.temporalMap = [T.temporalMap EXCEPT ![t] = T.temporalMap[t] \cup {h}]
      /\ ~U.undefined => \A g \in Handles : HandleOK(U, g)
      /\ U.sortedTemporalList = L /\ U.temporalIndexTable = index
      /\ U.indexTableSize = T.indexTableSize /\ U.pendingUpdateCount = T.pendingUpdateCount
  <2>1. T1.temporalMap = T.temporalMap
    BY <1>4 DEF SameMaps
  <2> QED
    BY <1>4, <1>5, <1>6, <2>1, MapsFacts
<1> HIDE DEF U
<1>8. Timed(U) = Timed(T) \cup {t}
  <2>1. \A x \in Temporals : U.temporalMap[x] = IF x = t THEN T.temporalMap[x] \cup {h} ELSE T.temporalMap[x]
    BY <1>1, <1>7, TableFields
  <2> QED
    BY <2>1 DEF Timed
<1>9. ListOK(U)
  BY <1>1, <1>2, <1>7, <1>8 DEF ListOK
<1>10. getCount(U) = Len(L) /\ getCount(T) = Len(list)
  BY <1>1, <1>7, <1>9, CountFacts DEF list
<1>11. getCount(U) = getCount(T) <=> t \in Range(list)
  <2>1. Cardinality(Range(L)) = Len(L) /\ Cardinality(Range(list)) = Len(list) /\ IsFiniteSet(Range(list))
    BY <1>1, <1>2, SortedCount
  <2>2. t \in Range(list) => Range(L) = Range(list)
    BY <1>2
  <2>3. t \notin Range(list) => Cardinality(Range(list) \cup {t}) = Cardinality(Range(list)) + 1
    BY <2>1, FS_AddElement
  <2>4. Len(list) \in Nat
    BY <1>1
  <2>5. CASE t \in Range(list)
    BY <2>1, <2>2, <2>5, <1>10
  <2>6. CASE t \notin Range(list)
    <3>1. Len(L) = Len(list) + 1
      BY <2>1, <2>3, <2>6, <1>2
    <3> QED
      BY <3>1, <2>4, <2>6, <1>10
  <2> QED
    BY <2>5, <2>6
<1>12. IndexInOrder(U)
  BY <1>1, <1>2, <1>7 DEF IndexInOrder
<1>13. IsFiniteSet(Lag(T)) /\ Cardinality(Lag(T)) \in Nat
  BY <1>1, CountFacts, FS_CardinalityType
<1>14. CASE getCount(U) = getCount(T)
  <2>1. R = U /\ t \in Range(list) /\ Range(L) = Range(list)
    BY <1>2, <1>3, <1>11, <1>14
  <2>2. Lag(U) = Lag(T)
    BY <2>1, <1>7 DEF Lag, list, index
  <2>3. index = <<>> => L = <<>>
    BY <2>1, <1>1, RangeOf
  <2>4. IndexOK(U)
    BY <2>2, <2>3, <1>1, <1>7, <1>12 DEF IndexOK
  <2> QED
    BY <2>1, <2>4, <1>7, <1>9 DEF TableOK, R
<1>15. CASE getCount(U) # getCount(T) /\ room
  <2> DEFINE I == Append(index, t)
  <2>1. t \notin Range(list) /\ R = [U EXCEPT !.temporalIndexTable = I]
    BY <1>3, <1>7, <1>11, <1>15
  <2>2. /\ I \in Seq(Temporals) /\ Len(I) = Len(index) + 1 /\ I[Len(index) + 1] = t /\ Len(index) \in Nat
        /\ \A k \in 1 .. Len(index) : I[k] = index[k]
    BY <1>1
  <2> HIDE DEF I
  <2>3. /\ R \in Tables /\ SameMaps(R, U) /\ R.temporalIndexTable = I /\ R.sortedTemporalList = L
        /\ R.indexTableSize = T.indexTableSize /\ R.pendingUpdateCount = T.pendingUpdateCount
    BY <1>7, <2>1, <2>2 DEF Tables, SameMaps
  <2>4. \A k \in 1 .. Len(index) : index[k] \in Temporals /\ ~Less(t, index[k])
    <3> TAKE k \in 1 .. Len(index)
    <3>1. Last(index) = index[Len(index)] /\ Len(index) \in 1 .. Len(index) /\ Less(index[Len(index)], t)
      BY <1>1, <1>15, RangeOf
    <3>2. index[k] \in Temporals /\ index[Len(index)] \in Temporals
      BY <1>1, <3>1
    <3>3. k = Len(index) \/ ~Less(index[Len(index)], index[k])
      BY <1>1, <3>1 DEF Nondecreasing
    <3> QED
      BY <3>1, <3>2, <3>3, LessOrder
  <2>5. Nondecreasing(I)
    <3> SUFFICES ASSUME NEW i \in 1 .. Len(index) + 1, NEW j \in 1 .. Len(index) + 1, i < j PROVE ~Less(I[j], I[i])
      BY <2>2 DEF Nondecreasing
    <3>1. i \in 1 .. Len(index) /\ I[i] = index[i]
      BY <2>2
    <3>2. CASE j = Len(index) + 1
      BY <3>1, <3>2, <2>2, <2>4
    <3>3. CASE j \in 1 .. Len(index)
      BY <3>1, <3>3, <2>2, <1>1 DEF Nondecreasing
    <3> QED
      BY <3>2, <3>3, <2>2
  <2>6. Range(I) = Range(index) \cup {t}
    <3>1. \A x : x \in Range(I) <=> \E k \in 1 .. Len(index) + 1 : I[k] = x
      BY <2>2, RangeOf
    <3>2. \A x : x \in Range(index) <=> \E k \in 1 .. Len(index) : index[k] = x
      BY <1>1, RangeOf
    <3>3. ASSUME NEW x \in Range(I) PROVE x \in Range(index) \cup {t}
      <4>1. PICK k \in 1 .. Len(index) + 1 : I[k] = x
        BY <3>1
      <4> QED
        BY <4>1, <3>2, <2>2
    <3>4. ASSUME NEW x \in Range(index) \cup {t} PROVE x \in Range(I)
      <4>1. CASE x = t
        <5>1. Len(index) + 1 \in 1 .. Len(index) + 1
          BY <2>2
        <5> QED
          BY <5>1, <4>1, <3>1, <2>2
      <4>2. CASE x \in Range(index)
        <5>1. PICK k \in 1 .. Len(index) : index[k] = x
          BY <4>2, <3>2
        <5>2. k \in 1 .. Len(index) + 1 /\ I[k] = x
          BY <5>1, <2>2
        <5> QED
          BY <5>2, <3>1
      <4> QED
        BY <4>1, <4>2
    <3> QED
      BY <3>3, <3>4
  <2>7. I # <<>>
    BY <2>2
  <2>8. Lag(R) \subseteq Lag(T)
    BY <2>3, <2>6, <1>2 DEF Lag, list, index
  <2>9. Cardinality(Lag(R)) <= Cardinality(Lag(T)) /\ Cardinality(Lag(R)) \in Nat
    BY <2>8, <1>13, FS_Subset, FS_CardinalityType
  <2>10. Cardinality(Lag(R)) <= T.pendingUpdateCount
    BY <2>9, <1>1, <1>13
  <2>11. Len(I) <= T.indexTableSize
    BY <2>2, <1>1, <1>15
  <2>12. IndexOK(R)
    BY <2>3, <2>5, <2>6, <2>7, <2>10, <2>11, <1>1, <1>2 DEF IndexOK, IndexInOrder
  <2>13. ListOK(R) /\ (~R.undefined => \A g \in Handles : HandleOK(R, g))
    BY <2>3, <1>7, <1>9 DEF ListOK, Timed, SameMaps, HandleOK
  <2> QED
    BY <2>3, <2>12, <2>13, <1>7 DEF TableOK, SameMaps, R
<1>16. CASE getCount(U) # getCount(T) /\ ~room
  <2>1. t \notin Range(list) /\ R = PendingUpdate(U)
    BY <1>3, <1>11, <1>16
  <2>2. Lag(U) \subseteq Lag(T) \cup {t}
    BY <1>2, <1>7 DEF Lag, list, index
  <2>3. t \notin Lag(T)
    BY <2>1 DEF Lag, list
  <2>4. Cardinality(Lag(T) \cup {t}) = Cardinality(Lag(T)) + 1 /\ IsFiniteSet(Lag(T) \cup {t})
    BY <2>3, <1>13, FS_AddElement
  <2>5. Cardinality(Lag(U)) <= Cardinality(Lag(T) \cup {t}) /\ Cardinality(Lag(U)) \in Nat
    BY <2>2, <2>4, FS_Subset, FS_CardinalityType
  <2>6. Cardinality(Lag(U)) <= U.pendingUpdateCount + 1
    BY <2>4, <2>5, <1>1, <1>7, <1>13
  <2>7. /\ R \in Tables /\ SameMaps(R, U) /\ R.sortedTemporalList = U.sortedTemporalList /\ IndexOK(R)
    BY <2>1, <2>6, <1>7, <1>9, <1>12, PendingFacts
  <2>8. ListOK(R) /\ (~R.undefined => \A g \in Handles : HandleOK(R, g))
    BY <2>7, <1>7, <1>9 DEF ListOK, Timed, SameMaps, HandleOK
  <2> QED
    BY <2>7, <2>8, <1>7 DEF TableOK, SameMaps, R
<1> QED
  BY <1>14, <1>15, <1>16

(* RemovePair: the pair is gone from the three views and nothing else is.   *)
LEMMA RemovePairFacts ==
  ASSUME NEW T, TableOK(T), ~T.undefined, NEW h \in Handles, NEW t \in Temporals, h \in T.temporalMap[t], NEW c
  PROVE  /\ TableOK(RemovePair(T, h, t, c)) /\ ~RemovePair(T, h, t, c).undefined
         /\ RemovePair(T, h, t, c).temporalMap = [T.temporalMap EXCEPT ![t] = T.temporalMap[t] \ {h}]
<1> DEFINE M == [T.temporalMap EXCEPT ![t] = T.temporalMap[t] \ {h}]
           U == [T EXCEPT !.temporalMap = M]
           V == IF U.temporalMap[t] = {} THEN removeFromSortedEntries(U, t) ELSE U
           L == Unlink(T.handleMap[h], t)
           tail == T.tailHandleMap[h]
           newTail == IF tail # t THEN tail ELSE IF c \in Previous THEN Dangling ELSE NoTail
           R == RemovePair(T, h, t, c)
<1> USE TableAssumption
<1>1. T \in Tables /\ ListOK(T) /\ IndexOK(T) /\ \A g \in Handles : HandleOK(T, g)
  BY DEF TableOK
<1>2. M \in [Temporals -> SUBSET Handles] /\ \A x \in Temporals : M[x] = IF x = t THEN T.temporalMap[x] \ {h} ELSE T.temporalMap[x]
  BY <1>1, TableFields
<1> HIDE DEF M
<1>3. /\ U \in Tables /\ U.temporalMap = M /\ U.handleMap = T.handleMap /\ U.tailHandleMap = T.tailHandleMap
      /\ U.sortedTemporalList = T.sortedTemporalList /\ U.temporalIndexTable = T.temporalIndexTable
      /\ U.indexTableSize = T.indexTableSize /\ U.pendingUpdateCount = T.pendingUpdateCount
      /\ U.undefined = T.undefined
  BY <1>1, <1>2 DEF Tables
<1> HIDE DEF U
<1>4. IndexOK(U)
  BY <1>1, <1>3 DEF IndexOK, IndexInOrder, Lag
<1>5. t \in Timed(T)
  BY DEF Timed
<1>6. V \in Tables /\ SameMaps(V, U) /\ ListOK(V) /\ IndexOK(V)
  <2>1. CASE M[t] = {}
    <3>1. V = removeFromSortedEntries(U, t)
      BY <2>1, <1>3
    <3>2. Timed(U) = Timed(T) \ {t}
      BY <2>1, <1>2, <1>3 DEF Timed
    <3>3. Timed(U) = Range(U.sortedTemporalList) \ {t} /\ Sorted(U.sortedTemporalList) /\ t \in Range(U.sortedTemporalList)
      BY <3>2, <1>1, <1>3, <1>5 DEF ListOK
    <3> QED
      BY <3>1, <3>3, <1>3, <1>4, RemoveSortedFacts
  <2>2. CASE M[t] # {}
    <3>1. V = U
      BY <2>2, <1>3
    <3>2. Timed(U) = Timed(T)
      BY <2>2, <1>2, <1>3, <1>5 DEF Timed
    <3>3. ListOK(U)
      BY <3>2, <1>1, <1>3 DEF ListOK
    <3> QED
      BY <3>1, <3>3, <1>3, <1>4 DEF SameMaps
  <2> QED
    BY <2>1, <2>2
<1>7. R = [V EXCEPT !.handleMap[h] = Unlink(V.handleMap[h], t),
                    !.tailHandleMap[h] = IF V.tailHandleMap[h] # t THEN V.tailHandleMap[h]
                                         ELSE IF c \in Previous THEN Dangling ELSE NoTail]
  <2>1. [T EXCEPT !.temporalMap[t] = T.temporalMap[t] \ {h}] = U
    BY DEF U, M
  <2> QED
    BY <2>1 DEF RemovePair
<1> HIDE DEF V
<1>8. /\ V.handleMap = T.handleMap /\ V.tailHandleMap = T.tailHandleMap /\ V.temporalMap = M /\ V.undefined = FALSE
  BY <1>1, <1>3, <1>6, TableFields DEF SameMaps
<1>9. R = [V EXCEPT !.handleMap[h] = L, !.tailHandleMap[h] = newTail]
  BY <1>7, <1>8
<1>10. /\ T.handleMap[h] \in Seq(Temporals) /\ Sorted(T.handleMap[h]) /\ t \in Range(T.handleMap[h])
       /\ Range(T.handleMap[h]) = {x \in Temporals : h \in T.temporalMap[x]}
       /\ tail \in Temporals \cup {NoTail, Dangling}
       /\ tail \in Temporals => T.handleMap[h] # <<>> /\ tail = Last(T.handleMap[h])
  BY <1>1, TableFields DEF HandleOK
<1>11. L \in Seq(Temporals) /\ Sorted(L) /\ Range(L) = Range(T.handleMap[h]) \ {t}
  BY <1>10, UnlinkFacts
<1>12. newTail \in Temporals \cup {NoTail, Dangling}
  BY <1>10
<1>13. newTail \in Temporals => L # <<>> /\ newTail = Last(L)
  <2> SUFFICES ASSUME newTail \in Temporals PROVE L # <<>> /\ newTail = Last(L)
    OBVIOUS
  <2>1. newTail = tail /\ tail # t
    OBVIOUS
  <2> HIDE DEF newTail, tail, L
  <2>2. tail \in Range(T.handleMap[h]) /\ \A x \in Range(T.handleMap[h]) : ~Less(tail, x)
    BY <2>1, <1>10, LastFacts
  <2>3. tail \in Range(L) /\ \A x \in Range(L) : ~Less(tail, x)
    BY <2>1, <2>2, <1>11
  <2>4. L # <<>>
    BY <2>3, <1>11, RangeOf
  <2> QED
    BY <2>1, <2>3, <2>4, <1>11, LastFacts
<1> HIDE DEF newTail, tail, L, R
<1>14. /\ R.handleMap = [T.handleMap EXCEPT ![h] = L] /\ R.tailHandleMap = [T.tailHandleMap EXCEPT ![h] = newTail]
       /\ R.temporalMap = M /\ R.undefined = FALSE
       /\ R.sortedTemporalList = V.sortedTemporalList /\ R.temporalIndexTable = V.temporalIndexTable
       /\ R.indexTableSize = V.indexTableSize /\ R.pendingUpdateCount = V.pendingUpdateCount
  BY <1>6, <1>8, <1>9 DEF Tables
<1>15. R \in Tables
  <2>1. R.handleMap \in [Handles -> Seq(Temporals)] /\ R.tailHandleMap \in [Handles -> Temporals \cup {NoTail, Dangling}]
    BY <1>1, <1>11, <1>12, <1>14, TableFields
  <2>2. R = [V EXCEPT !.handleMap = R.handleMap, !.tailHandleMap = R.tailHandleMap]
    BY <1>6, <1>9 DEF Tables
  <2> QED
    BY <2>1, <2>2, <1>6 DEF Tables
<1>16. ListOK(R) /\ IndexOK(R)
  <2>1. Timed(R) = Timed(V) /\ Lag(R) = Lag(V)
    BY <1>8, <1>14 DEF Timed, Lag
  <2>2. ListOK(R)
    BY <2>1, <1>6, <1>14 DEF ListOK
  <2>3. IndexOK(R)
    BY <2>1, <1>6, <1>14 DEF IndexOK, IndexInOrder
  <2> QED
    BY <2>2, <2>3
<1>17. ASSUME NEW g \in Handles PROVE HandleOK(R, g)
  <2>1. CASE g = h
    <3>1. R.handleMap[g] = L /\ R.tailHandleMap[g] = newTail
      BY <1>1, <1>14, <2>1, TableFields
    <3>2. Range(L) = {x \in Temporals : g \in R.temporalMap[x]}
      BY <1>2, <1>10, <1>11, <1>14, <2>1
    <3> QED
      BY <3>1, <3>2, <1>11, <1>13 DEF HandleOK
  <2>2. CASE g # h
    <3>1. R.handleMap[g] = T.handleMap[g] /\ R.tailHandleMap[g] = T.tailHandleMap[g]
      BY <1>1, <1>14, <2>2, TableFields
    <3>2. {x \in Temporals : g \in R.temporalMap[x]} = {x \in Temporals : g \in T.temporalMap[x]}
      BY <1>2, <1>14, <2>2
    <3> QED
      BY <3>1, <3>2, <1>1 DEF HandleOK
  <2> QED
    BY <2>1, <2>2
<1> QED
  BY <1>14, <1>15, <1>16, <1>17 DEF TableOK, R, M

(* remove(t, EXACT): the time is gone from the three views.                 *)
LEMMA RemoveTimeFacts ==
  ASSUME NEW T, TableOK(T), ~T.undefined, NEW t \in Temporals, T.temporalMap[t] # {}
  PROVE  /\ TableOK(RemoveTime(T, t)) /\ ~RemoveTime(T, t).undefined
         /\ RemoveTime(T, t).temporalMap = [T.temporalMap EXCEPT ![t] = {}]
<1> DEFINE M == [T.temporalMap EXCEPT ![t] = {}]
           gone(h) == h \in T.temporalMap[t]
           tail(h) == CASE ~gone(h) \/ T.tailHandleMap[h] \notin Temporals -> T.tailHandleMap[h]
                        [] gone(h) /\ T.tailHandleMap[h] = Head(T.handleMap[h]) -> NoTail
                        [] gone(h) /\ T.tailHandleMap[h] = t -> Dangling
                        [] OTHER -> T.tailHandleMap[h]
           H == [h \in Handles |-> IF gone(h) THEN Unlink(T.handleMap[h], t) ELSE T.handleMap[h]]
           Q == [h \in Handles |-> tail(h)]
           U == [T EXCEPT !.temporalMap = M, !.handleMap = H, !.tailHandleMap = Q]
           R == RemoveTime(T, t)
<1> USE TableAssumption
<1>1. T \in Tables /\ ListOK(T) /\ IndexOK(T) /\ \A g \in Handles : HandleOK(T, g)
  BY DEF TableOK
<1>2. M \in [Temporals -> SUBSET Handles] /\ \A x \in Temporals : M[x] = IF x = t THEN {} ELSE T.temporalMap[x]
  BY <1>1, TableFields
<1>3. R = removeFromSortedEntries(U, t)
  BY DEF RemoveTime
<1>4. ASSUME NEW h \in Handles
      PROVE  /\ T.handleMap[h] \in Seq(Temporals) /\ Sorted(T.handleMap[h])
             /\ Range(T.handleMap[h]) = {x \in Temporals : h \in T.temporalMap[x]}
             /\ T.tailHandleMap[h] \in Temporals \cup {NoTail, Dangling}
             /\ T.tailHandleMap[h] \in Temporals => T.handleMap[h] # <<>> /\ T.tailHandleMap[h] = Last(T.handleMap[h])
  BY <1>1, TableFields DEF HandleOK
<1>5. ASSUME NEW h \in Handles
      PROVE  H[h] \in Seq(Temporals) /\ Sorted(H[h]) /\ Range(H[h]) = Range(T.handleMap[h]) \ {t}
  <2>1. CASE gone(h)
    <3>1. H[h] = Unlink(T.handleMap[h], t) /\ t \in Range(T.handleMap[h])
      BY <2>1, <1>4
    <3> QED
      BY <3>1, <1>4, UnlinkFacts
  <2>2. CASE ~gone(h)
    BY <2>2, <1>4
  <2> QED
    BY <2>1, <2>2
<1>6. ASSUME NEW h \in Handles
      PROVE  /\ Q[h] \in Temporals \cup {NoTail, Dangling}
             /\ Q[h] \in Temporals => Q[h] = T.tailHandleMap[h] /\ (gone(h) => T.tailHandleMap[h] # t)
  <2>1. Q[h] = tail(h)
    OBVIOUS
  <2> QED
    BY <2>1, <1>4
<1>7. ASSUME NEW h \in Handles, Q[h] \in Temporals PROVE H[h] # <<>> /\ Q[h] = Last(H[h])
  <2>1. Q[h] = T.tailHandleMap[h] /\ (gone(h) => Q[h] # t) /\ T.handleMap[h] # <<>> /\ Q[h] = Last(T.handleMap[h])
    BY <1>4, <1>6, <1>7
  <2>2. t \in Range(T.handleMap[h]) => gone(h)
    BY <1>4
  <2> HIDE DEF gone, H, Q
  <2>3. Q[h] \in Range(T.handleMap[h]) /\ \A x \in Range(T.handleMap[h]) : ~Less(Q[h], x)
    BY <2>1, <1>4, LastFacts
  <2>4. Q[h] \in Range(H[h]) /\ \A x \in Range(H[h]) : ~Less(Q[h], x)
    BY <2>1, <2>2, <2>3, <1>5
  <2>5. H[h] # <<>>
    BY <2>4, <1>5, RangeOf
  <2> QED
    BY <2>4, <2>5, <1>5, LastFacts
<1>8. H \in [Handles -> Seq(Temporals)] /\ Q \in [Handles -> Temporals \cup {NoTail, Dangling}]
  <2>1. H = [h \in Handles |-> H[h]] /\ Q = [h \in Handles |-> Q[h]]
    OBVIOUS
  <2> HIDE DEF H, Q
  <2> QED
    BY <2>1, <1>5, <1>6
<1> HIDE DEF M, H, Q, R
<1>9. /\ U \in Tables /\ U.temporalMap = M /\ U.handleMap = H /\ U.tailHandleMap = Q
      /\ U.sortedTemporalList = T.sortedTemporalList /\ U.temporalIndexTable = T.temporalIndexTable
      /\ U.indexTableSize = T.indexTableSize /\ U.pendingUpdateCount = T.pendingUpdateCount
      /\ U.undefined = T.undefined
  BY <1>1, <1>2, <1>8 DEF Tables
<1> HIDE DEF U
<1>10. IndexOK(U)
  BY <1>1, <1>9 DEF IndexOK, IndexInOrder, Lag
<1>11. Timed(U) = Range(U.sortedTemporalList) \ {t} /\ Sorted(U.sortedTemporalList) /\ t \in Range(U.sortedTemporalList)
  <2>1. Timed(U) = Timed(T) \ {t} /\ t \in Timed(T)
    BY <1>2, <1>9 DEF Timed
  <2> QED
    BY <2>1, <1>1, <1>9 DEF ListOK
<1>12. R \in Tables /\ SameMaps(R, U) /\ ListOK(R) /\ IndexOK(R)
  BY <1>3, <1>9, <1>10, <1>11, RemoveSortedFacts
<1>13. ASSUME NEW h \in Handles PROVE HandleOK(R, h)
  <2>1. R.handleMap[h] = H[h] /\ R.tailHandleMap[h] = Q[h] /\ R.temporalMap = M
    BY <1>9, <1>12 DEF SameMaps
  <2>2. Range(H[h]) = {x \in Temporals : h \in M[x]}
    <3>1. Range(H[h]) = {x \in Temporals : h \in T.temporalMap[x]} \ {t}
      BY <1>4, <1>5
    <3> QED
      BY <3>1, <1>2
  <2> QED
    BY <2>1, <2>2, <1>5, <1>7 DEF HandleOK
<1> QED
  BY <1>9, <1>12, <1>13 DEF TableOK, SameMaps, R, M

(* RemoveHandle: the chosen times of a handle, one after the other.         *)
LEMMA RemoveHandleFacts ==
  ASSUME NEW T, TableOK(T), ~T.undefined, NEW h \in Handles, NEW times, NEW c
  PROVE  /\ TableOK(RemoveHandle(T, h, times, c)) /\ ~RemoveHandle(T, h, times, c).undefined
         /\ RemoveHandle(T, h, times, c).temporalMap =
              [x \in Temporals |-> IF x \in times /\ x \in Range(T.handleMap[h]) THEN T.temporalMap[x] \ {h} ELSE T.temporalMap[x]]
<1> DEFINE list == T.handleMap[h]
           n == Len(list)
           Step(f, i) == IF i = 0 THEN T
                         ELSE IF list[i] \in times THEN RemovePair(f[i - 1], h, list[i], c) ELSE f[i - 1]
           Solved == {m \in Nat : \E f : f = [i \in 0 .. m |-> Step(f, i)]}
           upTo == CHOOSE f : f = [i \in 0 .. n |-> Step(f, i)]
<1>1. T \in Tables /\ list \in Seq(Temporals) /\ Sorted(list) /\ n \in Nat /\ Range(list) = {x \in Temporals : h \in T.temporalMap[x]}
  BY TableFields DEF TableOK, ListOK, HandleOK, Timed
<1>2. RemoveHandle(T, h, times, c) = upTo[n]
  BY DEF RemoveHandle
<1> HIDE DEF list, n
<1>3. 0 \in Solved
  <2> DEFINE f == [i \in 0 .. 0 |-> T]
  <2>1. \A i \in 0 .. 0 : T = Step(f, i)
    OBVIOUS
  <2>2. f = [i \in 0 .. 0 |-> Step(f, i)]
    BY <2>1
  <2> HIDE DEF f
  <2> QED
    BY <2>2
<1>4. ASSUME NEW m \in Nat, m \in Solved PROVE m + 1 \in Solved
  <2>1. PICK f : f = [i \in 0 .. m |-> Step(f, i)]
    BY <1>4
  <2> DEFINE g == [i \in 0 .. m + 1 |-> Step(f, i)]
  <2>2. ASSUME NEW i \in 0 .. m + 1 PROVE Step(f, i) = Step(g, i)
    <3>1. CASE i = 0
      BY <3>1
    <3>2. CASE i # 0
      <4>1. i - 1 \in 0 .. m /\ i - 1 \in 0 .. m + 1
        BY <3>2
      <4>2. f[i - 1] = Step(f, i - 1) /\ g[i - 1] = Step(f, i - 1)
        <5> HIDE DEF Step
        <5> QED
          BY <4>1, <2>1
      <4>3. f[i - 1] = g[i - 1]
        BY <4>2
      <4> HIDE DEF g
      <4> QED
        BY <3>2, <4>3
    <3> QED
      BY <3>1, <3>2
  <2>3. [i \in 0 .. m + 1 |-> Step(f, i)] = [i \in 0 .. m + 1 |-> Step(g, i)]
    <3> HIDE DEF g, Step
    <3> QED
      BY <2>2
  <2>4. g = [i \in 0 .. m + 1 |-> Step(g, i)]
    BY <2>3
  <2> HIDE DEF g, Step
  <2> QED
    BY <2>4
<1>5. \E f : f = [i \in 0 .. n |-> Step(f, i)]
  <2>1. \A m \in Nat : m \in Solved => m + 1 \in Solved
    BY <1>4
  <2>2. n \in Solved
    <3> HIDE DEF Solved
    <3> QED
      BY <1>1, <1>3, <2>1, SetInduction
  <2> QED
    BY <2>2
<1>6. upTo = [i \in 0 .. n |-> Step(upTo, i)]
  <2> HIDE DEF Step
  <2> QED
    BY <1>5
<1> HIDE DEF upTo, Solved
<1> DEFINE Removed(i) == {x \in times : \E k \in 1 .. i : list[k] = x}
           M(i) == [x \in Temporals |-> IF x \in Removed(i) THEN T.temporalMap[x] \ {h} ELSE T.temporalMap[x]]
           P(i) == TableOK(upTo[i]) /\ ~upTo[i].undefined /\ upTo[i].temporalMap = M(i)
           Good == {i \in Nat : i <= n => P(i)}
<1>7. 0 \in Good
  <2>1. upTo[0] = T
    BY <1>1, <1>6
  <2>2. M(0) = T.temporalMap
    <3>1. \A x \in Temporals : M(0)[x] = T.temporalMap[x]
      OBVIOUS
    <3>2. T.temporalMap \in [Temporals -> SUBSET Handles]
      BY <1>1, TableFields
    <3> QED
      BY <3>1, <3>2
  <2> HIDE DEF M
  <2> QED
    BY <2>1, <2>2
<1>8. ASSUME NEW m \in Nat, m \in Good PROVE m + 1 \in Good
  <2> SUFFICES ASSUME m + 1 <= n PROVE P(m + 1)
    OBVIOUS
  <2> DEFINE S == upTo[m]
             t == list[m + 1]
  <2>1. m \in 0 .. n /\ m + 1 \in 0 .. n /\ m + 1 \in 1 .. n /\ m + 1 # 0 /\ (m + 1) - 1 = m
    BY <1>1
  <2>2. TableOK(S) /\ ~S.undefined /\ S.temporalMap = M(m)
    BY <2>1, <1>8
  <2>3. upTo[m + 1] = IF t \in times THEN RemovePair(S, h, t, c) ELSE S
    <3>1. upTo[m + 1] = Step(upTo, m + 1)
      <4> HIDE DEF Step
      <4> QED
        BY <2>1, <1>6
    <3> QED
      BY <3>1, <2>1
  <2>4. t \in Range(list) /\ t \in Temporals
    BY <2>1, <1>1, RangeOf DEF n
  <2>5. ~\E k \in 1 .. m : list[k] = t
    <3> SUFFICES ASSUME NEW k \in 1 .. m, list[k] = t PROVE FALSE
      OBVIOUS
    <3>1. k \in 1 .. Len(list) /\ m + 1 \in 1 .. Len(list) /\ k # m + 1
      BY <2>1, <1>1 DEF n
    <3> QED
      BY <3>1, <1>1, SortedOnce
  <2>6. \A x : (\E k \in 1 .. m + 1 : list[k] = x) <=> x = t \/ \E k \in 1 .. m : list[k] = x
    <3>1. 1 .. m + 1 = (1 .. m) \cup {m + 1}
      OBVIOUS
    <3> QED
      BY <3>1
  <2>7. S.temporalMap[t] = T.temporalMap[t]
    BY <2>2, <2>4, <2>5
  <2> HIDE DEF S, t
  <2>8. CASE t \in times
    <3>1. upTo[m + 1] = RemovePair(S, h, t, c)
      BY <2>3, <2>8
    <3>2. h \in S.temporalMap[t]
      BY <1>1, <2>4, <2>7
    <3>3. /\ TableOK(RemovePair(S, h, t, c)) /\ ~RemovePair(S, h, t, c).undefined
          /\ RemovePair(S, h, t, c).temporalMap = [S.temporalMap EXCEPT ![t] = S.temporalMap[t] \ {h}]
      BY <2>2, <2>4, <3>2, RemovePairFacts
    <3>4. M(m + 1) = [S.temporalMap EXCEPT ![t] = S.temporalMap[t] \ {h}]
      <4>1. Removed(m + 1) = Removed(m) \cup {t}
        BY <2>6, <2>8
      <4> HIDE DEF Removed
      <4> QED
        BY <4>1, <2>2, <2>4, <2>7
    <3> HIDE DEF M
    <3> QED
      BY <3>1, <3>3, <3>4
  <2>9. CASE t \notin times
    <3>1. upTo[m + 1] = S
      BY <2>3, <2>9
    <3>2. Removed(m + 1) = Removed(m)
      BY <2>6, <2>9
    <3>3. M(m + 1) = M(m)
      BY <3>2
    <3> HIDE DEF M
    <3> QED
      BY <3>1, <3>3, <2>2
  <2> QED
    BY <2>8, <2>9
<1>9. P(n)
  <2>1. \A m \in Nat : m \in Good => m + 1 \in Good
    BY <1>8
  <2>2. n \in Good
    <3> HIDE DEF Good
    <3> QED
      BY <1>1, <1>7, <2>1, SetInduction
  <2> QED
    BY <2>2, <1>1
<1>10. \A x : x \in Removed(n) <=> x \in times /\ x \in Range(list)
  BY <1>1, RangeOf DEF n
<1>11. M(n) = [x \in Temporals |-> IF x \in times /\ x \in Range(list) THEN T.temporalMap[x] \ {h} ELSE T.temporalMap[x]]
  <2> HIDE DEF Removed
  <2> QED
    BY <1>10
<1> HIDE DEF M
<1> QED
  BY <1>2, <1>9, <1>11 DEF list

(* RemoveTimes: the chosen times of the table, one after the other.         *)
LEMMA RemoveTimesFacts ==
  ASSUME NEW T, TableOK(T), ~T.undefined, NEW times
  PROVE  /\ TableOK(RemoveTimes(T, times)) /\ ~RemoveTimes(T, times).undefined
         /\ RemoveTimes(T, times).temporalMap =
              [x \in Temporals |-> IF x \in times /\ x \in Range(T.sortedTemporalList) THEN {} ELSE T.temporalMap[x]]
<1> DEFINE list == T.sortedTemporalList
           n == Len(list)
           Step(f, i) == IF i = 0 THEN T
                         ELSE IF list[i] \in times THEN RemoveTime(f[i - 1], list[i]) ELSE f[i - 1]
           Solved == {m \in Nat : \E f : f = [i \in 0 .. m |-> Step(f, i)]}
           upTo == CHOOSE f : f = [i \in 0 .. n |-> Step(f, i)]
<1>1. T \in Tables /\ list \in Seq(Temporals) /\ Sorted(list) /\ n \in Nat /\ Range(list) = {x \in Temporals : T.temporalMap[x] # {}}
  BY TableFields DEF TableOK, ListOK, HandleOK, Timed
<1>2. RemoveTimes(T, times) = upTo[n]
  BY DEF RemoveTimes
<1> HIDE DEF list, n
<1>3. 0 \in Solved
  <2> DEFINE f == [i \in 0 .. 0 |-> T]
  <2>1. \A i \in 0 .. 0 : T = Step(f, i)
    OBVIOUS
  <2>2. f = [i \in 0 .. 0 |-> Step(f, i)]
    BY <2>1
  <2> HIDE DEF f
  <2> QED
    BY <2>2
<1>4. ASSUME NEW m \in Nat, m \in Solved PROVE m + 1 \in Solved
  <2>1. PICK f : f = [i \in 0 .. m |-> Step(f, i)]
    BY <1>4
  <2> DEFINE g == [i \in 0 .. m + 1 |-> Step(f, i)]
  <2>2. ASSUME NEW i \in 0 .. m + 1 PROVE Step(f, i) = Step(g, i)
    <3>1. CASE i = 0
      BY <3>1
    <3>2. CASE i # 0
      <4>1. i - 1 \in 0 .. m /\ i - 1 \in 0 .. m + 1
        BY <3>2
      <4>2. f[i - 1] = Step(f, i - 1) /\ g[i - 1] = Step(f, i - 1)
        <5> HIDE DEF Step
        <5> QED
          BY <4>1, <2>1
      <4>3. f[i - 1] = g[i - 1]
        BY <4>2
      <4> HIDE DEF g
      <4> QED
        BY <3>2, <4>3
    <3> QED
      BY <3>1, <3>2
  <2>3. [i \in 0 .. m + 1 |-> Step(f, i)] = [i \in 0 .. m + 1 |-> Step(g, i)]
    <3> HIDE DEF g, Step
    <3> QED
      BY <2>2
  <2>4. g = [i \in 0 .. m + 1 |-> Step(g, i)]
    BY <2>3
  <2> HIDE DEF g, Step
  <2> QED
    BY <2>4
<1>5. \E f : f = [i \in 0 .. n |-> Step(f, i)]
  <2>1. \A m \in Nat : m \in Solved => m + 1 \in Solved
    BY <1>4
  <2>2. n \in Solved
    <3> HIDE DEF Solved
    <3> QED
      BY <1>1, <1>3, <2>1, SetInduction
  <2> QED
    BY <2>2
<1>6. upTo = [i \in 0 .. n |-> Step(upTo, i)]
  <2> HIDE DEF Step
  <2> QED
    BY <1>5
<1> HIDE DEF upTo, Solved
<1> DEFINE Removed(i) == {x \in times : \E k \in 1 .. i : list[k] = x}
           M(i) == [x \in Temporals |-> IF x \in Removed(i) THEN {} ELSE T.temporalMap[x]]
           P(i) == TableOK(upTo[i]) /\ ~upTo[i].undefined /\ upTo[i].temporalMap = M(i)
           Good == {i \in Nat : i <= n => P(i)}
<1>7. 0 \in Good
  <2>1. upTo[0] = T
    BY <1>1, <1>6
  <2>2. M(0) = T.temporalMap
    <3>1. \A x \in Temporals : M(0)[x] = T.temporalMap[x]
      OBVIOUS
    <3>2. T.temporalMap \in [Temporals -> SUBSET Handles]
      BY <1>1, TableFields
    <3> QED
      BY <3>1, <3>2
  <2> HIDE DEF M
  <2> QED
    BY <2>1, <2>2
<1>8. ASSUME NEW m \in Nat, m \in Good PROVE m + 1 \in Good
  <2> SUFFICES ASSUME m + 1 <= n PROVE P(m + 1)
    OBVIOUS
  <2> DEFINE S == upTo[m]
             t == list[m + 1]
  <2>1. m \in 0 .. n /\ m + 1 \in 0 .. n /\ m + 1 \in 1 .. n /\ m + 1 # 0 /\ (m + 1) - 1 = m
    BY <1>1
  <2>2. TableOK(S) /\ ~S.undefined /\ S.temporalMap = M(m)
    BY <2>1, <1>8
  <2>3. upTo[m + 1] = IF t \in times THEN RemoveTime(S, t) ELSE S
    <3>1. upTo[m + 1] = Step(upTo, m + 1)
      <4> HIDE DEF Step
      <4> QED
        BY <2>1, <1>6
    <3> QED
      BY <3>1, <2>1
  <2>4. t \in Range(list) /\ t \in Temporals
    BY <2>1, <1>1, RangeOf DEF n
  <2>5. ~\E k \in 1 .. m : list[k] = t
    <3> SUFFICES ASSUME NEW k \in 1 .. m, list[k] = t PROVE FALSE
      OBVIOUS
    <3>1. k \in 1 .. Len(list) /\ m + 1 \in 1 .. Len(list) /\ k # m + 1
      BY <2>1, <1>1 DEF n
    <3> QED
      BY <3>1, <1>1, SortedOnce
  <2>6. \A x : (\E k \in 1 .. m + 1 : list[k] = x) <=> x = t \/ \E k \in 1 .. m : list[k] = x
    <3>1. 1 .. m + 1 = (1 .. m) \cup {m + 1}
      OBVIOUS
    <3> QED
      BY <3>1
  <2>7. S.temporalMap[t] = T.temporalMap[t]
    BY <2>2, <2>4, <2>5
  <2> HIDE DEF S, t
  <2>8. CASE t \in times
    <3>1. upTo[m + 1] = RemoveTime(S, t)
      BY <2>3, <2>8
    <3>2. S.temporalMap[t] # {}
      BY <1>1, <2>4, <2>7
    <3>3. /\ TableOK(RemoveTime(S, t)) /\ ~RemoveTime(S, t).undefined
          /\ RemoveTime(S, t).temporalMap = [S.temporalMap EXCEPT ![t] = {}]
      BY <2>2, <2>4, <3>2, RemoveTimeFacts
    <3>4. M(m + 1) = [S.temporalMap EXCEPT ![t] = {}]
      <4>1. Removed(m + 1) = Removed(m) \cup {t}
        BY <2>6, <2>8
      <4> HIDE DEF Removed
      <4> QED
        BY <4>1, <2>2, <2>4, <2>7
    <3> HIDE DEF M
    <3> QED
      BY <3>1, <3>3, <3>4
  <2>9. CASE t \notin times
    <3>1. upTo[m + 1] = S
      BY <2>3, <2>9
    <3>2. Removed(m + 1) = Removed(m)
      BY <2>6, <2>9
    <3>3. M(m + 1) = M(m)
      BY <3>2
    <3> HIDE DEF M
    <3> QED
      BY <3>1, <3>3, <2>2
  <2> QED
    BY <2>8, <2>9
<1>9. P(n)
  <2>1. \A m \in Nat : m \in Good => m + 1 \in Good
    BY <1>8
  <2>2. n \in Good
    <3> HIDE DEF Good
    <3> QED
      BY <1>1, <1>7, <2>1, SetInduction
  <2> QED
    BY <2>2, <1>1
<1>10. \A x : x \in Removed(n) <=> x \in times /\ x \in Range(list)
  BY <1>1, RangeOf DEF n
<1>11. M(n) = [x \in Temporals |-> IF x \in times /\ x \in Range(list) THEN {} ELSE T.temporalMap[x]]
  <2> HIDE DEF Removed
  <2> QED
    BY <1>10
<1> HIDE DEF M
<1> QED
  BY <1>2, <1>9, <1>11 DEF list

----------------------------------------------------------------------------
(* The criteria.                                                            *)

(* matchesTimeCriterion decides what TemporalTable.h says.                  *)
LEMMA MatchesRelated ==
  ASSUME NEW x \in Temporals, NEW t \in Temporals, NEW c \in Criteria
  PROVE  Matches(x, t, c) <=> Related(x, t, c)
BY TimeFields DEF Matches, Related, Criteria

(* A time that ends the search is not followed by one that matches.         *)
LEMMA FinishedFacts ==
  ASSUME NEW x \in Temporals, NEW y \in Temporals, NEW t \in Temporals, NEW c \in Criteria \ NextAfter,
         Less(x, y), SearchFinished(x, t, c)
  PROVE  ~Matches(y, t, c)
<1>1. x.lower <= y.lower /\ y # x
  BY LessOrder
<1>2. CASE c = "EXACT"
  <2>1. Matches(x, t, c)
    BY <1>2 DEF SearchFinished, NextAfter, Previous
  <2> QED
    BY <2>1, <1>1, <1>2 DEF Matches
<1>3. CASE c \in {"STARTS_AFTER", "ENDS_AFTER"}
  BY <1>3 DEF SearchFinished, NextAfter, Previous
<1>4. CASE c \in {"STARTS_BEFORE", "PREVIOUS_BEFORE_START_OF", "PREVIOUS_BEFORE_END_OF"}
  <2>1. ~Matches(x, t, c)
    BY <1>4 DEF SearchFinished, NextAfter, Previous
  <2>2. CASE c = "STARTS_BEFORE"
    BY <2>1, <2>2, <1>1, TimeFields DEF Matches
  <2>3. CASE c = "PREVIOUS_BEFORE_START_OF"
    BY <2>1, <2>3, <1>1, TimeFields DEF Matches
  <2>4. CASE c = "PREVIOUS_BEFORE_END_OF"
    BY <2>1, <2>4, <1>1, TimeFields DEF Matches
  <2> QED
    BY <2>2, <2>3, <2>4, <1>4
<1>5. CASE c = "ENDS_BEFORE"
  <2>1. x.lower >= t.lower
    BY <1>5 DEF SearchFinished, NextAfter, Previous
  <2> QED
    BY <2>1, <1>1, <1>5, TimeFields DEF Matches
<1>6. CASE c = "INCLUDES"
  <2>1. x.lower > t.lower
    BY <1>6 DEF SearchFinished, NextAfter, Previous
  <2> QED
    BY <2>1, <1>1, <1>6, TimeFields DEF Matches
<1>7. CASE c \in {"OVERLAPS", "STARTS_WITHIN", "ENDS_WITHIN"}
  <2>1. x.lower > t.upper
    BY <1>7 DEF SearchFinished, NextAfter, Previous
  <2>2. CASE c = "OVERLAPS"
    BY <2>1, <2>2, <1>1, TimeFields DEF Matches
  <2>3. CASE c = "STARTS_WITHIN"
    BY <2>1, <2>3, <1>1, TimeFields DEF Matches
  <2>4. CASE c = "ENDS_WITHIN"
    BY <2>1, <2>4, <1>1, TimeFields DEF Matches
  <2> QED
    BY <2>2, <2>3, <2>4, <1>7
<1> QED
  BY <1>2, <1>3, <1>4, <1>5, <1>6, <1>7 DEF Criteria, NextAfter

(* The walk along a list finds what the criterion stands for, although it   *)
(* stops early.                                                             *)
LEMMA WalkFacts ==
  ASSUME NEW list \in Seq(Temporals), Sorted(list), NEW t \in Temporals, NEW c \in Criteria
  PROVE  Walk(list, t, c) = Nearest({x \in Range(list) : Related(x, t, c)}, c)
<1> DEFINE n == Len(list)
           ends == {i \in 1 .. n : SearchFinished(list[i], t, c)}
           last == IF ends = {} THEN n ELSE Min(ends)
           taken == {i \in 1 .. last : Matches(list[i], t, c)}
           times == {x \in Range(list) : Related(x, t, c)}
<1> SUFFICES Walk(list, t, c) = Nearest(times, c)
  OBVIOUS
<1>1. n \in Nat /\ DOMAIN list = 1 .. n /\ \A i \in 1 .. n : list[i] \in Temporals
  OBVIOUS
<1>2. t # UNDEFINED
  BY TableAssumption
<1>3. Walk(list, t, c) = IF c \in Previous THEN {list[i] : i \in {j \in taken : \A k \in taken : k <= j}}
                         ELSE {list[i] : i \in taken}
  <2>1. DOMAIN list = 1 .. n
    BY <1>1
  <2> QED
    BY <1>2, <2>1 DEF Walk
<1>4. \A i, j \in 1 .. n : i < j <=> Less(list[i], list[j])
  BY SortedOnce
<1>5. \A x : x \in Range(list) <=> \E i \in 1 .. n : list[i] = x
  BY RangeOf
<1>6. \A i \in 1 .. n : Matches(list[i], t, c) <=> Related(list[i], t, c)
  BY <1>1, MatchesRelated
<1>7. last \in 0 .. n /\ (ends # {} => last \in ends /\ \A i \in ends : last <= i) /\ (ends = {} => last = n)
  <2>1. ends \subseteq Nat /\ ends \subseteq 1 .. n
    BY <1>1
  <2>2. CASE ends = {}
    BY <2>2, <1>1
  <2>3. CASE ends # {}
    <3>1. Min(ends) \in ends /\ \A i \in ends : Min(ends) <= i
      <4> HIDE DEF ends
      <4> QED
        BY <2>1, <2>3, MinFacts
    <3>2. last = Min(ends)
      BY <2>3
    <3>3. last \in ends /\ \A i \in ends : last <= i
      <4> HIDE DEF last, ends
      <4> QED
        BY <3>1, <3>2
    <3>4. last \in 0 .. n
      <4> HIDE DEF last, ends, n
      <4> QED
        BY <3>3, <2>1, <1>1
    <3> HIDE DEF last, ends
    <3> QED
      BY <3>3, <3>4, <2>3
  <2> QED
    BY <2>2, <2>3
<1> HIDE DEF n
<1>8. CASE c \in NextAfter
  <2>1. \A i \in 1 .. n : SearchFinished(list[i], t, c) <=> Matches(list[i], t, c)
    BY <1>8 DEF SearchFinished, NextAfter, Previous
  <2>2. Walk(list, t, c) = {list[i] : i \in taken}
    BY <1>3, <1>8 DEF NextAfter, Previous
  <2>3. Nearest(times, c) = {x \in times : ~\E y \in times : Less(y, x)}
    BY <1>8 DEF Nearest, NextAfter, Previous
  <2>4. ASSUME NEW i \in taken PROVE list[i] \in Nearest(times, c)
    <3>1. i \in 1 .. last /\ Matches(list[i], t, c)
      OBVIOUS
    <3> HIDE DEF last
    <3>2. i \in 1 .. n
      BY <3>1, <1>1, <1>7
    <3>3. i \in ends
      BY <3>1, <3>2, <2>1
    <3>4. list[i] \in times
      BY <3>1, <3>2, <1>5, <1>6
    <3>5. ASSUME NEW y \in times, Less(y, list[i]) PROVE FALSE
      <4>1. PICK k \in 1 .. n : list[k] = y
        BY <1>5
      <4>2. k \in ends
        BY <4>1, <1>6, <2>1
      <4>3. k < i
        BY <4>1, <3>2, <3>5, <1>4
      <4> HIDE DEF ends
      <4>4. last <= k
        BY <4>2, <1>7
      <4> QED
        BY <4>1, <4>3, <4>4, <3>1, <3>2, <1>7, <1>1
    <3> QED
      BY <2>3, <3>4, <3>5
  <2>5. ASSUME NEW x \in Nearest(times, c) PROVE \E i \in taken : list[i] = x
    <3>1. x \in times /\ ~\E y \in times : Less(y, x)
      BY <2>3
    <3>2. PICK i \in 1 .. n : list[i] = x
      BY <3>1, <1>5
    <3>3. Matches(list[i], t, c) /\ i \in ends
      BY <3>1, <3>2, <1>6, <2>1
    <3>4. last \in ends /\ last <= i
      <4> HIDE DEF ends, last
      <4> QED
        BY <3>3, <1>7
    <3>5. last \in 1 .. n /\ SearchFinished(list[last], t, c)
      <4> HIDE DEF last
      <4> QED
        BY <3>4
    <3>6. list[last] \in times
      <4> HIDE DEF last
      <4> QED
        BY <3>5, <2>1, <1>5, <1>6
    <3> HIDE DEF last, ends
    <3>7. ~(last < i)
      BY <3>1, <3>2, <3>5, <3>6, <1>4
    <3>8. i \in 1 .. last
      BY <3>2, <3>4, <3>5, <3>7, <1>1
    <3> QED
      BY <3>2, <3>3, <3>8
  <2> HIDE DEF taken, times
  <2> QED
    BY <2>2, <2>4, <2>5
<1>9. CASE c \notin NextAfter
  <2>1. ASSUME NEW i \in 1 .. n, Matches(list[i], t, c) PROVE i \in taken
    <3>1. ASSUME last < i PROVE FALSE
      <4>1. last \in 1 .. n /\ SearchFinished(list[last], t, c)
        <5> HIDE DEF last
        <5>1. ends # {}
          BY <3>1, <1>1, <1>7
        <5> QED
          BY <5>1, <1>7
      <4> HIDE DEF last
      <4>2. Less(list[last], list[i])
        BY <4>1, <3>1, <1>4
      <4>3. c \in Criteria \ NextAfter /\ list[last] \in Temporals /\ list[i] \in Temporals
        BY <1>1, <1>9, <4>1 DEF n
      <4> QED
        BY <4>1, <4>2, <4>3, <2>1, FinishedFacts
    <3> HIDE DEF last, ends
    <3> QED
      BY <3>1, <2>1, <1>1, <1>7
  <2>2. ASSUME NEW i \in taken PROVE i \in 1 .. n /\ Matches(list[i], t, c)
    <3> HIDE DEF last
    <3> QED
      BY <1>1, <1>7
  <2> HIDE DEF taken, last, ends
  <2>3. CASE c \in Previous
    <3>1. Walk(list, t, c) = {list[i] : i \in {j \in taken : \A k \in taken : k <= j}}
      BY <1>3, <2>3
    <3>2. Nearest(times, c) = {x \in times : ~\E y \in times : Less(x, y)}
      BY <2>3, <1>9 DEF Nearest
    <3>3. ASSUME NEW i \in taken, \A k \in taken : k <= i PROVE list[i] \in Nearest(times, c)
      <4>1. list[i] \in times /\ i \in 1 .. n
        BY <2>2, <1>5, <1>6
      <4>2. ASSUME NEW y \in times, Less(list[i], y) PROVE FALSE
        <5>1. PICK k \in 1 .. n : list[k] = y
          BY <1>5
        <5>2. k \in taken
          BY <5>1, <1>6, <2>1
        <5>3. i < k /\ k <= i
          BY <5>1, <5>2, <4>1, <4>2, <3>3, <1>4
        <5> QED
          BY <5>1, <5>3, <4>1
      <4> QED
        BY <4>1, <4>2, <3>2
    <3>4. ASSUME NEW x \in Nearest(times, c) PROVE \E i \in taken : list[i] = x /\ \A k \in taken : k <= i
      <4>1. x \in times /\ ~\E y \in times : Less(x, y)
        BY <3>2
      <4>2. PICK i \in 1 .. n : list[i] = x
        BY <4>1, <1>5
      <4>3. i \in taken
        BY <4>1, <4>2, <1>6, <2>1
      <4>4. ASSUME NEW k \in taken PROVE k <= i
        <5>1. k \in 1 .. n /\ list[k] \in times
          BY <2>2, <1>5, <1>6
        <5>2. ~(i < k)
          BY <5>1, <4>1, <4>2, <1>4
        <5> QED
          BY <5>1, <5>2, <4>2
      <4> QED
        BY <4>2, <4>3, <4>4
    <3> HIDE DEF times
    <3> QED
      BY <3>1, <3>3, <3>4
  <2>4. CASE c \notin Previous
    <3>1. Walk(list, t, c) = {list[i] : i \in taken}
      BY <1>3, <2>4
    <3>2. Nearest(times, c) = times
      BY <2>4, <1>9 DEF Nearest
    <3>3. ASSUME NEW i \in taken PROVE list[i] \in times
      BY <2>2, <1>5, <1>6
    <3>4. ASSUME NEW x \in times PROVE \E i \in taken : list[i] = x
      <4>1. PICK i \in 1 .. n : list[i] = x
        BY <1>5
      <4> QED
        BY <4>1, <2>1, <1>6
    <3> HIDE DEF times
    <3> QED
      BY <3>1, <3>2, <3>3, <3>4
  <2> QED
    BY <2>3, <2>4
<1> QED
  BY <1>8, <1>9

(* OVERLAPS without a handle: the walk starts at an entry the index gives   *)
(* and no time beyond the upper limit is before it.                         *)
LEMMA OverlapFacts ==
  ASSUME NEW T \in Tables, ListOK(T), IndexOK(T), T.sortedTemporalList # <<>>, NEW t \in Temporals
  PROVE  Overlapping(T, t) = {x \in Range(T.sortedTemporalList) : Related(x, t, "OVERLAPS")}
<1> DEFINE list == T.sortedTemporalList
           n == Len(list)
           previous == getPreviousTemporalEntry(T, t)
           start == IF previous = 0 THEN 1 ELSE previous
           beyond == {i \in start .. n : list[i].lower > t.upper}
           limit == IF beyond = {} THEN n + 1 ELSE Min(beyond)
<1>1. list \in Seq(Temporals) /\ Sorted(list) /\ n \in Nat /\ \A i \in 1 .. n : list[i] \in Temporals
  BY TableFields DEF ListOK
<1>2. start = 1 \/ (start \in 1 .. n /\ ~Less(t, list[start]))
  <2>1. /\ T.temporalIndexTable \in Seq(Temporals) /\ T.temporalIndexTable # <<>>
        /\ Nondecreasing(T.temporalIndexTable)
        /\ Range(T.temporalIndexTable) \subseteq Range(T.sortedTemporalList)
    BY TableFields DEF IndexOK, IndexInOrder
  <2>2. \/ previous = 0
        \/ previous \in 1 .. n /\ ~Less(t, list[previous])
    BY <1>1, <2>1, PreviousFacts
  <2> QED
    BY <2>2
<1>3. \A x : x \in Range(list) <=> \E i \in 1 .. n : list[i] = x
  BY <1>1, RangeOf
<1>4. Overlapping(T, t) = {list[i] : i \in {j \in 1 .. limit - 1 : list[j].upper >= t.lower}}
  BY DEF Overlapping
<1>5. \A i, j \in 1 .. n : i < j => list[i].lower <= list[j].lower
  BY <1>1, SortedOnce, LessOrder
<1> HIDE DEF list, n, start
<1>6. \A i \in 1 .. n : i < start => list[i].lower <= t.upper
  <2> SUFFICES ASSUME NEW i \in 1 .. n, i < start PROVE list[i].lower <= t.upper
    OBVIOUS
  <2>1. start \in 1 .. n /\ ~Less(t, list[start])
    BY <1>1, <1>2
  <2>2. list[start] \in Temporals /\ list[i] \in Temporals
    BY <2>1, <1>1
  <2>3. list[i].lower <= list[start].lower
    BY <2>1, <1>5
  <2>4. list[start].lower <= t.lower
    BY <2>1, <2>2, LessOrder, TimeFields
  <2> QED
    BY <2>2, <2>3, <2>4, TimeFields
<1>7. limit \in 1 .. n + 1 /\ \A i \in 1 .. n : i < limit <=> list[i].lower <= t.upper
  <2>1. beyond \subseteq Nat /\ \A i \in beyond : i \in 1 .. n /\ i \in start .. n /\ list[i].lower > t.upper
    BY <1>1, <1>2
  <2>2. CASE beyond = {}
    <3>1. limit = n + 1
      BY <2>2
    <3>2. ASSUME NEW i \in 1 .. n PROVE list[i].lower <= t.upper
      <4>1. CASE i < start
        BY <4>1, <1>6
      <4>2. CASE ~(i < start)
        <5>1. i \in start .. n
          BY <4>2, <1>1, <1>2
        <5>2. ~(list[i].lower > t.upper)
          BY <5>1, <2>2
        <5> QED
          BY <5>2, <1>1, TimeFields
      <4> QED
        BY <4>1, <4>2
    <3> HIDE DEF limit
    <3> QED
      BY <3>1, <3>2, <1>1
  <2>3. CASE beyond # {}
    <3>1. limit = Min(beyond)
      BY <2>3
    <3>2. limit \in beyond /\ \A i \in beyond : limit <= i
      <4> HIDE DEF beyond, limit
      <4> QED
        BY <2>1, <2>3, <3>1, MinFacts
    <3>3. limit \in 1 .. n /\ limit \in start .. n /\ list[limit].lower > t.upper
      <4> HIDE DEF limit
      <4> QED
        BY <3>2, <2>1
    <3> HIDE DEF limit
    <3>4. ASSUME NEW i \in 1 .. n, i < limit PROVE list[i].lower <= t.upper
      <4>1. CASE i < start
        BY <4>1, <1>6
      <4>2. CASE ~(i < start)
        <5>1. i \in start .. n /\ ~(limit <= i)
          BY <4>2, <3>3, <3>4, <1>1, <1>2
        <5>2. i \notin beyond
          <6> HIDE DEF beyond
          <6> QED
            BY <5>1, <3>2
        <5> QED
          BY <5>1, <5>2, <1>1, TimeFields
      <4> QED
        BY <4>1, <4>2
    <3>5. ASSUME NEW i \in 1 .. n, ~(i < limit) PROVE ~(list[i].lower <= t.upper)
      <4>1. i = limit \/ list[limit].lower <= list[i].lower
        BY <3>3, <3>5, <1>5
      <4>2. list[limit] \in Temporals /\ list[i] \in Temporals
        BY <3>3, <1>1
      <4> QED
        BY <4>1, <4>2, <3>3, TimeFields
    <3> QED
      BY <3>3, <3>4, <3>5, <1>1
  <2> QED
    BY <2>2, <2>3
<1> HIDE DEF limit
<1>8. \A i \in 1 .. n : i \in 1 .. limit - 1 <=> list[i].lower <= t.upper
  BY <1>1, <1>7
<1>9. \A i \in 1 .. limit - 1 : i \in 1 .. n
  BY <1>1, <1>7
<1>10. \A x \in Range(list) : Related(x, t, "OVERLAPS") <=> t.lower <= x.upper /\ x.lower <= t.upper
  BY DEF Related
<1>11. \A x \in Range(list) : x.upper \in Nat /\ t.lower \in Nat
  BY <1>1, <1>3, TimeFields
<1>12. ASSUME NEW i \in 1 .. limit - 1, list[i].upper >= t.lower PROVE list[i] \in Range(list) /\ Related(list[i], t, "OVERLAPS")
  BY <1>3, <1>8, <1>9, <1>10, <1>11, <1>12
<1>13. ASSUME NEW x \in Range(list), Related(x, t, "OVERLAPS")
       PROVE  \E i \in 1 .. limit - 1 : list[i].upper >= t.lower /\ list[i] = x
  BY <1>3, <1>8, <1>10, <1>11, <1>13
<1> QED
  BY <1>4, <1>12, <1>13 DEF list

(* The times a criterion stands for, among some times.                      *)
Wanted(times, t, c) == IF t = UNDEFINED THEN times ELSE Nearest({x \in times : Related(x, t, c)}, c)

(* What get(t, c) and remove(t, c) choose is what the criterion wants.      *)
LEMMA ChosenFacts ==
  ASSUME NEW T \in Tables, ListOK(T), IndexOK(T), NEW t \in Temporals \cup {UNDEFINED}, NEW c \in Criteria
  PROVE  Chosen(T, t, c) = Wanted(Timed(T), t, c)
<1> DEFINE list == T.sortedTemporalList
           times == {x \in Timed(T) : Related(x, t, c)}
<1>1. list \in Seq(Temporals) /\ Sorted(list) /\ Range(list) = Timed(T)
  BY TableFields DEF ListOK
<1>2. CASE t = UNDEFINED
  <2>1. Chosen(T, t, c) = Walk(list, t, c)
    BY <1>2 DEF Chosen
  <2>2. Walk(list, t, c) = Range(list)
    BY <1>2 DEF Walk
  <2> QED
    BY <2>1, <2>2, <1>1, <1>2 DEF Wanted
<1>3. CASE t # UNDEFINED /\ c = "EXACT"
  <2>1. Chosen(T, t, c) = IF T.temporalMap[t] = {} THEN {} ELSE {t}
    BY <1>3 DEF Chosen
  <2>2. Nearest(times, c) = times
    BY <1>3 DEF Nearest, NextAfter, Previous
  <2>3. \A x \in Timed(T) : Related(x, t, c) <=> x = t
    BY <1>3 DEF Related
  <2>4. t \in Timed(T) <=> T.temporalMap[t] # {}
    BY <1>3 DEF Timed
  <2>5. times = IF T.temporalMap[t] = {} THEN {} ELSE {t}
    BY <2>3, <2>4
  <2> QED
    BY <2>1, <2>2, <2>5, <1>3 DEF Wanted
<1>4. CASE t # UNDEFINED /\ c = "OVERLAPS"
  <2>1. Chosen(T, t, c) = IF list = <<>> THEN {} ELSE Overlapping(T, t)
    BY <1>4 DEF Chosen
  <2>2. Nearest(times, c) = times
    BY <1>4 DEF Nearest, NextAfter, Previous
  <2>3. CASE list = <<>>
    <3>1. Timed(T) = {}
      BY <2>3, <1>1, RangeOf
    <3> QED
      BY <3>1, <2>1, <2>2, <2>3, <1>4 DEF Wanted
  <2>4. CASE list # <<>>
    <3>1. Overlapping(T, t) = {x \in Range(list) : Related(x, t, c)}
      BY <2>4, <1>4, OverlapFacts
    <3> QED
      BY <3>1, <2>1, <2>2, <2>4, <1>1, <1>4 DEF Wanted
  <2> QED
    BY <2>3, <2>4
<1>5. CASE t # UNDEFINED /\ c # "EXACT" /\ c # "OVERLAPS"
  <2>1. Chosen(T, t, c) = Walk(list, t, c)
    BY <1>5 DEF Chosen
  <2>2. Walk(list, t, c) = Nearest({x \in Range(list) : Related(x, t, c)}, c)
    <3> HIDE DEF list
    <3> QED
      BY <1>1, <1>5, WalkFacts
  <2> QED
    BY <2>1, <2>2, <1>1, <1>5 DEF Wanted
<1> QED
  BY <1>2, <1>3, <1>4, <1>5

(* The walk along a handle's list takes what the criterion wants.           *)
LEMMA HandleWalkFacts ==
  ASSUME NEW T \in Tables, NEW h \in Handles, HandleOK(T, h), NEW t \in Temporals \cup {UNDEFINED}, NEW c \in Criteria
  PROVE  Walk(T.handleMap[h], t, c) = Wanted({x \in Temporals : h \in T.temporalMap[x]}, t, c)
<1> DEFINE list == T.handleMap[h]
<1>1. list \in Seq(Temporals) /\ Sorted(list) /\ Range(list) = {x \in Temporals : h \in T.temporalMap[x]}
  BY TableFields DEF HandleOK
<1>2. CASE t = UNDEFINED
  <2>1. Walk(list, t, c) = Range(list)
    BY <1>2 DEF Walk
  <2> QED
    BY <2>1, <1>1, <1>2 DEF Wanted
<1>3. CASE t # UNDEFINED
  <2>1. Walk(list, t, c) = Nearest({x \in Range(list) : Related(x, t, c)}, c)
    <3> HIDE DEF list
    <3> QED
      BY <1>1, <1>3, WalkFacts
  <2> QED
    BY <2>1, <1>1, <1>3 DEF Wanted
<1> QED
  BY <1>2, <1>3

(* A criterion wants some of the times.                                     *)
LEMMA WantedFacts ==
  ASSUME NEW times, NEW t, NEW c
  PROVE  Wanted(times, t, c) \subseteq times
<1>1. \A S : Nearest(S, c) \subseteq S
  BY DEF Nearest, NextAfter, Previous
<1> QED
  BY <1>1 DEF Wanted

(* The pairs a criterion stands for, by their times.                        *)
LEMMA MatchingFacts ==
  ASSUME NEW T \in Tables, NEW h \in Handles \cup {UNDEFINED}, NEW t, NEW c,
         NEW times, times = IF h = UNDEFINED THEN Timed(T) ELSE {x \in Temporals : h \in T.temporalMap[x]}
  PROVE  Matching(EntriesOf(T), h, t, c) =
           {p \in EntriesOf(T) : (h = UNDEFINED \/ p[1] = h) /\ p[2] \in Wanted(times, t, c)}
<1> DEFINE own == {p \in EntriesOf(T) : h = UNDEFINED \/ p[1] = h}
           X == {p[2] : p \in own}
<1>1. \A g \in Handles, x \in Temporals : <<g, x>> \in EntriesOf(T) <=> g \in T.temporalMap[x]
  BY DEF EntriesOf
<1>2. \A p \in EntriesOf(T) : p[1] \in Handles /\ p[2] \in Temporals /\ p = <<p[1], p[2]>> /\ p[1] \in T.temporalMap[p[2]]
  BY DEF EntriesOf
<1>3. \A x \in Temporals : T.temporalMap[x] \subseteq Handles
  BY TableFields
<1>4. UNDEFINED \notin Handles
  BY TableAssumption
<1>5. \A x \in X : x \in times
  <2> SUFFICES ASSUME NEW p \in own PROVE p[2] \in times
    OBVIOUS
  <2> QED
    BY <1>2 DEF Timed
<1>6. \A x \in times : x \in X
  <2> SUFFICES ASSUME NEW x \in times PROVE \E p \in own : p[2] = x
    OBVIOUS
  <2>1. CASE h = UNDEFINED
    <3>1. x \in Temporals /\ T.temporalMap[x] # {}
      BY <2>1 DEF Timed
    <3>2. PICK g \in T.temporalMap[x] : TRUE
      BY <3>1
    <3>3. <<g, x>> \in own
      BY <2>1, <3>1, <3>2, <1>1, <1>3
    <3> QED
      BY <3>3
  <2>2. CASE h # UNDEFINED
    <3>1. <<h, x>> \in own
      BY <2>2, <1>1
    <3> QED
      BY <3>1
  <2> QED
    BY <2>1, <2>2
<1>7. X = times
  BY <1>5, <1>6
<1>8. Matching(EntriesOf(T), h, t, c) =
        IF t = UNDEFINED THEN own ELSE {p \in own : p[2] \in Nearest({x \in X : Related(x, t, c)}, c)}
  BY DEF Matching
<1>9. \A p \in own : p[2] \in X
  OBVIOUS
<1> HIDE DEF X
<1> QED
  BY <1>7, <1>8, <1>9 DEF Wanted

(* get                                                                      *)
LEMMA GetFacts ==
  ASSUME NEW T, TableOK(T), ~T.undefined, NEW h \in Handles \cup {UNDEFINED}, NEW t \in Temporals \cup {UNDEFINED},
         NEW c \in Criteria
  PROVE  get(T, h, t, c) = Matching(EntriesOf(T), h, t, c)
<1> DEFINE times == IF h = UNDEFINED THEN Timed(T) ELSE {x \in Temporals : h \in T.temporalMap[x]}
           W == Wanted(times, t, c)
<1>1. T \in Tables /\ ListOK(T) /\ IndexOK(T) /\ \A g \in Handles : HandleOK(T, g)
  BY DEF TableOK
<1>2. Matching(EntriesOf(T), h, t, c) = {p \in EntriesOf(T) : (h = UNDEFINED \/ p[1] = h) /\ p[2] \in W}
  <2> HIDE DEF times
  <2>1. times = IF h = UNDEFINED THEN Timed(T) ELSE {x \in Temporals : h \in T.temporalMap[x]}
    BY DEF times
  <2> QED
    BY <1>1, <2>1, MatchingFacts
<1>3. \A x \in Temporals : T.temporalMap[x] \subseteq Handles
  BY <1>1, TableFields
<1>4. W \subseteq times /\ times \subseteq Temporals
  BY WantedFacts DEF Timed
<1>5. CASE h = UNDEFINED
  <2>1. Chosen(T, t, c) = W
    BY <1>1, <1>5, ChosenFacts
  <2>2. get(T, h, t, c) = UNION {T.temporalMap[x] \X {x} : x \in W}
    BY <2>1, <1>5 DEF get
  <2> HIDE DEF W
  <2>3. W \subseteq Temporals
    BY <1>4
  <2>4. \A p : p \in get(T, h, t, c) <=> \E x \in W : p \in T.temporalMap[x] \X {x}
    BY <2>2
  <2>5. ASSUME NEW p, NEW x \in W, p \in T.temporalMap[x] \X {x} PROVE p \in EntriesOf(T) /\ p[2] \in W
    BY <2>3, <2>5, <1>3 DEF EntriesOf
  <2>6. ASSUME NEW p \in EntriesOf(T), p[2] \in W PROVE p \in T.temporalMap[p[2]] \X {p[2]}
    BY <2>6 DEF EntriesOf
  <2> QED
    BY <2>4, <2>5, <2>6, <1>2, <1>5
<1>6. CASE h # UNDEFINED
  <2>1. Walk(T.handleMap[h], t, c) = W
    BY <1>1, <1>6, HandleWalkFacts
  <2>2. get(T, h, t, c) = {h} \X W
    BY <2>1, <1>6 DEF get
  <2>3. \A x \in W : x \in Temporals /\ h \in T.temporalMap[x]
    BY <1>4, <1>6
  <2> HIDE DEF W
  <2>4. ASSUME NEW p \in {h} \X W PROVE p \in EntriesOf(T) /\ p[1] = h /\ p[2] \in W
    BY <2>3, <1>6 DEF EntriesOf
  <2>5. ASSUME NEW p \in EntriesOf(T), p[1] = h, p[2] \in W PROVE p \in {h} \X W
    BY <2>5 DEF EntriesOf
  <2> QED
    BY <2>2, <2>4, <2>5, <1>2, <1>6
<1> QED
  BY <1>5, <1>6

(* remove                                                                   *)
LEMMA RemoveMatchingFacts ==
  ASSUME NEW T, TableOK(T), ~T.undefined, NEW h \in Handles \cup {UNDEFINED}, NEW t \in Temporals \cup {UNDEFINED},
         NEW c \in Criteria
  PROVE  /\ TableOK(remove(T, h, t, c)) /\ ~remove(T, h, t, c).undefined
         /\ EntriesOf(remove(T, h, t, c)) = EntriesOf(T) \ Matching(EntriesOf(T), h, t, c)
<1> DEFINE times == IF h = UNDEFINED THEN Timed(T) ELSE {x \in Temporals : h \in T.temporalMap[x]}
           W == Wanted(times, t, c)
           R == remove(T, h, t, c)
<1>1. T \in Tables /\ ListOK(T) /\ IndexOK(T) /\ \A g \in Handles : HandleOK(T, g)
  BY DEF TableOK
<1>2. Matching(EntriesOf(T), h, t, c) = {p \in EntriesOf(T) : (h = UNDEFINED \/ p[1] = h) /\ p[2] \in W}
  <2> HIDE DEF times
  <2>1. times = IF h = UNDEFINED THEN Timed(T) ELSE {x \in Temporals : h \in T.temporalMap[x]}
    BY DEF times
  <2> QED
    BY <1>1, <2>1, MatchingFacts
<1>3. T.temporalMap \in [Temporals -> SUBSET Handles]
  BY <1>1, TableFields
<1>4. W \subseteq times /\ times \subseteq Temporals
  BY WantedFacts DEF Timed
<1>5. UNDEFINED \notin Handles
  BY TableAssumption
<1>6. CASE h # UNDEFINED
  <2> DEFINE crit == IF t = UNDEFINED THEN "EXACT" ELSE c
  <2>1. Walk(T.handleMap[h], t, c) = W
    BY <1>1, <1>6, HandleWalkFacts
  <2>2. R = RemoveHandle(T, h, W, crit)
    BY <2>1, <1>6 DEF remove
  <2>3. Range(T.handleMap[h]) = times
    BY <1>1, <1>6 DEF HandleOK
  <2> HIDE DEF W, R, crit
  <2>4. /\ TableOK(R) /\ ~R.undefined
        /\ R.temporalMap = [x \in Temporals |-> IF x \in W /\ x \in Range(T.handleMap[h]) THEN T.temporalMap[x] \ {h}
                                                ELSE T.temporalMap[x]]
    BY <2>2, <1>6, RemoveHandleFacts
  <2> HIDE DEF times
  <2>5. \A x \in Temporals : R.temporalMap[x] = IF x \in W THEN T.temporalMap[x] \ {h} ELSE T.temporalMap[x]
    BY <2>3, <2>4, <1>4
  <2>6. \A p \in Handles \X Temporals : p \in EntriesOf(R) <=> p \in EntriesOf(T) /\ ~(p[1] = h /\ p[2] \in W)
    BY <2>5 DEF EntriesOf
  <2>7. EntriesOf(R) \subseteq Handles \X Temporals /\ EntriesOf(T) \subseteq Handles \X Temporals
    BY DEF EntriesOf
  <2>8. EntriesOf(R) = EntriesOf(T) \ Matching(EntriesOf(T), h, t, c)
    BY <2>6, <2>7, <1>2, <1>6
  <2> QED
    BY <2>4, <2>8 DEF R
<1>7. CASE h = UNDEFINED
  <2>1. Chosen(T, t, c) = W
    BY <1>1, <1>7, ChosenFacts
  <2>2. /\ TableOK(R) /\ ~R.undefined
        /\ \A x \in Temporals : R.temporalMap[x] = IF x \in W THEN {} ELSE T.temporalMap[x]
    <3>1. CASE t # UNDEFINED /\ c = "EXACT"
      <4>1. R = IF T.temporalMap[t] = {} THEN T ELSE RemoveTime(T, t)
        BY <3>1, <1>7 DEF remove
      <4>2. W = IF T.temporalMap[t] = {} THEN {} ELSE {t}
        BY <2>1, <3>1 DEF Chosen
      <4> HIDE DEF W, R
      <4>3. CASE T.temporalMap[t] = {}
        BY <4>1, <4>2, <4>3
      <4>4. CASE T.temporalMap[t] # {}
        <5>1. R = RemoveTime(T, t) /\ W = {t} /\ t \in Temporals
          BY <4>1, <4>2, <4>4, <3>1
        <5>2. TableOK(R) /\ ~R.undefined /\ R.temporalMap = [T.temporalMap EXCEPT ![t] = {}]
          BY <5>1, <4>4, RemoveTimeFacts
        <5> QED
          BY <5>1, <5>2, <1>3
      <4> QED
        BY <4>3, <4>4
    <3>2. CASE ~(t # UNDEFINED /\ c = "EXACT")
      <4>1. R = RemoveTimes(T, W)
        BY <2>1, <3>2, <1>7 DEF remove
      <4>2. Range(T.sortedTemporalList) = times
        BY <1>1, <1>7 DEF ListOK
      <4> HIDE DEF W, R, times
      <4>3. /\ TableOK(R) /\ ~R.undefined
            /\ R.temporalMap = [x \in Temporals |-> IF x \in W /\ x \in Range(T.sortedTemporalList) THEN {}
                                                    ELSE T.temporalMap[x]]
        BY <4>1, RemoveTimesFacts
      <4> QED
        BY <4>2, <4>3, <1>4
    <3> QED
      BY <3>1, <3>2
  <2> HIDE DEF W, R
  <2>6. \A p \in Handles \X Temporals : p \in EntriesOf(R) <=> p \in EntriesOf(T) /\ ~(p[2] \in W)
    BY <2>2 DEF EntriesOf
  <2>7. EntriesOf(R) \subseteq Handles \X Temporals /\ EntriesOf(T) \subseteq Handles \X Temporals
    BY DEF EntriesOf
  <2>8. EntriesOf(R) = EntriesOf(T) \ Matching(EntriesOf(T), h, t, c)
    BY <2>6, <2>7, <1>2, <1>7
  <2> QED
    BY <2>2, <2>8 DEF R
<1> QED
  BY <1>6, <1>7

----------------------------------------------------------------------------
(* The server.                                                              *)

Links == Handles \X Temporals \X Domains
Whats == {"added", "removed"}
Calls == [links : SUBSET Links, entries : SUBSET Links, freed : SUBSET Links, signal : SUBSET (Whats \X Links)]

TablesOK ==
  /\ DOMAIN temporalTableMap = Domains /\ temporalTableMap = [d \in Domains |-> temporalTableMap[d]]
  /\ \A d \in Domains : TableOK(temporalTableMap[d])

ServerTypes ==
  /\ latestTimestamp \in Nat
  /\ atTimeLinks \subseteq Links
  /\ call \in [Threads -> Calls]

Signals(k, what, l) == <<what, l>> \in call[k].signal
Entry(l) == <<l[1], l[2]>> \in Entries(l[3])

(* A link has its entry, or the signal for it is due; an entry has its      *)
(* link, or an addTimeInfo is to add it, or the signal of its removal is    *)
(* due.  One signal is due for a link, and it says what was done last.      *)
Shown(l) ==
  /\ l \in atTimeLinks => Entry(l) \/ \E k \in Threads : Signals(k, "added", l)
  /\ Entry(l) => l \in atTimeLinks \/ \E k \in Threads : l \in call[k].links \/ Signals(k, "removed", l)
  /\ \A j, k \in Threads, v, w \in Whats : Signals(j, v, l) /\ Signals(k, w, l) => j = k /\ v = w
  /\ \A k \in Threads : (Signals(k, "added", l) => l \in atTimeLinks) /\ (Signals(k, "removed", l) => l \notin atTimeLinks)

LinksShown == usage = "links" => \A l \in Links : l[3] = DEFAULT_TIMEDOMAIN /\ l \notin raced => Shown(l)

(* A thread is in an addTimeInfo, of one link, or has one signal to send,   *)
(* or is in a removeTimeInfo.                                               *)
OneCall == \A k \in Threads : /\ call[k].links = {} \/ (call[k].entries = {} /\ call[k].signal = {})
                              /\ \A l, m \in call[k].links : l = m
                              /\ \A x, y \in call[k].signal : x = y

IInv == TablesOK /\ ServerTypes /\ LinksShown /\ OneCall

(* A table that was just made.                                              *)
LEMMA EmptyFacts == TableOK(EmptyTable) /\ ~EmptyTable.undefined /\ EntriesOf(EmptyTable) = {}
<1>1. EmptyTable \in Tables
  BY EmptySeq DEF EmptyTable, Tables
<1>2. /\ EmptyTable.sortedTemporalList = <<>> /\ EmptyTable.temporalIndexTable = <<>>
      /\ EmptyTable.indexTableSize = 1 /\ EmptyTable.pendingUpdateCount = 0
      /\ \A t \in Temporals : EmptyTable.temporalMap[t] = {}
      /\ \A h \in Handles : EmptyTable.handleMap[h] = <<>> /\ EmptyTable.tailHandleMap[h] = NoTail
      /\ EmptyTable.undefined = FALSE
  BY DEF EmptyTable
<1>3. Range(<<>>) = {} /\ Sorted(<<>>) /\ Nondecreasing(<<>>) /\ Len(<<>>) = 0
  BY DEF Range, Sorted, Nondecreasing
<1>4. Timed(EmptyTable) = {} /\ ListOK(EmptyTable)
  BY <1>2, <1>3 DEF Timed, ListOK
<1>5. Lag(EmptyTable) = {} /\ Cardinality({}) = 0
  BY <1>2, <1>3, FS_EmptySet DEF Lag
<1>6. IndexOK(EmptyTable)
  BY <1>2, <1>3, <1>5 DEF IndexOK, IndexInOrder
<1>7. ASSUME NEW h \in Handles PROVE HandleOK(EmptyTable, h)
  BY <1>2, <1>3, TableAssumption DEF HandleOK
<1>8. EntriesOf(EmptyTable) = {}
  BY <1>2 DEF EntriesOf
<1> QED
  BY <1>1, <1>2, <1>4, <1>6, <1>7, <1>8 DEF TableOK

(* The critical section of add.                                             *)
LEMMA AddEntryStep ==
  ASSUME TablesOK, ServerTypes, Defined, NEW h \in Handles, NEW t \in Temporals, NEW d \in Domains, addEntry(h, t, d)
  PROVE  /\ TablesOK' /\ latestTimestamp' \in Nat
         /\ Entries(d)' = Entries(d) \cup {<<h, t>>}
         /\ \A e \in Domains \ {d} : Entries(e)' = Entries(e)
<1>1. PICK later \in BOOLEAN : temporalTableMap' = [temporalTableMap EXCEPT ![d] = add(temporalTableMap[d], h, t, later)]
  BY DEF addEntry
<1> DEFINE T == temporalTableMap[d]
           R == add(T, h, t, later)
<1>2. TableOK(T) /\ ~T.undefined
  BY DEF TablesOK, Defined
<1>3. TableOK(R) /\ R.temporalMap = [T.temporalMap EXCEPT ![t] = T.temporalMap[t] \cup {h}]
  <2> HIDE DEF T
  <2> QED
    BY <1>2, AddFacts
<1> HIDE DEF R
<1>4. temporalTableMap'[d] = R /\ \A e \in Domains \ {d} : temporalTableMap'[e] = temporalTableMap[e]
  BY <1>1 DEF TablesOK, R
<1>5. TablesOK'
  <2>1. DOMAIN temporalTableMap' = Domains /\ temporalTableMap' = [e \in Domains |-> temporalTableMap'[e]]
    BY <1>1 DEF TablesOK
  <2>2. \A e \in Domains : TableOK(temporalTableMap'[e])
    BY <1>3, <1>4 DEF TablesOK
  <2> QED
    BY <2>1, <2>2 DEF TablesOK
<1>6. latestTimestamp' \in Nat
  BY TimeFields DEF addEntry, ServerTypes
<1>7. T.temporalMap \in [Temporals -> SUBSET Handles]
  BY <1>2, TableFields DEF TableOK
<1>8. EntriesOf(R) = EntriesOf(T) \cup {<<h, t>>}
  <2> HIDE DEF T
  <2>1. \A x \in Temporals : R.temporalMap[x] = IF x = t THEN T.temporalMap[x] \cup {h} ELSE T.temporalMap[x]
    BY <1>3, <1>7
  <2>2. \A p \in Handles \X Temporals : p \in EntriesOf(R) <=> p \in EntriesOf(T) \/ p = <<h, t>>
    <3> TAKE p \in Handles \X Temporals
    <3>1. p[1] \in Handles /\ p[2] \in Temporals /\ (p = <<h, t>> <=> p[1] = h /\ p[2] = t)
      OBVIOUS
    <3>2. p[1] \in R.temporalMap[p[2]] <=> p[1] \in T.temporalMap[p[2]] \/ (p[1] = h /\ p[2] = t)
      BY <2>1, <3>1
    <3> QED
      BY <3>1, <3>2 DEF EntriesOf
  <2>3. EntriesOf(R) \subseteq Handles \X Temporals /\ EntriesOf(T) \subseteq Handles \X Temporals
    BY DEF EntriesOf
  <2> QED
    BY <2>2, <2>3
<1> QED
  BY <1>4, <1>5, <1>6, <1>8 DEF Entries

(* The critical section of remove.                                          *)
LEMMA RemoveEntriesStep ==
  ASSUME TablesOK, ServerTypes, Defined, NEW h \in Handles \cup {UNDEFINED}, NEW t \in Temporals \cup {UNDEFINED},
         NEW c \in Criteria, NEW d \in Domains, removeEntries(h, t, c, d)
  PROVE  /\ TablesOK' /\ latestTimestamp' \in Nat
         /\ Entries(d)' = Entries(d) \ Matching(Entries(d), h, t, c)
         /\ \A e \in Domains \ {d} : Entries(e)' = Entries(e)
<1> DEFINE T == temporalTableMap[d]
           R == remove(T, h, t, c)
<1>1. temporalTableMap' = [temporalTableMap EXCEPT ![d] = R] /\ latestTimestamp' = latestTimestamp
  BY DEF removeEntries
<1>2. TableOK(T) /\ ~T.undefined
  BY DEF TablesOK, Defined
<1>3. TableOK(R) /\ EntriesOf(R) = EntriesOf(T) \ Matching(EntriesOf(T), h, t, c)
  <2> HIDE DEF T
  <2> QED
    BY <1>2, RemoveMatchingFacts
<1> HIDE DEF R
<1>4. temporalTableMap'[d] = R /\ \A e \in Domains \ {d} : temporalTableMap'[e] = temporalTableMap[e]
  BY <1>1 DEF TablesOK
<1>5. TablesOK'
  <2>1. DOMAIN temporalTableMap' = Domains /\ temporalTableMap' = [e \in Domains |-> temporalTableMap'[e]]
    BY <1>1 DEF TablesOK
  <2>2. \A e \in Domains : TableOK(temporalTableMap'[e])
    BY <1>3, <1>4 DEF TablesOK
  <2> QED
    BY <2>1, <2>2 DEF TablesOK
<1> QED
  BY <1>1, <1>3, <1>4, <1>5 DEF Entries, ServerTypes

(* EXACT with a handle and a time removes that pair.                        *)
LEMMA ExactFacts ==
  ASSUME NEW E, E \subseteq Handles \X Temporals, NEW h \in Handles, NEW t \in Temporals
  PROVE  E \ Matching(E, h, t, "EXACT") = E \ {<<h, t>>}
<1> DEFINE own == {p \in E : h = UNDEFINED \/ p[1] = h}
           X == {x \in {p[2] : p \in own} : Related(x, t, "EXACT")}
<1>1. h # UNDEFINED /\ t # UNDEFINED
  BY TableAssumption
<1>2. Matching(E, h, t, "EXACT") = {p \in own : p[2] \in Nearest(X, "EXACT")}
  BY <1>1 DEF Matching
<1>3. Nearest(X, "EXACT") = X
  BY DEF Nearest, NextAfter, Previous
<1>4. \A x : Related(x, t, "EXACT") <=> x = t
  BY DEF Related
<1>5. \A p \in own : p[2] \in X <=> p[2] = t
  BY <1>4
<1>6. \A p \in E : p = <<h, t>> <=> p[1] = h /\ p[2] = t
  OBVIOUS
<1> HIDE DEF X
<1> QED
  BY <1>1, <1>2, <1>3, <1>5, <1>6

(* Entries are pairs.                                                       *)
LEMMA EntriesType ==
  ASSUME NEW d PROVE Entries(d) \subseteq Handles \X Temporals
BY DEF Entries, EntriesOf

(* A signal is handled: the pair of an added link is entered.               *)
LEMMA AtomAddedStep ==
  ASSUME IInv, Defined, NEW l \in Links, atomAdded(l)
  PROVE  /\ TablesOK' /\ latestTimestamp' \in Nat
         /\ \A m \in Links : Entry(m)' <=> Entry(m) \/ m = l
<1>1. l[1] \in Handles /\ l[2] \in Temporals /\ l[3] \in Domains /\ l = <<l[1], l[2], l[3]>>
  BY DEF Links
<1>2. TablesOK /\ ServerTypes /\ addEntry(l[1], l[2], l[3])
  BY DEF IInv, atomAdded
<1>3. /\ TablesOK' /\ latestTimestamp' \in Nat
      /\ Entries(l[3])' = Entries(l[3]) \cup {<<l[1], l[2]>>}
      /\ \A e \in Domains \ {l[3]} : Entries(e)' = Entries(e)
  BY <1>1, <1>2, AddEntryStep
<1>4. ASSUME NEW m \in Links PROVE Entry(m)' <=> Entry(m) \/ m = l
  <2>1. m[3] \in Domains /\ m = <<m[1], m[2], m[3]>>
    BY DEF Links
  <2>2. m = l <=> m[3] = l[3] /\ <<m[1], m[2]>> = <<l[1], l[2]>>
    BY <2>1, <1>1
  <2>3. CASE m[3] = l[3]
    BY <2>2, <2>3, <1>3 DEF Entry
  <2>4. CASE m[3] # l[3]
    BY <2>1, <2>2, <2>4, <1>3 DEF Entry
  <2> QED
    BY <2>3, <2>4
<1> QED
  BY <1>3, <1>4

(* That of a removed link is taken out, in the default domain.              *)
LEMMA AtomRemovedStep ==
  ASSUME IInv, Defined, NEW l \in Links, atomRemoved(l)
  PROVE  /\ TablesOK' /\ latestTimestamp' \in Nat
         /\ \A m \in Links : m[3] = DEFAULT_TIMEDOMAIN => (Entry(m)' <=> Entry(m) /\ m # l)
<1>1. l[1] \in Handles /\ l[2] \in Temporals /\ l[3] \in Domains /\ l = <<l[1], l[2], l[3]>>
  BY DEF Links
<1>2. TablesOK /\ ServerTypes /\ latestTimestamp \in Nat
  BY DEF IInv, ServerTypes
<1>3. CASE l[3] = DEFAULT_TIMEDOMAIN
  <2>1. removeEntries(l[1], l[2], "EXACT", l[3])
    BY <1>3 DEF atomRemoved
  <2>2. "EXACT" \in Criteria
    BY DEF Criteria
  <2>3. /\ TablesOK' /\ latestTimestamp' \in Nat
        /\ Entries(l[3])' = Entries(l[3]) \ Matching(Entries(l[3]), l[1], l[2], "EXACT")
    BY <2>1, <2>2, <1>1, <1>2, RemoveEntriesStep
  <2>4. Entries(l[3]) \ Matching(Entries(l[3]), l[1], l[2], "EXACT") = Entries(l[3]) \ {<<l[1], l[2]>>}
    BY <1>1, EntriesType, ExactFacts
  <2>5. Entries(l[3])' = Entries(l[3]) \ {<<l[1], l[2]>>}
    BY <2>3, <2>4
  <2>6. ASSUME NEW m \in Links, m[3] = DEFAULT_TIMEDOMAIN PROVE Entry(m)' <=> Entry(m) /\ m # l
    <3>1. m = <<m[1], m[2], m[3]>>
      BY DEF Links
    <3>2. m = l <=> <<m[1], m[2]>> = <<l[1], l[2]>>
      BY <3>1, <2>6, <1>1, <1>3
    <3> QED
      BY <3>2, <2>5, <2>6, <1>3 DEF Entry
  <2> QED
    BY <2>3, <2>6
<1>4. CASE l[3] # DEFAULT_TIMEDOMAIN
  <2>1. temporalTableMap' = temporalTableMap /\ latestTimestamp' = latestTimestamp
    BY <1>4 DEF atomRemoved, server
  <2>2. TablesOK' /\ \A m : Entry(m)' <=> Entry(m)
    BY <2>1, <1>2 DEF TablesOK, Entry, Entries
  <2> QED
    BY <2>1, <2>2, <1>2, <1>4
<1> QED
  BY <1>3, <1>4

(* A step that leaves the tables alone.                                     *)
LEMMA ServerSame ==
  ASSUME IInv, UNCHANGED server
  PROVE  TablesOK' /\ latestTimestamp' \in Nat /\ \A m : Entry(m)' <=> Entry(m)
BY DEF IInv, TablesOK, ServerTypes, Entry, Entries, server

(* Thread k alone does something, and it does not concern the link l.       *)
LEMMA OtherLink ==
  ASSUME NEW l \in Links, Shown(l), Entry(l)' <=> Entry(l), l \in atTimeLinks' <=> l \in atTimeLinks,
         \A j \in Threads : /\ \A w \in Whats : Signals(j, w, l)' <=> Signals(j, w, l)
                            /\ l \in call[j].links => l \in call'[j].links
  PROVE  Shown(l)'
BY DEF Shown, Whats

----------------------------------------------------------------------------
(* IInv is inductive.                                                       *)

(* The invariant at first.                                                  *)
LEMMA InitIInv == Init => IInv
<1> SUFFICES ASSUME Init PROVE IInv
  OBVIOUS
<1>1. temporalTableMap = [d \in Domains |-> EmptyTable] /\ latestTimestamp = 0 /\ atTimeLinks = {} /\ call = [k \in Threads |-> NoCall]
  BY DEF Init
<1>2. TablesOK
  BY <1>1, EmptyFacts DEF TablesOK
<1>3. NoCall \in Calls /\ NoCall.links = {} /\ NoCall.entries = {} /\ NoCall.signal = {}
  BY DEF NoCall, Calls
<1>4. ServerTypes
  BY <1>1, <1>3 DEF ServerTypes
<1>5. Entries(DEFAULT_TIMEDOMAIN) = {}
  BY <1>1, EmptyFacts, ServerAssumption DEF Entries
<1>6. OneCall
  BY <1>1, <1>3 DEF OneCall
<1>7. LinksShown
  BY <1>1, <1>3, <1>5 DEF LinksShown, Shown, Entry, Signals
<1> QED
  BY <1>2, <1>4, <1>6, <1>7 DEF IInv

(* Without AtTimeLinks.                                                     *)
LEMMA DirectStep ==
  ASSUME IInv, CalledDirectly, TablesOK', latestTimestamp' \in Nat
  PROVE  IInv'
<1>1. atTimeLinks' = atTimeLinks /\ call' = call /\ usage' = "tables"
  BY DEF CalledDirectly
<1>2. ServerTypes' /\ OneCall'
  BY <1>1 DEF IInv, ServerTypes, OneCall
<1>3. LinksShown'
  BY <1>1 DEF LinksShown
<1> QED
  BY <1>2, <1>3 DEF IInv

(* add, without AtTimeLinks.                                                *)
LEMMA AddIInv ==
  ASSUME IInv, NEW h \in Handles, NEW t \in Temporals, NEW d \in Domains, Add(h, t, d)
  PROVE  IInv'
<1>1. TablesOK /\ ServerTypes /\ Defined /\ CalledDirectly /\ addEntry(h, t, d)
  BY DEF IInv, Add, CalledDirectly
<1> QED
  BY <1>1, AddEntryStep, DirectStep

(* remove, without AtTimeLinks.                                             *)
LEMMA RemoveIInv ==
  ASSUME IInv, NEW h \in Handles \cup {UNDEFINED}, NEW t \in Temporals \cup {UNDEFINED}, NEW c \in Criteria,
         NEW d \in Domains, RemoveMatching(h, t, c, d)
  PROVE  IInv'
<1>1. TablesOK /\ ServerTypes /\ Defined /\ CalledDirectly /\ removeEntries(h, t, c, d)
  BY DEF IInv, RemoveMatching, CalledDirectly
<1>2. TablesOK' /\ latestTimestamp' \in Nat
  BY <1>1, RemoveEntriesStep
<1> QED
  BY <1>1, <1>2, DirectStep

(* clear.                                                                   *)
LEMMA ClearIInv ==
  ASSUME IInv, clear
  PROVE  IInv'
<1>1. CalledDirectly /\ temporalTableMap' = [d \in Domains |-> EmptyTable] /\ latestTimestamp' = 0
  BY DEF clear
<1>2. TablesOK'
  BY <1>1, EmptyFacts DEF TablesOK
<1> QED
  BY <1>1, <1>2, DirectStep

(* What becomes of call when only thread k does something.                  *)
LEMMA CallStep ==
  ASSUME call \in [Threads -> Calls], NEW k \in Threads, NEW n \in Calls, call' = [call EXCEPT ![k] = n]
  PROVE  call' \in [Threads -> Calls] /\ call'[k] = n /\ \A j \in Threads \ {k} : call'[j] = call[j]
OBVIOUS

(* addTimeInfo: the entry is there before the link.                         *)
LEMMA AddTimeInfoIInv ==
  ASSUME IInv, NEW k \in Threads, NEW h \in Handles, NEW t \in Temporals, NEW d \in Domains, addTimeInfo(k, h, t, d)
  PROVE  IInv'
<1> DEFINE m == <<h, t, d>>
           n == [NoCall EXCEPT !.links = {m}]
<1>1. /\ TablesOK /\ ServerTypes /\ OneCall /\ LinksShown /\ Defined /\ addEntry(h, t, d) /\ call[k] = NoCall
      /\ atTimeLinks' = atTimeLinks /\ usage' = usage /\ raced' = raced
  BY DEF IInv, addTimeInfo, Called, Idle
<1>2. call \in [Threads -> Calls] /\ m \in Links
  BY <1>1 DEF ServerTypes, Links
<1>3. n \in Calls /\ n.links = {m} /\ n.entries = {} /\ n.signal = {}
  BY <1>2 DEF NoCall, Calls
<1>4. call' = [call EXCEPT ![k] = n]
  BY <1>1 DEF addTimeInfo
<1> HIDE DEF n
<1>5. call' \in [Threads -> Calls] /\ call'[k] = n /\ \A j \in Threads \ {k} : call'[j] = call[j]
  BY <1>2, <1>3, <1>4, CallStep
<1>6. atomAdded(m)
  BY <1>1 DEF atomAdded
<1> HIDE DEF m
<1>7. TablesOK' /\ latestTimestamp' \in Nat /\ \A l \in Links : Entry(l)' <=> Entry(l) \/ l = m
  BY <1>1, <1>2, <1>6, AtomAddedStep
<1>8. ServerTypes'
  BY <1>1, <1>5, <1>7 DEF ServerTypes
<1>9. OneCall'
  BY <1>1, <1>3, <1>5 DEF OneCall
<1>10. NoCall.signal = {} /\ NoCall.links = {}
  BY DEF NoCall
<1>11. \A l : \A j \in Threads : /\ \A w \in Whats : Signals(j, w, l)' <=> Signals(j, w, l)
                                 /\ l \in call[j].links => l \in call'[j].links
  BY <1>1, <1>3, <1>5, <1>10 DEF Signals
<1>12. LinksShown'
  <2> SUFFICES ASSUME usage = "links", NEW l \in Links, l[3] = DEFAULT_TIMEDOMAIN, l \notin raced PROVE Shown(l)'
    BY <1>1 DEF LinksShown
  <2>1. Shown(l)
    BY <1>1 DEF LinksShown
  <2>2. CASE l = m
    <3>1. m \in call'[k].links /\ Entry(m)'
      BY <1>2, <1>3, <1>5, <1>7
    <3> QED
      BY <2>1, <2>2, <3>1, <1>1, <1>11 DEF Shown, Whats
  <2>3. CASE l # m
    BY <2>1, <2>3, <1>1, <1>7, <1>11, OtherLink
  <2> QED
    BY <2>2, <2>3
<1> QED
  BY <1>7, <1>8, <1>9, <1>12 DEF IInv

(* A link is added to the AtomSpace by a thread with no signal to send.     *)
LEMMA AddLinkIInv ==
  ASSUME IInv, NEW k \in Threads, NEW m \in Links, AddLink(k, m), UNCHANGED <<server, usage>>,
         call[k].signal = {}, call[k].links \subseteq {m}
  PROVE  IInv'
<1> DEFINE sig == IF m \in atTimeLinks THEN {} ELSE {<<"added", m>>}
           n == [call[k] EXCEPT !.links = {}, !.signal = sig]
<1>1. /\ TablesOK /\ ServerTypes /\ OneCall /\ LinksShown /\ usage' = usage
      /\ atTimeLinks' = atTimeLinks \cup {m} /\ raced \subseteq raced'
      /\ m \in atTimeLinks \/ raced' = IF SignalDue(m) THEN raced \cup {m} ELSE raced
  BY DEF IInv, AddLink, Changes
<1>2. call \in [Threads -> Calls] /\ call[k] \in Calls /\ atTimeLinks \subseteq Links
  BY <1>1 DEF ServerTypes
<1>3. sig \subseteq Whats \X Links /\ \A x, y \in sig : x = y
  BY DEF Whats
<1>4. \A w, l : <<w, l>> \in sig <=> w = "added" /\ l = m /\ m \notin atTimeLinks
  OBVIOUS
<1>5. call' = [call EXCEPT ![k] = n]
  BY DEF AddLink
<1> HIDE DEF sig
<1>6. n \in Calls /\ n.links = {} /\ n.signal = sig
  BY <1>2, <1>3 DEF Calls
<1> HIDE DEF n
<1>7. call' \in [Threads -> Calls] /\ call'[k] = n /\ \A j \in Threads \ {k} : call'[j] = call[j]
  BY <1>2, <1>5, <1>6, CallStep
<1>8. TablesOK' /\ latestTimestamp' \in Nat /\ \A l : Entry(l)' <=> Entry(l)
  BY ServerSame
<1>9. ServerTypes'
  BY <1>1, <1>2, <1>7, <1>8 DEF ServerTypes
<1>10. OneCall'
  BY <1>1, <1>3, <1>6, <1>7 DEF OneCall
<1>11. \A l, w : Signals(k, w, l)' <=> w = "added" /\ l = m /\ m \notin atTimeLinks
  BY <1>4, <1>6, <1>7 DEF Signals
<1>12. \A j \in Threads \ {k} : \A l, w : (Signals(j, w, l)' <=> Signals(j, w, l)) /\ call'[j].links = call[j].links
  BY <1>7 DEF Signals
<1>13. \A l, w : ~Signals(k, w, l)
  BY DEF Signals
<1>14. LinksShown'
  <2> SUFFICES ASSUME usage = "links", NEW l \in Links, l[3] = DEFAULT_TIMEDOMAIN, l \notin raced' PROVE Shown(l)'
    BY <1>1 DEF LinksShown
  <2>1. Shown(l)
    BY <1>1 DEF LinksShown
  <2>2. CASE l # m
    <3>1. \A j \in Threads : /\ \A w \in Whats : Signals(j, w, l)' <=> Signals(j, w, l)
                             /\ l \in call[j].links => l \in call'[j].links
      BY <2>2, <1>11, <1>12, <1>13
    <3> QED
      BY <2>1, <2>2, <3>1, <1>1, <1>8, OtherLink
  <2>3. CASE l = m /\ m \in atTimeLinks
    <3>1. \A j \in Threads : \A w \in Whats : Signals(j, w, l)' <=> Signals(j, w, l)
      BY <2>3, <1>11, <1>12, <1>13
    <3> QED
      BY <2>1, <2>3, <3>1, <1>1, <1>8 DEF Shown, Whats
  <2>4. CASE l = m /\ m \notin atTimeLinks
    <3>1. \A j \in Threads : \A w \in Whats : ~Signals(j, w, m)
      BY <2>4, <1>1 DEF SignalDue, Signals, Whats
    <3>2. \A j \in Threads : \A w \in Whats : Signals(j, w, m)' <=> j = k /\ w = "added"
      BY <2>4, <3>1, <1>11, <1>12
    <3>3. m \in atTimeLinks' /\ Signals(k, "added", m)'
      BY <2>4, <1>1, <1>11
    <3> QED
      BY <2>4, <3>2, <3>3 DEF Shown, Whats
  <2> QED
    BY <2>2, <2>3, <2>4
<1> QED
  BY <1>8, <1>9, <1>10, <1>14 DEF IInv

(* A link is removed from it.                                               *)
LEMMA RemoveLinkIInv ==
  ASSUME IInv, NEW k \in Threads, NEW m \in atTimeLinks, NEW left \in SUBSET Links, RemoveLink(k, m, left),
         UNCHANGED <<server, usage>>, call[k].signal = {}, call[k].links = {}
  PROVE  IInv'
<1> DEFINE sig == {<<"removed", m>>}
           n == [call[k] EXCEPT !.entries = left, !.freed = call[k].freed \cap left, !.signal = sig]
<1>1. /\ TablesOK /\ ServerTypes /\ OneCall /\ LinksShown /\ usage' = usage
      /\ atTimeLinks' = atTimeLinks \ {m}
      /\ raced' = IF SignalDue(m) THEN raced \cup {m} ELSE raced
  BY DEF IInv, RemoveLink, Changes
<1>2. call \in [Threads -> Calls] /\ call[k] \in Calls /\ atTimeLinks \subseteq Links /\ m \in Links
  BY <1>1 DEF ServerTypes
<1>3. sig \subseteq Whats \X Links /\ \A x, y \in sig : x = y
  BY <1>2 DEF Whats
<1>4. \A w, l : <<w, l>> \in sig <=> w = "removed" /\ l = m
  OBVIOUS
<1>5. call' = [call EXCEPT ![k] = n]
  BY DEF RemoveLink
<1> HIDE DEF sig
<1>6. n \in Calls /\ n.links = {} /\ n.signal = sig
  BY <1>2, <1>3 DEF Calls
<1> HIDE DEF n
<1>7. call' \in [Threads -> Calls] /\ call'[k] = n /\ \A j \in Threads \ {k} : call'[j] = call[j]
  BY <1>2, <1>5, <1>6, CallStep
<1>8. TablesOK' /\ latestTimestamp' \in Nat /\ \A l : Entry(l)' <=> Entry(l)
  BY ServerSame
<1>9. ServerTypes'
  BY <1>1, <1>2, <1>7, <1>8 DEF ServerTypes
<1>10. OneCall'
  BY <1>1, <1>3, <1>6, <1>7 DEF OneCall
<1>11. \A l, w : Signals(k, w, l)' <=> w = "removed" /\ l = m
  BY <1>4, <1>6, <1>7 DEF Signals
<1>12. \A j \in Threads \ {k} : \A l, w : (Signals(j, w, l)' <=> Signals(j, w, l)) /\ call'[j].links = call[j].links
  BY <1>7 DEF Signals
<1>13. \A l, w : ~Signals(k, w, l)
  BY DEF Signals
<1>14. LinksShown'
  <2> SUFFICES ASSUME usage = "links", NEW l \in Links, l[3] = DEFAULT_TIMEDOMAIN, l \notin raced' PROVE Shown(l)'
    BY <1>1 DEF LinksShown
  <2>1. Shown(l)
    BY <1>1 DEF LinksShown
  <2>2. CASE l # m
    <3>1. \A j \in Threads : /\ \A w \in Whats : Signals(j, w, l)' <=> Signals(j, w, l)
                             /\ l \in call[j].links => l \in call'[j].links
      BY <2>2, <1>11, <1>12, <1>13
    <3> QED
      BY <2>1, <2>2, <3>1, <1>1, <1>8, OtherLink
  <2>3. CASE l = m
    <3>1. \A j \in Threads : \A w \in Whats : ~Signals(j, w, m)
      BY <2>3, <1>1 DEF SignalDue, Signals, Whats
    <3>2. \A j \in Threads : \A w \in Whats : Signals(j, w, m)' <=> j = k /\ w = "removed"
      BY <3>1, <1>11, <1>12
    <3>3. m \notin atTimeLinks' /\ Signals(k, "removed", m)'
      BY <1>1, <1>11
    <3> QED
      BY <2>3, <3>2, <3>3 DEF Shown, Whats
  <2> QED
    BY <2>2, <2>3
<1> QED
  BY <1>8, <1>9, <1>10, <1>14 DEF IInv

(* What becomes of call when thread k has sent its signal.                  *)
LEMMA SentStep ==
  ASSUME call \in [Threads -> Calls], NEW k \in Threads,
         call' = [j \in Threads |-> [call[j] EXCEPT !.freed = Freed(call[j]), !.signal = IF j = k THEN {} ELSE @]]
  PROVE  /\ call' \in [Threads -> Calls]
         /\ \A j \in Threads : /\ call'[j].links = call[j].links /\ call'[j].entries = call[j].entries
                               /\ call'[j].signal = IF j = k THEN {} ELSE call[j].signal
<1>1. ASSUME NEW j \in Threads
      PROVE  /\ call'[j] \in Calls /\ call'[j].links = call[j].links /\ call'[j].entries = call[j].entries
             /\ call'[j].signal = IF j = k THEN {} ELSE call[j].signal
  <2> DEFINE F == Freed(call[j])
             G == IF j = k THEN {} ELSE call[j].signal
  <2>1. call[j] \in Calls
    OBVIOUS
  <2>2. F \subseteq Links /\ G \subseteq Whats \X Links
    BY <2>1 DEF Freed, Calls
  <2>3. call'[j] = [call[j] EXCEPT !.freed = F, !.signal = G]
    OBVIOUS
  <2> HIDE DEF F, G
  <2>4. /\ call'[j] \in Calls /\ call'[j].links = call[j].links /\ call'[j].entries = call[j].entries
        /\ call'[j].signal = G
    BY <2>1, <2>2, <2>3 DEF Calls
  <2> QED
    BY <2>4 DEF G
<1>2. DOMAIN call' = Threads /\ call' = [j \in Threads |-> call'[j]]
  OBVIOUS
<1> QED
  BY <1>1, <1>2

(* A signal that was due for m is handled, and the table is as Entry(m)'    *)
(* says.                                                                    *)
LEMMA SignalIInv ==
  ASSUME IInv, NEW k \in Threads, NEW m \in Links, NEW v \in Whats, Signals(k, v, m),
         TablesOK', latestTimestamp' \in Nat, UNCHANGED <<atTimeLinks, usage, raced>>,
         call' \in [Threads -> Calls],
         \A j \in Threads : /\ call'[j].links = call[j].links /\ call'[j].entries = call[j].entries
                            /\ call'[j].signal = IF j = k THEN {} ELSE call[j].signal,
         \A l \in Links : l[3] = DEFAULT_TIMEDOMAIN /\ l # m => (Entry(l)' <=> Entry(l)),
         m[3] = DEFAULT_TIMEDOMAIN => (Entry(m)' <=> v = "added")
  PROVE  IInv'
<1>1. OneCall /\ LinksShown /\ atTimeLinks \subseteq Links
  BY DEF IInv, ServerTypes
<1>2. ServerTypes'
  BY <1>1 DEF ServerTypes
<1>3. OneCall'
  <2> SUFFICES ASSUME NEW j \in Threads
               PROVE  /\ call'[j].links = {} \/ (call'[j].entries = {} /\ call'[j].signal = {})
                      /\ \A x, y \in call'[j].links : x = y
                      /\ \A x, y \in call'[j].signal : x = y
    BY DEF OneCall
  <2> QED
    BY <1>1 DEF OneCall
<1>4. ServerTypes' /\ OneCall'
  BY <1>2, <1>3
<1>5. \A j \in Threads : \A w, l : Signals(j, w, l)' <=> Signals(j, w, l) /\ j # k
  BY DEF Signals
<1>6. \A w, l : Signals(k, w, l) => w = v /\ l = m
  <2> TAKE w, l
  <2>1. Signals(k, w, l) => <<w, l>> = <<v, m>>
    BY <1>1 DEF OneCall, Signals
  <2> QED
    BY <2>1
<1>7. LinksShown'
  <2> SUFFICES ASSUME usage = "links", NEW l \in Links, l[3] = DEFAULT_TIMEDOMAIN, l \notin raced PROVE Shown(l)'
    BY DEF LinksShown
  <2>1. Shown(l)
    BY <1>1 DEF LinksShown
  <2>2. CASE l # m
    <3>1. \A j \in Threads : /\ \A w \in Whats : Signals(j, w, l)' <=> Signals(j, w, l)
                             /\ l \in call[j].links => l \in call'[j].links
      BY <2>2, <1>5, <1>6
    <3> QED
      BY <2>1, <2>2, <3>1, OtherLink
  <2>3. CASE l = m
    <3>1. \A j \in Threads : \A w \in Whats : ~Signals(j, w, m)'
      BY <2>1, <2>3, <1>5 DEF Shown
    <3>2. Entry(m)' <=> m \in atTimeLinks
      BY <2>1, <2>3 DEF Shown, Whats
    <3> QED
      BY <2>3, <3>1, <3>2 DEF Shown, Whats
  <2> QED
    BY <2>2, <2>3
<1> QED
  BY <1>4, <1>7 DEF IInv

(* atomAdded or atomRemoved, called by the signal.                          *)
LEMMA SignalledIInv ==
  ASSUME IInv, NEW k \in Threads, Signalled(k)
  PROVE  IInv'
<1>1. /\ Defined /\ UNCHANGED <<atTimeLinks, usage, raced>>
      /\ call' \in [Threads -> Calls]
      /\ \A j \in Threads : /\ call'[j].links = call[j].links /\ call'[j].entries = call[j].entries
                            /\ call'[j].signal = IF j = k THEN {} ELSE call[j].signal
  BY SentStep DEF Signalled, IInv, ServerTypes
<1>2. PICK m \in Links : \/ Signals(k, "added", m) /\ atomAdded(m)
                         \/ Signals(k, "removed", m) /\ atomRemoved(m)
  BY DEF Signalled, Links, Signals
<1>3. CASE Signals(k, "added", m) /\ atomAdded(m)
  <2>1. TablesOK' /\ latestTimestamp' \in Nat /\ \A l \in Links : Entry(l)' <=> Entry(l) \/ l = m
    BY <1>1, <1>3, AtomAddedStep
  <2>2. "added" \in Whats
    BY DEF Whats
  <2> QED
    BY <1>1, <1>3, <2>1, <2>2, SignalIInv
<1>4. CASE Signals(k, "removed", m) /\ atomRemoved(m)
  <2>1. /\ TablesOK' /\ latestTimestamp' \in Nat
        /\ \A l \in Links : l[3] = DEFAULT_TIMEDOMAIN => (Entry(l)' <=> Entry(l) /\ l # m)
    BY <1>1, <1>4, AtomRemovedStep
  <2>2. "removed" \in Whats /\ "removed" # "added"
    BY DEF Whats
  <2> QED
    BY <1>1, <1>4, <2>1, <2>2, SignalIInv
<1> QED
  BY <1>2, <1>3, <1>4

(* The second step of addTimeInfo.                                          *)
LEMMA AddTimeInfoLinkIInv ==
  ASSUME IInv, NEW k \in Threads, AddTimeInfoLink(k)
  PROVE  IInv'
<1>1. PICK m \in call[k].links : AddLink(k, m)
  BY DEF AddTimeInfoLink
<1>2. UNCHANGED <<server, usage>>
  BY DEF AddTimeInfoLink
<1>3. call[k].signal = {} /\ call[k].links \subseteq {m}
  BY <1>1 DEF IInv, OneCall
<1>4. m \in Links
  BY <1>1 DEF IInv, ServerTypes, Calls
<1> QED
  BY <1>1, <1>2, <1>3, <1>4, AddLinkIInv

(* A step of thread k that only changes what it has got.                    *)
LEMMA GotIInv ==
  ASSUME IInv, NEW k \in Threads, NEW n \in Calls, call' = [call EXCEPT ![k] = n],
         n.links = call[k].links, n.signal = call[k].signal, call[k].links = {},
         UNCHANGED <<server, usage, raced, atTimeLinks>>
  PROVE  IInv'
<1>1. OneCall /\ LinksShown /\ call \in [Threads -> Calls] /\ atTimeLinks \subseteq Links
  BY DEF IInv, ServerTypes
<1>2. call' \in [Threads -> Calls] /\ call'[k] = n /\ \A j \in Threads \ {k} : call'[j] = call[j]
  BY <1>1, CallStep
<1>3. TablesOK' /\ latestTimestamp' \in Nat /\ \A l : Entry(l)' <=> Entry(l)
  BY ServerSame
<1>4. ServerTypes' /\ OneCall'
  BY <1>1, <1>2, <1>3 DEF ServerTypes, OneCall
<1>5. \A l : \A j \in Threads : /\ \A w \in Whats : Signals(j, w, l)' <=> Signals(j, w, l)
                                /\ l \in call[j].links => l \in call'[j].links
  BY <1>2 DEF Signals
<1>6. LinksShown'
  BY <1>1, <1>3, <1>5, OtherLink DEF LinksShown
<1> QED
  BY <1>3, <1>4, <1>6 DEF IInv

(* removeTimeInfo: first what matches is got ...                            *)
LEMMA RemoveTimeInfoIInv ==
  ASSUME IInv, NEW k \in Threads, NEW h \in Handles, NEW t \in Temporals \cup {UNDEFINED}, NEW c \in Criteria,
         NEW d \in Domains, removeTimeInfo(k, h, t, c, d)
  PROVE  IInv'
<1> DEFINE E == get(temporalTableMap[d], h, t, c)
           G == {<<e[1], e[2], d>> : e \in E}
           n == [NoCall EXCEPT !.entries = G]
<1>1. TablesOK /\ Defined /\ call[k] = NoCall /\ UNCHANGED <<server, usage, raced, atTimeLinks>>
  BY DEF IInv, removeTimeInfo, Called, Idle
<1>2. E \subseteq Handles \X Temporals
  <2>1. TableOK(temporalTableMap[d]) /\ ~temporalTableMap[d].undefined
    BY <1>1 DEF TablesOK, Defined
  <2>2. E = Matching(EntriesOf(temporalTableMap[d]), h, t, c)
    BY <2>1, GetFacts
  <2>3. EntriesOf(temporalTableMap[d]) \subseteq Handles \X Temporals
    BY DEF EntriesOf
  <2>4. \A X : Matching(X, h, t, c) \subseteq X
    BY DEF Matching
  <2> HIDE DEF E
  <2> QED
    BY <2>2, <2>3, <2>4
<1>3. call' = [call EXCEPT ![k] = n]
  BY <1>1 DEF removeTimeInfo
<1> HIDE DEF E
<1>4. G \subseteq Links
  BY <1>2 DEF Links
<1> HIDE DEF G
<1>5. n \in Calls /\ n.links = {} /\ n.signal = {} /\ NoCall.links = {} /\ NoCall.signal = {}
  BY <1>4 DEF NoCall, Calls
<1> HIDE DEF n
<1> QED
  BY <1>1, <1>3, <1>5, GotIInv

(* ... then the links are removed, one by one.                              *)
LEMMA RemoveTimeInfoLinkIInv ==
  ASSUME IInv, NEW k \in Threads, RemoveTimeInfoLink(k)
  PROVE  IInv'
<1>1. PICK e \in call[k].entries : \E t \in TimesRead(k, e) :
        \/ <<e[1], t, e[3]>> \in atTimeLinks /\ RemoveLink(k, <<e[1], t, e[3]>>, call[k].entries \ {e})
        \/ /\ call' = [call EXCEPT ![k] = [call[k] EXCEPT !.entries = call[k].entries \ {e},
                                                          !.freed = call[k].freed \cap (call[k].entries \ {e})]]
           /\ UNCHANGED <<atTimeLinks, raced>>
  BY DEF RemoveTimeInfoLink
<1>2. call[k].signal = {} /\ UNCHANGED <<server, usage>>
  BY DEF RemoveTimeInfoLink
<1>3. call[k] \in Calls /\ call[k].links = {}
  BY <1>1 DEF IInv, ServerTypes, OneCall
<1> DEFINE left == call[k].entries \ {e}
           F == call[k].freed \cap left
           n == [call[k] EXCEPT !.entries = left, !.freed = F]
<1>4. left \in SUBSET Links /\ F \in SUBSET Links
  BY <1>3 DEF Calls
<1>5. CASE \E t \in TimesRead(k, e) : <<e[1], t, e[3]>> \in atTimeLinks /\ RemoveLink(k, <<e[1], t, e[3]>>, left)
  <2>1. PICK m \in atTimeLinks : RemoveLink(k, m, left)
    BY <1>5
  <2> HIDE DEF left
  <2> QED
    BY <2>1, <1>2, <1>3, <1>4, RemoveLinkIInv
<1>6. CASE call' = [call EXCEPT ![k] = n] /\ UNCHANGED <<atTimeLinks, raced>>
  <2> HIDE DEF left, F
  <2>1. n \in Calls /\ n.links = call[k].links /\ n.signal = call[k].signal
    BY <1>3, <1>4 DEF Calls
  <2> HIDE DEF n
  <2> QED
    BY <2>1, <1>2, <1>3, <1>6, GotIInv
<1> QED
  BY <1>1, <1>5, <1>6

(* Another part of the system changes the AtomSpace.                        *)
LEMMA AtomSpaceIInv ==
  ASSUME IInv, NEW k \in Threads, NEW m \in Links, AtomSpaceAdds(k, m) \/ AtomSpaceRemoves(k, m)
  PROVE  IInv'
<1>1. call[k] = NoCall /\ UNCHANGED <<server, usage>>
  BY DEF AtomSpaceAdds, AtomSpaceRemoves, Idle, Called
<1>2. call[k].links = {} /\ call[k].signal = {}
  BY <1>1 DEF NoCall
<1>3. CASE AtomSpaceAdds(k, m)
  <2>1. AddLink(k, m) /\ call[k].links \subseteq {m}
    BY <1>2, <1>3 DEF AtomSpaceAdds
  <2> QED
    BY <1>1, <1>2, <2>1, AddLinkIInv
<1>4. CASE AtomSpaceRemoves(k, m)
  <2>1. m \in atTimeLinks /\ RemoveLink(k, m, {}) /\ {} \in SUBSET Links
    BY <1>4 DEF AtomSpaceRemoves
  <2> QED
    BY <1>1, <1>2, <2>1, RemoveLinkIInv
<1> QED
  BY <1>3, <1>4

(* Every step keeps the invariant.                                          *)
LEMMA NextIInv == IInv /\ [Next]_vars => IInv'
<1> SUFFICES ASSUME IInv, [Next]_vars PROVE IInv'
  OBVIOUS
<1> USE ServerAssumption
<1>1. CASE UNCHANGED vars
  <2>1. UNCHANGED server /\ UNCHANGED <<atTimeLinks, call, usage, raced>>
    BY <1>1 DEF vars, server
  <2>2. TablesOK' /\ latestTimestamp' \in Nat /\ \A m : Entry(m)' <=> Entry(m)
    BY <2>1, ServerSame
  <2>3. ServerTypes' /\ OneCall'
    BY <2>1, <2>2 DEF IInv, ServerTypes, OneCall
  <2>4. \A j, w, l : Signals(j, w, l)' <=> Signals(j, w, l)
    BY <2>1 DEF Signals
  <2>5. LinksShown'
    BY <2>1, <2>2, <2>4, OtherLink DEF IInv, LinksShown
  <2> QED
    BY <2>2, <2>3, <2>5 DEF IInv
<1>2. ASSUME NEW k \in Threads, ThreadStep(k) PROVE IInv'
  <2>1. ASSUME NEW p \in TimedPairs, NEW d \in Domains, addTimeInfo(k, p[1], p[2], d) PROVE IInv'
    BY <2>1, AddTimeInfoIInv
  <2>2. ASSUME NEW h \in Handles, NEW t \in Temporals \cup {UNDEFINED}, NEW c \in Criteria, NEW d \in Domains,
               removeTimeInfo(k, h, t, c, d)
        PROVE  IInv'
    BY <2>2, RemoveTimeInfoIInv
  <2>3. ASSUME NEW p \in TimedPairs, NEW d \in Domains,
               AtomSpaceAdds(k, <<p[1], p[2], d>>) \/ AtomSpaceRemoves(k, <<p[1], p[2], d>>)
        PROVE  IInv'
    <3>1. <<p[1], p[2], d>> \in Links
      BY DEF Links
    <3> QED
      BY <2>3, <3>1, AtomSpaceIInv
  <2> QED
    BY <1>2, <2>1, <2>2, <2>3, AddTimeInfoLinkIInv, RemoveTimeInfoLinkIInv, SignalledIInv DEF ThreadStep
<1>3. ASSUME NEW p \in TimedPairs, NEW d \in TableDomains, Add(p[1], p[2], d) PROVE IInv'
  BY <1>3, AddIInv
<1>4. ASSUME NEW h \in Handles \cup {UNDEFINED}, NEW t \in Temporals \cup {UNDEFINED}, NEW c \in Criteria,
             NEW d \in TableDomains, RemoveMatching(h, t, c, d)
      PROVE  IInv'
  BY <1>4, RemoveIInv
<1> QED
  BY <1>1, <1>2, <1>3, <1>4, ClearIInv DEF Next

(* The inductive invariant.                                                 *)
LEMMA SpecIInv == Spec => []IInv
BY InitIInv, NextIInv, PTL DEF Spec

----------------------------------------------------------------------------
(* The theorems.                                                            *)

(* The tables, the links and the timestamp keep the shapes TemporalTable.h  *)
(* and TimeServer.h declare, whatever is called in whatever order.          *)
THEOREM TypeCorrect == Spec => []TypeOK
<1>1. IInv => TypeOK
  <2> SUFFICES ASSUME IInv PROVE TypeOK
    OBVIOUS
  <2>1. \A d \in Domains : temporalTableMap[d] \in Tables
    BY DEF IInv, TablesOK, TableOK
  <2> QED
    BY <2>1, TableFields DEF IInv, ServerTypes, Links, TypeOK
<1> QED
  BY <1>1, SpecIInv, PTL

(* The index that lags behind the sorted list stays in order, has no        *)
(* pointer to a deleted entry, fits its array, and is empty only with the   *)
(* list: updateIndexTable rebuilds it in time.                              *)
THEOREM IndexSafety == Spec => []IndexUsable
<1>1. IInv => IndexUsable
  BY DEF IInv, TablesOK, TableOK, IndexOK, IndexInOrder, Nondecreasing, IndexUsable
<1> QED
  BY <1>1, SpecIInv, PTL

(* The sorted list, the map of times and the lists of the handles show the  *)
(* same pairs after every add, remove and clear.                            *)
THEOREM ViewsSafety == Spec => []ViewsAgree
<1>1. IInv => ViewsAgree
  <2> SUFFICES ASSUME IInv, NEW d \in Domains
               PROVE  LET T == temporalTableMap[d] IN
                      /\ Sorted(T.sortedTemporalList)
                      /\ Range(T.sortedTemporalList) = {t \in Temporals : T.temporalMap[t] # {}}
                      /\ ~T.undefined => \A h \in Handles :
                           /\ Sorted(T.handleMap[h])
                           /\ Range(T.handleMap[h]) = {t \in Temporals : h \in T.temporalMap[t]}
                           /\ T.tailHandleMap[h] \in Temporals => T.tailHandleMap[h] = Last(T.handleMap[h])
    BY DEF ViewsAgree
  <2>1. TableOK(temporalTableMap[d])
    BY DEF IInv, TablesOK
  <2> QED
    BY <2>1 DEF TableOK, ListOK, Timed, HandleOK
<1> QED
  BY <1>1, SpecIInv, PTL

(* get and remove give and take for each of the thirteen criteria exactly   *)
(* the pairs TemporalTable.h defines, whatever the index shows.             *)
THEOREM OperationsSafety == Spec => []OperationsMatch
<1>1. IInv => OperationsMatch
  <2> SUFFICES ASSUME IInv, NEW d \in TableDomains, ~temporalTableMap[d].undefined,
                      NEW h \in Handles \cup {UNDEFINED}, NEW t \in Temporals \cup {UNDEFINED}, NEW c \in Criteria
               PROVE  LET T == temporalTableMap[d]
                          wanted == Matching(EntriesOf(T), h, t, c)
                      IN /\ get(T, h, t, c) = wanted
                         /\ EntriesOf(remove(T, h, t, c)) = EntriesOf(T) \ wanted
    BY DEF OperationsMatch
  <2>1. TableOK(temporalTableMap[d])
    BY ServerAssumption DEF IInv, TablesOK
  <2> QED
    BY <2>1, GetFacts, RemoveMatchingFacts
<1> QED
  BY <1>1, SpecIInv, PTL

(* With AtTimeLinks, a pair has an entry in the default domain exactly when *)
(* it has its link, in whatever order the threads change the AtomSpace, its *)
(* signals come and the critical sections of ts_mutex are taken: unless an  *)
(* addTimeInfo or a signal for the link is still under way, or the link was *)
(* once changed again before the signal of its last change.                 *)
THEOREM DomainSafety == Spec => []DefaultDomainAgrees
<1>1. IInv => DefaultDomainAgrees
  <2> SUFFICES ASSUME IInv, usage = "links", NEW p \in Handles \X Temporals,
                      <<p[1], p[2], DEFAULT_TIMEDOMAIN>> \notin raced, ~UnderWay(<<p[1], p[2], DEFAULT_TIMEDOMAIN>>)
               PROVE  p \in Entries(DEFAULT_TIMEDOMAIN) <=> <<p[1], p[2], DEFAULT_TIMEDOMAIN>> \in atTimeLinks
    BY DEF DefaultDomainAgrees
  <2> DEFINE l == <<p[1], p[2], DEFAULT_TIMEDOMAIN>>
  <2>1. l \in Links /\ l[3] = DEFAULT_TIMEDOMAIN /\ p = <<l[1], l[2]>>
    BY ServerAssumption DEF Links
  <2> HIDE DEF l
  <2>2. Shown(l)
    BY <2>1 DEF IInv, LinksShown, l
  <2>3. \A k \in Threads : \A w \in Whats : ~Signals(k, w, l)
    BY DEF UnderWay, SignalDue, Signals, Whats, l
  <2>4. \A k \in Threads : l \notin call[k].links
    BY DEF UnderWay, l
  <2>5. Entry(l) <=> p \in Entries(DEFAULT_TIMEDOMAIN)
    BY <2>1 DEF Entry
  <2> QED
    BY <2>2, <2>3, <2>4, <2>5 DEF Shown, Whats, l
<1> QED
  BY <1>1, SpecIInv, PTL
=============================================================================
