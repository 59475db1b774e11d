-------------------------- MODULE AttentionProofs --------------------------
(***************************************************************************)
(* Proofs about Attention for every graph of atoms, every choice of the    *)
(* parameters and of the agents, in threads of their own or in the main    *)
(* loop: the types, that spreading neither makes nor destroys STI, and     *)
(* that a run of the AF spreader alone overdraws no atom.                  *)
(***************************************************************************)
EXTENDS Attention, FiniteSetTheorems, SequenceTheorems, TLAPS

-----------------------------------------------------------------------------
(* Induction over the natural numbers, for sets.                             *)

\* A set that has 0 and with n has n + 1 has all natural numbers.
LEMMA SetInduction ==
    ASSUME NEW S, 0 \in S, \A n \in Nat : n \in S => n + 1 \in S
    PROVE  \A n \in Nat : n \in S
<1> SUFFICES ASSUME NEW k \in Nat, k \notin S PROVE FALSE
  OBVIOUS
<1> DEFINE R == {ss \in Nat \X Nat : ss[1] < ss[2]}
           C == {n \in Nat : n \notin S}
<1>1. IsWellFoundedOn(R, Nat)
  BY NatLessThanWellFounded DEF OpToRel
<1>2. C \subseteq Nat /\ C # {}
  OBVIOUS
<1>3. PICK m \in C : \A n \in C : ~(<<n, m>> \in R)
  <2> HIDE DEF R, C
  <2> QED
    BY <1>1, <1>2, WFMin
<1>4. m \in Nat /\ m # 0 /\ m - 1 \in Nat /\ m - 1 < m
  BY <1>3
<1>5. m - 1 \notin C
  BY <1>3, <1>4
<1> QED
  BY <1>3, <1>4, <1>5

-----------------------------------------------------------------------------
(* Sums over finite sets, whatever the order.                                *)

\* The sum of f[x] over the x of S, and the recursive function whose value it is:
\* on each subset, some term and the sum of the others.
SumOn(f, S) == FoldFunctionOnSet(+, 0, f, S)
Some(s) == CHOOSE x \in s : TRUE
SumStep(f, it, s) == IF s = {} THEN 0 ELSE f[Some(s)] + it[s \ {Some(s)}]
Adds(f, S, it) == it = [s \in SUBSET S |-> SumStep(f, it, s)]

\* A subset without one of its elements.
LEMMA Smaller ==
    ASSUME NEW s, IsFiniteSet(s), NEW x \in s
    PROVE  /\ IsFiniteSet(s \ {x}) /\ Cardinality(s) \in Nat \ {0}
           /\ Cardinality(s \ {x}) = Cardinality(s) - 1
<1>1. IsFiniteSet(s \ {x}) /\ Cardinality(s \ {x}) = Cardinality(s) - 1
  BY FS_RemoveElement
<1>2. Cardinality(s) \in Nat /\ Cardinality(s) # 0
  BY FS_CardinalityType, FS_EmptySet
<1> QED
  BY <1>1, <1>2

\* The recursive function behind a sum exists.
LEMMA SumExists ==
    ASSUME NEW f, NEW S, IsFiniteSet(S)
    PROVE  \E it : Adds(f, S, it)
<1> DEFINE Level(n) == {s \in SUBSET S : Cardinality(s) <= n}
           P == {n \in Nat : \E it : it = [s \in Level(n) |-> SumStep(f, it, s)]}
<1>0. \A s \in SUBSET S : IsFiniteSet(s) /\ Cardinality(s) \in Nat /\ (Cardinality(s) = 0 => s = {})
  BY FS_Subset, FS_CardinalityType, FS_EmptySet
<1>1. 0 \in P
  <2> DEFINE it == [s \in Level(0) |-> 0]
  <2>1. \A s \in Level(0) : s = {}
    BY <1>0
  <2>2. \A s \in Level(0) : SumStep(f, it, s) = 0
    BY <2>1 DEF SumStep
  <2>3. it = [s \in Level(0) |-> SumStep(f, it, s)]
    BY <2>2
  <2> QED
    BY <2>3
<1>2. ASSUME NEW n \in Nat, n \in P PROVE n + 1 \in P
  <2>1. PICK it : it = [s \in Level(n) |-> SumStep(f, it, s)]
    BY <1>2
  <2> DEFINE it2 == [s \in Level(n + 1) |-> SumStep(f, it, s)]
  <2>2. \A s \in Level(n) : s \in Level(n + 1) /\ it[s] = SumStep(f, it, s)
    BY <1>0, <2>1
  <2>3. \A s \in Level(n) : it2[s] = it[s]
    BY <2>2
  <2>4. ASSUME NEW s \in Level(n + 1), s # {} PROVE s \ {Some(s)} \in Level(n)
    <3>1. Some(s) \in s
      BY <2>4 DEF Some
    <3>2. IsFiniteSet(s) /\ Cardinality(s) \in Nat /\ Cardinality(s) <= n + 1
      BY <1>0
    <3>3. Cardinality(s \ {Some(s)}) = Cardinality(s) - 1
      BY <3>1, <3>2, Smaller
    <3> QED
      BY <3>2, <3>3
  <2>5. \A s \in Level(n + 1) : SumStep(f, it, s) = SumStep(f, it2, s)
    <3> HIDE DEF it2, Level
    <3> QED
      BY <2>3, <2>4 DEF SumStep
  <2>6. it2 = [s \in Level(n + 1) |-> SumStep(f, it2, s)]
    BY <2>5
  <2> HIDE DEF it2, Level
  <2>7. n + 1 \in Nat /\ \E jt : jt = [s \in Level(n + 1) |-> SumStep(f, jt, s)]
    BY <2>6
  <2> QED
    BY <2>7
<1>3. \A n \in Nat : n \in P
  <2> HIDE DEF P
  <2> QED
    BY <1>1, <1>2, SetInduction
<1>4. Cardinality(S) \in Nat /\ Level(Cardinality(S)) = SUBSET S
  <2>1. \A s \in SUBSET S : Cardinality(s) <= Cardinality(S)
    BY FS_Subset
  <2> QED
    BY <2>1, <1>0
<1>5. Cardinality(S) \in P
  BY <1>3, <1>4
<1> QED
  BY <1>4, <1>5 DEF Adds

\* Two such functions agree where the terms do.
LEMMA SumsAgree ==
    ASSUME NEW f, NEW g, NEW S, NEW T, NEW it, NEW jt, Adds(f, S, it), Adds(g, T, jt),
           NEW r, r \subseteq S, r \subseteq T, IsFiniteSet(r), \A x \in r : f[x] = g[x]
    PROVE  it[r] = jt[r]
<1> DEFINE P == {n \in Nat : \A s \in SUBSET r : Cardinality(s) = n => it[s] = jt[s]}
<1>0. \A s \in SUBSET r : /\ IsFiniteSet(s) /\ Cardinality(s) \in Nat /\ (Cardinality(s) = 0 => s = {})
                          /\ it[s] = SumStep(f, it, s) /\ jt[s] = SumStep(g, jt, s)
  <2>1. \A s \in SUBSET r : IsFiniteSet(s) /\ Cardinality(s) \in Nat /\ (Cardinality(s) = 0 => s = {})
    BY FS_Subset, FS_CardinalityType, FS_EmptySet
  <2>2. \A s \in SUBSET S : it[s] = SumStep(f, it, s)
    BY DEF Adds
  <2>3. \A s \in SUBSET T : jt[s] = SumStep(g, jt, s)
    BY DEF Adds
  <2> QED
    BY <2>1, <2>2, <2>3
<1>1. 0 \in P
  BY <1>0 DEF SumStep
<1>2. ASSUME NEW n \in Nat, n \in P PROVE n + 1 \in P
  <2> SUFFICES ASSUME NEW s \in SUBSET r, Cardinality(s) = n + 1 PROVE it[s] = jt[s]
    OBVIOUS
  <2>1. s # {}
    BY FS_EmptySet
  <2>2. Some(s) \in s
    BY <2>1 DEF Some
  <2>3. Cardinality(s \ {Some(s)}) = n
    BY <1>0, <2>2, Smaller
  <2>4. it[s \ {Some(s)}] = jt[s \ {Some(s)}]
    BY <1>2, <2>3
  <2> QED
    BY <1>0, <2>1, <2>2, <2>4 DEF SumStep
<1>3. \A n \in Nat : n \in P
  <2> HIDE DEF P
  <2> QED
    BY <1>1, <1>2, SetInduction
<1> QED
  BY <1>0, <1>3

\* A sum, one term at a time.
LEMMA SumRecursion ==
    ASSUME NEW f, NEW S, IsFiniteSet(S)
    PROVE  SumOn(f, S) = IF S = {} THEN 0 ELSE f[Some(S)] + SumOn(f, S \ {Some(S)})
<1> DEFINE Its(T) == CHOOSE it : Adds(f, T, it)
           T == S \ {Some(S)}
<1>1. IsFiniteSet(T)
  BY FS_Subset
<1>2. Adds(f, S, Its(S)) /\ Adds(f, T, Its(T))
  BY <1>1, SumExists
<1>3. SumOn(f, S) = Its(S)[S] /\ SumOn(f, T) = Its(T)[T]
  BY DEF SumOn, FoldFunctionOnSet, MapThenFoldSet, Adds, SumStep, Some
<1>4. Its(S)[S] = SumStep(f, Its(S), S)
  BY <1>2 DEF Adds
<1> HIDE DEF Its
<1>5. Its(S)[T] = Its(T)[T]
  BY <1>1, <1>2, SumsAgree
<1> QED
  BY <1>3, <1>4, <1>5 DEF SumStep

\* It depends on the terms in it only.
LEMMA SumSame ==
    ASSUME NEW f, NEW g, NEW S, IsFiniteSet(S), \A x \in S : f[x] = g[x]
    PROVE  SumOn(f, S) = SumOn(g, S)
<1> DEFINE F == CHOOSE it : Adds(f, S, it)
           G == CHOOSE it : Adds(g, S, it)
<1>1. Adds(f, S, F) /\ Adds(g, S, G)
  BY SumExists
<1>2. SumOn(f, S) = F[S] /\ SumOn(g, S) = G[S]
  BY DEF SumOn, FoldFunctionOnSet, MapThenFoldSet, Adds, SumStep, Some
<1> HIDE DEF F, G
<1> QED
  BY <1>1, <1>2, SumsAgree

\* A sum of whole numbers is a whole number.
LEMMA SumType ==
    ASSUME NEW f, NEW S, IsFiniteSet(S), \A x \in S : f[x] \in Int
    PROVE  SumOn(f, S) \in Int
<1> DEFINE P == {n \in Nat : \A s \in SUBSET S : Cardinality(s) = n => SumOn(f, s) \in Int}
<1>0. \A s \in SUBSET S : IsFiniteSet(s) /\ Cardinality(s) \in Nat /\ (Cardinality(s) = 0 => s = {})
  BY FS_Subset, FS_CardinalityType, FS_EmptySet
<1>1. 0 \in P
  <2> SUFFICES ASSUME NEW s \in SUBSET S, Cardinality(s) = 0 PROVE SumOn(f, s) \in Int
    OBVIOUS
  <2>1. SumOn(f, s) = 0
    BY <1>0, SumRecursion
  <2> QED
    BY <2>1
<1>2. ASSUME NEW n \in Nat, n \in P PROVE n + 1 \in P
  <2> SUFFICES ASSUME NEW s \in SUBSET S, Cardinality(s) = n + 1 PROVE SumOn(f, s) \in Int
    OBVIOUS
  <2>1. IsFiniteSet(s) /\ s # {}
    BY <1>0, FS_EmptySet
  <2>2. Some(s) \in s
    BY <2>1 DEF Some
  <2>3. SumOn(f, s) = f[Some(s)] + SumOn(f, s \ {Some(s)})
    BY <2>1, SumRecursion
  <2>4. SumOn(f, s \ {Some(s)}) \in Int
    BY <1>2, <2>1, <2>2, Smaller
  <2> QED
    BY <2>2, <2>3, <2>4
<1>3. \A n \in Nat : n \in P
  <2> HIDE DEF P
  <2> QED
    BY <1>1, <1>2, SetInduction
<1> QED
  BY <1>0, <1>3

\* A sum of whole numbers may be begun with any term.
LEMMA SumAnyOrder ==
    ASSUME NEW f, NEW S, IsFiniteSet(S), \A x \in S : f[x] \in Int
    PROVE  \A x \in S : SumOn(f, S) = f[x] + SumOn(f, S \ {x})
<1> DEFINE Good(s) == \A x \in s : SumOn(f, s) = f[x] + SumOn(f, s \ {x})
           P == {n \in Nat : \A s \in SUBSET S : Cardinality(s) = n => Good(s)}
<1>0. \A s \in SUBSET S : IsFiniteSet(s) /\ Cardinality(s) \in Nat /\ (Cardinality(s) = 0 => s = {})
  BY FS_Subset, FS_CardinalityType, FS_EmptySet
<1>1. 0 \in P
  BY <1>0
<1>2. ASSUME NEW n \in Nat, n \in P PROVE n + 1 \in P
  <2> SUFFICES ASSUME NEW s \in SUBSET S, Cardinality(s) = n + 1, NEW x \in s
               PROVE  SumOn(f, s) = f[x] + SumOn(f, s \ {x})
    OBVIOUS
  <2>1. IsFiniteSet(s) /\ s # {}
    BY <1>0
  <2> DEFINE c == Some(s)
  <2>2. c \in s
    BY <2>1 DEF Some
  <2>3. SumOn(f, s) = f[c] + SumOn(f, s \ {c})
    BY <2>1, SumRecursion
  <2> HIDE DEF c, Good
  <2>4. ASSUME NEW y \in s PROVE Good(s \ {y})
    <3>1. Cardinality(s \ {y}) = n
      BY <2>1, Smaller
    <3> QED
      BY <3>1, <1>2
  <2>5. CASE x = c
    BY <2>3, <2>5
  <2>6. CASE x # c
    <3> DEFINE r == (s \ {c}) \ {x}
    <3>1. SumOn(f, s \ {c}) = f[x] + SumOn(f, r)
      BY <2>2, <2>4, <2>6 DEF Good
    <3>2. (s \ {x}) \ {c} = r
      OBVIOUS
    <3>3. SumOn(f, s \ {x}) = f[c] + SumOn(f, r)
      <4>1. SumOn(f, s \ {x}) = f[c] + SumOn(f, (s \ {x}) \ {c})
        BY <2>2, <2>4, <2>6 DEF Good
      <4> QED
        BY <4>1, <3>2
    <3>4. r \in SUBSET S
      OBVIOUS
    <3> HIDE DEF r
    <3>5. SumOn(f, r) \in Int /\ f[x] \in Int /\ f[c] \in Int
      BY <1>0, <3>4, <2>2, SumType
    <3> QED
      BY <3>1, <3>3, <3>5, <2>3
  <2> QED
    BY <2>5, <2>6
<1>3. \A n \in Nat : n \in P
  <2> HIDE DEF P
  <2> QED
    BY <1>1, <1>2, SetInduction
<1>4. Good(S)
  BY <1>0, <1>3
<1> QED
  BY <1>4

\* A sum of natural numbers up to k is at most k times their number.
LEMMA SumBound ==
    ASSUME NEW f, NEW S, IsFiniteSet(S), NEW k \in Nat, \A x \in S : f[x] \in 0 .. k
    PROVE  SumOn(f, S) \in Nat /\ SumOn(f, S) <= k * Cardinality(S)
<1> DEFINE Good(s) == SumOn(f, s) \in Nat /\ SumOn(f, s) <= k * Cardinality(s)
           P == {n \in Nat : \A s \in SUBSET S : Cardinality(s) = n => Good(s)}
<1>0. \A s \in SUBSET S : IsFiniteSet(s) /\ Cardinality(s) \in Nat /\ (Cardinality(s) = 0 => s = {})
  BY FS_Subset, FS_CardinalityType, FS_EmptySet
<1>1. 0 \in P
  <2> SUFFICES ASSUME NEW s \in SUBSET S, Cardinality(s) = 0 PROVE Good(s)
    OBVIOUS
  <2>1. SumOn(f, s) = 0
    BY <1>0, SumRecursion
  <2> QED
    BY <2>1
<1>2. ASSUME NEW n \in Nat, n \in P PROVE n + 1 \in P
  <2> SUFFICES ASSUME NEW s \in SUBSET S, Cardinality(s) = n + 1 PROVE Good(s)
    OBVIOUS
  <2>1. IsFiniteSet(s) /\ s # {}
    BY <1>0, FS_EmptySet
  <2>2. Some(s) \in s
    BY <2>1 DEF Some
  <2>3. SumOn(f, s) = f[Some(s)] + SumOn(f, s \ {Some(s)})
    BY <2>1, SumRecursion
  <2>4. Cardinality(s \ {Some(s)}) = n
    BY <2>1, <2>2, Smaller
  <2>5. SumOn(f, s \ {Some(s)}) \in Nat /\ SumOn(f, s \ {Some(s)}) <= k * n
    BY <1>2, <2>4
  <2>6. f[Some(s)] \in Nat /\ f[Some(s)] <= k
    BY <2>2
  <2>7. k * (n + 1) = k * n + k /\ k * n \in Nat
    OBVIOUS
  <2> HIDE DEF P
  <2> QED
    BY <2>3, <2>5, <2>6, <2>7
<1>3. \A n \in Nat : n \in P
  <2> HIDE DEF P
  <2> QED
    BY <1>1, <1>2, SetInduction
<1> QED
  BY <1>0, <1>3

\* A sum of natural numbers grows with its set.
LEMMA SumGrows ==
    ASSUME NEW f, NEW S, IsFiniteSet(S), \A x \in S : f[x] \in Nat, NEW T \in SUBSET S
    PROVE  SumOn(f, T) <= SumOn(f, S)
<1> DEFINE P == {n \in Nat : \A s \in SUBSET S : T \subseteq s /\ Cardinality(s) = n => SumOn(f, T) <= SumOn(f, s)}
<1>0. \A s \in SUBSET S : /\ IsFiniteSet(s) /\ Cardinality(s) \in Nat /\ (Cardinality(s) = 0 => s = {})
                          /\ SumOn(f, s) \in Int
  <2>1. \A s \in SUBSET S : IsFiniteSet(s) /\ Cardinality(s) \in Nat /\ (Cardinality(s) = 0 => s = {})
    BY FS_Subset, FS_CardinalityType, FS_EmptySet
  <2>2. ASSUME NEW s \in SUBSET S PROVE SumOn(f, s) \in Int
    BY <2>1, SumType
  <2> QED
    BY <2>1, <2>2
<1>1. 0 \in P
  <2> SUFFICES ASSUME NEW s \in SUBSET S, T \subseteq s, Cardinality(s) = 0 PROVE SumOn(f, T) <= SumOn(f, s)
    OBVIOUS
  <2>1. s = T
    BY <1>0
  <2> QED
    BY <1>0, <2>1
<1>2. ASSUME NEW n \in Nat, n \in P PROVE n + 1 \in P
  <2> SUFFICES ASSUME NEW s \in SUBSET S, T \subseteq s, Cardinality(s) = n + 1 PROVE SumOn(f, T) <= SumOn(f, s)
    OBVIOUS
  <2>1. CASE s = T
    BY <1>0, <2>1
  <2>2. CASE s # T
    <3>1. PICK x \in s : x \notin T
      BY <2>2
    <3>2. SumOn(f, s) = f[x] + SumOn(f, s \ {x})
      BY <1>0, SumAnyOrder
    <3>3. Cardinality(s \ {x}) = n
      BY <1>0, Smaller
    <3>4. SumOn(f, T) <= SumOn(f, s \ {x})
      BY <1>2, <3>1, <3>3
    <3>5. f[x] \in Nat /\ SumOn(f, s \ {x}) \in Int /\ SumOn(f, T) \in Int
      BY <1>0
    <3> QED
      BY <3>2, <3>4, <3>5
  <2> QED
    BY <2>1, <2>2
<1>3. \A n \in Nat : n \in P
  <2> HIDE DEF P
  <2> QED
    BY <1>1, <1>2, SetInduction
<1> QED
  BY <1>0, <1>3

\* What conducts from an atom, in all: a natural number.
LEMMA TotalType ==
    ASSUME NEW a \in Atoms
    PROVE  Total(Conductance[a]) \in Nat
<1> DEFINE D == DOMAIN Conductance[a]
<1>1. D \subseteq Atoms /\ \A t \in D : Conductance[a][t] \in 0 .. 100
  BY GraphAssumption, Zenon
<1>2. IsFiniteSet(D)
  BY <1>1, GraphAssumption, FS_Subset
<1>3. Total(Conductance[a]) = SumOn(Conductance[a], D)
  BY DEF Total, SumOn, FoldFunction
<1>4. 100 \in Nat
  OBVIOUS
<1> HIDE DEF D
<1>5. SumOn(Conductance[a], D) \in Nat
  BY <1>1, <1>2, <1>4, SumBound
<1> QED
  BY <1>3, <1>5

-----------------------------------------------------------------------------
(* The invariant.                                                            *)

Event == [source : Atoms, target : Atoms, amount : Int]
SpreadPlaces == {"diffuse", "readSource", "writeSource", "readTarget", "writeTarget"}
RentPlaces == {"readRent", "writeRent"}
Thread == [pc : {"idle"} \cup SpreadPlaces \cup RentPlaces, todo : Seq(Atoms), stack : Seq(Event),
           reg : Int, cycles : Nat, charge : Int]

BankOK ==
    /\ sti \in [Atoms -> Int]
    /\ {funds, taken} \subseteq Int
    /\ {serial, lost} \subseteq BOOLEAN

\* An agent is in its own run(), and has what it is at.
ThreadOK(g, t) ==
    /\ g \in Spreaders => t.pc \in {"idle"} \cup SpreadPlaces
    /\ g \in Collectors => t.pc \in {"idle"} \cup RentPlaces
    /\ t.pc \in {"diffuse", "readRent", "writeRent"} => t.todo # <<>>
    /\ t.pc \in {"readSource", "writeSource", "readTarget", "writeTarget"} => t.stack # <<>>

ThreadsOK == thread \in [Agents -> Thread] /\ \A g \in Agents : ThreadOK(g, thread[g])

\* The main loop runs one agent after the other.
Alone == serial => \A g, k \in Agents : thread[g].pc # "idle" /\ thread[k].pc # "idle" => g = k

\* What an agent has read and is about to change is still so.
FreshOK(value, t) ==
    /\ t.pc = "writeSource" => t.reg = value[Last(t.stack).source]
    /\ t.pc = "writeTarget" => t.reg = value[Last(t.stack).target]
    /\ t.pc = "writeRent" => t.reg = value[Head(t.todo)]

Fresh == serial => ~lost /\ \A g \in Agents : FreshOK(sti, thread[g])

\* The sum of the funds, what was charged and what is under way.
Conserved == ~lost => funds = StartFunds + taken + InFlight

\* The inductive invariant.
AttentionInv == BankOK /\ ThreadsOK /\ Alone /\ Fresh /\ Conserved

-----------------------------------------------------------------------------
(* Sequences of atoms and of events.                                         *)

\* The atoms of a set in the order of their handles are a sequence of atoms.
LEMMA InOrderType ==
    ASSUME NEW S \in SUBSET Atoms, NEW s \in InOrder(S)
    PROVE  s \in Seq(Atoms) /\ \A i \in DOMAIN s : s[i] \in S
<1>1. IsFiniteSet(S)
  BY GraphAssumption, FS_Subset
<1>2. Cardinality(S) \in Nat
  BY <1>1, FS_CardinalityType
<1>3. s \in [1 .. Cardinality(S) -> S]
  BY DEF InOrder
<1>4. s \in Seq(S)
  BY <1>2, <1>3
<1> QED
  BY <1>3, <1>4

\* The last element of a sequence, and the sequence without it.
LEMMA LastAndFront ==
    ASSUME NEW S, NEW s \in Seq(S), s # <<>>
    PROVE  Last(s) \in S /\ Front(s) \in Seq(S)
<1>1. Len(s) \in Nat \ {0} /\ s[Len(s)] \in S
  OBVIOUS
<1>2. \A i \in 1 .. Len(s) - 1 : s[i] \in S
  BY <1>1
<1> DEFINE n == Len(s) - 1
<1>3. n \in Nat
  BY <1>1
<1> HIDE DEF n
<1>4. SubSeq(s, 1, n) \in Seq(S)
  BY <1>2, <1>3, SubSeqProperties DEF n
<1> QED
  BY <1>1, <1>4 DEF Last, Front, n

\* The first element of a sequence, and the rest.
LEMMA HeadAndTail ==
    ASSUME NEW S, NEW s \in Seq(S), s # <<>>
    PROVE  Head(s) \in S /\ Tail(s) \in Seq(S)
OBVIOUS

-----------------------------------------------------------------------------
(* Amounts.                                                                  *)

\* A share cut to a whole number is a whole number.
LEMMA CutType ==
    ASSUME NEW x \in Int, NEW y \in Nat \ {0}
    PROVE  Cut(x, y) \in Int
BY DEF Cut

\* The parameters.
LEMMA Parameters ==
    /\ maxSpreadPercentage \in Nat /\ hebbianMaxAllocationPercentage \in Nat /\ tournamentSize \in Nat
    /\ STIAtomRent \in Nat /\ stiFundsBuffer \in Nat \ {0} /\ Unit \in Nat \ {0}
    /\ UpdateCycles \subseteq Nat /\ ElapsedTimes \subseteq Nat
    /\ targetSTI \in Int /\ StartFunds \in Int /\ Estimates \subseteq Int
    /\ \A g \in Spreaders : HebbianAllocation(g) \in Nat
BY ParameterAssumption DEF HebbianAllocation

\* What an atom spreads is a whole number.
LEMMA AmountType ==
    ASSUME BankOK, NEW g, NEW a \in Atoms, NEW total \in calculateDiffusionAmount(g, a)
    PROVE  total \in Int
<1>1. sti[a] \in Int
  BY DEF BankOK
<1>2. \A e \in Estimates : sti[a] - e \in Int
  BY <1>1, Parameters
<1> DEFINE half == (IF sti[a] < 0 THEN -100 ELSE 100) * Unit
           x == 2 * sti[a] * maxSpreadPercentage + half
           y == 200 * Unit
<1>3. x \in Int /\ y \in Nat \ {0} /\ Unit \in Nat
  <2>1. half \in Int
    BY Parameters
  <2> HIDE DEF half
  <2> QED
    BY <1>1, <2>1, Parameters
<1> HIDE DEF x, y
<1>4. Cut(x, y) \in Int
  BY <1>3, CutType
<1>5. Unit * Cut(x, y) \in Int
  BY <1>3, <1>4
<1> QED
  BY <1>2, <1>5 DEF calculateDiffusionAmount, x, y

\* The entries of the probability vector are fractions, of atoms.
LEMMA VectorType ==
    ASSUME NEW a \in Atoms, NEW alloc \in Nat
    PROVE  LET p == ProbabilityVector(a, alloc)
           IN  /\ DOMAIN p \subseteq Atoms
               /\ \A t \in DOMAIN p : p[t].num \in Int /\ p[t].den \in Nat \ {0}
<1> DEFINE p == ProbabilityVector(a, alloc)
           D == DOMAIN Conductance[a]
           I == Range(Incident[a])
           n == Cardinality(D)
<1>1. /\ D \subseteq Atoms /\ \A t \in D : Conductance[a][t] \in Nat
      /\ Total(Conductance[a]) \in Nat /\ Incident[a] \in Seq(Atoms)
  <2>1. D \subseteq Atoms /\ \A t \in D : Conductance[a][t] \in 0 .. 100
    BY GraphAssumption, Zenon
  <2>4. Total(Conductance[a]) \in Nat
    BY TotalType
  <2>2. Incident[a] \in Seq(Atoms)
    BY GraphAssumption
  <2>3. 0 .. 100 \subseteq Nat
    OBVIOUS
  <2> QED
    BY <2>1, <2>2, <2>3, <2>4, Zenon
<1>2. IsFiniteSet(D) /\ n \in Nat
  BY <1>1, GraphAssumption, FS_Subset, FS_CardinalityType
<1>3. Whole(a) \in Nat \ {0}
  <2> HIDE DEF n
  <2>1. n # 0 => n * n \in Nat \ {0}
    BY <1>2
  <2>2. n # 0 => 10000 * n * n = 10000 * (n * n)
    BY <1>2
  <2>3. n # 0 => 10000 * n * n \in Nat \ {0}
    BY <2>1, <2>2
  <2> QED
    BY <2>3 DEF Whole, n
<1>4. I \subseteq Atoms /\ (I # {} => Len(Incident[a]) \in Nat \ {0})
  <2>1. \A i \in DOMAIN Incident[a] : Incident[a][i] \in Atoms
    BY <1>1
  <2>2. Len(Incident[a]) \in Nat /\ DOMAIN Incident[a] = 1 .. Len(Incident[a])
    BY <1>1
  <2> QED
    BY <2>1, <2>2 DEF Range
<1>5. I # {} => Whole(a) * Len(Incident[a]) \in Nat \ {0}
  BY <1>3, <1>4
<1>6. alloc * Total(Conductance[a]) \in Nat /\ \A t \in D : alloc * Conductance[a][t] \in Nat
  BY <1>1
<1>7. Whole(a) - alloc * Total(Conductance[a]) \in Int
  BY <1>3, <1>6
<1> DEFINE h == HebbianShare(a, alloc)
           l == Whole(a) - alloc * Total(Conductance[a])
<1>8. DOMAIN h = D /\ \A t \in D : h[t] = alloc * Conductance[a][t]
  BY DEF HebbianShare
<1>9. p = [t \in D \cup I |-> IF t \in D THEN [num |-> h[t], den |-> Whole(a)]
                              ELSE [num |-> l, den |-> Whole(a) * Len(Incident[a])]]
  BY <1>8 DEF ProbabilityVector
<1> HIDE DEF p, D, I, h, l
<1>10. DOMAIN p \subseteq Atoms
  BY <1>1, <1>4, <1>9 DEF D
<1>11. ASSUME NEW t \in DOMAIN p PROVE p[t].num \in Int /\ p[t].den \in Nat \ {0}
  <2>1. CASE t \in D
    <3>1. p[t] = [num |-> h[t], den |-> Whole(a)]
      BY <2>1, <1>9
    <3> QED
      BY <3>1, <2>1, <1>3, <1>6, <1>8
  <2>2. CASE t \notin D
    <3>1. t \in I /\ p[t] = [num |-> l, den |-> Whole(a) * Len(Incident[a])]
      BY <2>2, <1>9
    <3> QED
      BY <3>1, <1>5, <1>7 DEF l
  <2> QED
    BY <2>1, <2>2
<1> QED
  BY <1>10, <1>11 DEF p

\* What diffuseAtom pushes are events.
LEMMA EventsType ==
    ASSUME NEW a \in Atoms, NEW total \in Int, NEW alloc \in Nat,
           NEW events \in DiffusionEvents(a, total, alloc)
    PROVE  events \in Seq(Event)
<1> DEFINE p == ProbabilityVector(a, alloc)
           E(t) == [source |-> a, target |-> t, amount |-> Cut(total * p[t].num, p[t].den)]
<1>1. /\ DOMAIN p \subseteq Atoms
      /\ \A t \in DOMAIN p : p[t].num \in Int /\ p[t].den \in Nat \ {0}
  BY VectorType
<1>2. PICK order \in InOrder(DOMAIN p) : events = [i \in DOMAIN order |-> E(order[i])]
  BY DEF DiffusionEvents
<1> HIDE DEF p
<1>3. order \in Seq(Atoms) /\ \A i \in DOMAIN order : order[i] \in DOMAIN p
  BY <1>1, InOrderType
<1>4. ASSUME NEW t \in DOMAIN p PROVE E(t) \in Event
  <2>1. total * p[t].num \in Int /\ p[t].den \in Nat \ {0}
    BY <1>1
  <2>2. Cut(total * p[t].num, p[t].den) \in Int
    BY <2>1, CutType
  <2> QED
    BY <2>2, <1>1 DEF Event
<1> HIDE DEF E
<1>5. \A i \in DOMAIN order : E(order[i]) \in Event
  BY <1>3, <1>4
<1>6. DOMAIN order = 1 .. Len(order) /\ Len(order) \in Nat
  BY <1>3
<1>7. events \in [1 .. Len(order) -> Event]
  BY <1>2, <1>5, <1>6
<1> QED
  BY <1>6, <1>7

\* The rent of a cycle is a whole number.
LEMMA RentType ==
    ASSUME BankOK, NEW base \in Int, NEW rent \in calculate_STI_Rent(base)
    PROVE  rent \in Int
<1> DEFINE unit == 100 * stiFundsBuffer
           have == Cut(funds, Unit)
           x == 100 * (targetSTI - have)
           low == -99 * stiFundsBuffer
           ndiff == Clamp(x, low, unit)
           res == (base * (unit + ndiff)) \div unit
<1>0. have \in Int
  BY CutType, Parameters DEF BankOK
<1> HIDE DEF have
<1>1. unit \in Nat \ {0} /\ x \in Int /\ low \in Int
  BY <1>0, Parameters
<1>2. ndiff \in Int
  <2> HIDE DEF unit, x, low
  <2> QED
    BY <1>1 DEF Clamp
<1> HIDE DEF ndiff, unit
<1>3. base * (unit + ndiff) \in Int
  BY <1>1, <1>2
<1>4. res \in Int
  BY <1>1, <1>3
<1> QED
  BY <1>4 DEF calculate_STI_Rent, ndiff, unit, have

-----------------------------------------------------------------------------
(* Steps.                                                                    *)

\* A step that leaves agent g at t.
LEMMA ThreadStep ==
    ASSUME AttentionInv, NEW g \in Agents, NEW t \in Thread, ThreadOK(g, t),
           thread' = [thread EXCEPT ![g] = t], UNCHANGED serial, FreshOK(sti', t),
           thread[g].pc # "idle" \/ (serial => \A k \in Agents : thread[k].pc = "idle"),
           UNCHANGED <<sti, lost>> \/ (thread[g].pc # "idle" /\ (serial => ~lost'))
    PROVE  ThreadsOK' /\ Alone' /\ Fresh'
<1>0. ThreadsOK /\ Alone /\ Fresh
  BY DEF AttentionInv
<1>1. /\ thread' \in [Agents -> Thread] /\ thread'[g] = t
      /\ \A k \in Agents : k # g => thread'[k] = thread[k]
  BY <1>0 DEF ThreadsOK
<1>2. ThreadsOK'
  BY <1>0, <1>1 DEF ThreadsOK
<1>3. serial => \A k \in Agents : k # g => thread[k].pc = "idle"
  BY <1>0 DEF Alone
<1>4. Alone'
  BY <1>1, <1>3 DEF Alone
<1>5. Fresh'
  <2> SUFFICES ASSUME serial PROVE ~lost' /\ \A k \in Agents : FreshOK(sti', thread'[k])
    BY DEF Fresh
  <2>1. ~lost'
    BY <1>0 DEF Fresh
  <2>2. ASSUME NEW k \in Agents PROVE FreshOK(sti', thread'[k])
    <3>1. CASE k = g
      BY <3>1, <1>1
    <3>2. CASE k # g
      BY <3>2, <1>1, <1>3 DEF FreshOK
    <3> QED
      BY <3>1, <3>2
  <2> QED
    BY <2>1, <2>2
<1> QED
  BY <1>2, <1>4, <1>5

\* What the thread t of a spreader has under way.
Carry(t) == IF t.pc \in {"readTarget", "writeTarget"} THEN Last(t.stack).amount ELSE 0

\* What is under way is a whole number.
LEMMA CarryType ==
    ASSUME NEW g, NEW t \in Thread, ThreadOK(g, t)
    PROVE  Carry(t) \in Int
<1>1. t.stack \in Seq(Event)
  BY DEF Thread
<1>2. t.stack # <<>> => Last(t.stack) \in Event
  BY <1>1, LastAndFront
<1> QED
  BY <1>2 DEF Carry, ThreadOK, Event

\* It changes by what the agent that moves takes up or puts down.
LEMMA FlightStep ==
    ASSUME ThreadsOK, NEW g \in Agents, NEW t \in Thread, ThreadOK(g, t),
           thread' = [thread EXCEPT ![g] = t]
    PROVE  /\ InFlight \in Int
           /\ g \in Spreaders => InFlight' = InFlight + Carry(t) - Carry(thread[g])
           /\ g \in Collectors => InFlight' = InFlight
<1> DEFINE A == "AFImportanceDiffusion"
           W == "WAImportanceDiffusion"
<1>1. A \in Agents /\ W \in Agents /\ Spreaders = {A, W} /\ A # W /\ A \notin Collectors /\ W \notin Collectors
  BY DEF Agents, Spreaders, Collectors
<1>2. thread'[g] = t /\ \A k \in Agents : k # g => thread'[k] = thread[k]
  BY DEF ThreadsOK
<1>3. \A k \in Agents : Carried(k) = Carry(thread[k]) /\ Carried(k)' = Carry(thread'[k])
  BY DEF Carried, Carry, Top
<1>4. \A k \in Agents : Carry(thread[k]) \in Int
  BY CarryType DEF ThreadsOK
<1>5. Carry(t) \in Int
  BY CarryType
<1>6. InFlight = Carry(thread[A]) + Carry(thread[W]) /\ InFlight' = Carry(thread'[A]) + Carry(thread'[W])
  BY <1>1, <1>3 DEF InFlight
<1> HIDE DEF A, W
<1>7. CASE g = A
  BY <1>1, <1>2, <1>4, <1>5, <1>6, <1>7
<1>8. CASE g = W
  BY <1>1, <1>2, <1>4, <1>5, <1>6, <1>8
<1>9. CASE g \notin {A, W}
  BY <1>1, <1>2, <1>4, <1>5, <1>6, <1>9
<1> QED
  BY <1>7, <1>8, <1>9

\* A step that changes neither the bank nor what is under way.
LEMMA QuietStep ==
    ASSUME AttentionInv, NEW g \in Agents, NEW t \in Thread, ThreadOK(g, t),
           thread' = [thread EXCEPT ![g] = t], FreshOK(sti, t),
           UNCHANGED <<sti, funds, serial, taken, lost>>,
           thread[g].pc # "idle" \/ (serial => \A k \in Agents : thread[k].pc = "idle"),
           Carry(t) = Carry(thread[g])
    PROVE  AttentionInv'
<1>0. BankOK /\ ThreadsOK /\ Conserved
  BY DEF AttentionInv
<1>1. ThreadsOK' /\ Alone' /\ Fresh'
  BY ThreadStep
<1>2. Carry(thread[g]) \in Int /\ g \in Spreaders \cup Collectors
  BY <1>0, CarryType DEF ThreadsOK, Agents
<1>3. InFlight' = InFlight
  <2>1. /\ InFlight \in Int
        /\ g \in Spreaders => InFlight' = InFlight + Carry(thread[g]) - Carry(thread[g])
        /\ g \in Collectors => InFlight' = InFlight
    BY <1>0, FlightStep
  <2> QED
    BY <2>1, <1>2
<1>4. BankOK' /\ Conserved'
  BY <1>0, <1>3 DEF BankOK, Conserved
<1> QED
  BY <1>1, <1>4 DEF AttentionInv

\* The place a run begins at.
LEMMA IdleFacts ==
    /\ Idle \in Thread
    /\ \A g \in Agents : ThreadOK(g, Idle)
    /\ \A value : FreshOK(value, Idle)
    /\ Carry(Idle) = 0
<1>1. /\ Idle.pc = "idle" /\ Idle.todo = <<>> /\ Idle.stack = <<>>
      /\ Idle.reg = 0 /\ Idle.cycles = 0 /\ Idle.charge = 0
  BY DEF Idle
<1>2. Idle \in Thread
  BY DEF Idle, Thread
<1> QED
  BY <1>1, <1>2 DEF ThreadOK, FreshOK, Carry

\* The focus is a set of atoms.
LEMMA FocusType == \A F \in AttentionalFocus : F \subseteq Atoms
BY DEF AttentionalFocus

\* A run begins.
LEMMA BeginStep ==
    ASSUME AttentionInv, NEW g \in Agents, MayRun(g), NEW t \in Thread, ThreadOK(g, t),
           t.pc \in {"idle", "diffuse", "readRent"}, Begin(g, t)
    PROVE  AttentionInv'
<1>1. /\ thread' = [thread EXCEPT ![g] = t] /\ UNCHANGED <<sti, funds, serial, taken, lost>>
      /\ thread[g].pc = "idle" /\ (serial => \A k \in Agents : thread[k].pc = "idle")
  BY DEF Begin, MayRun
<1>2. FreshOK(sti, t)
  BY DEF FreshOK
<1>3. Carry(t) = Carry(thread[g])
  BY <1>1 DEF Carry
<1> QED
  BY <1>1, <1>2, <1>3, QuietStep

\* A spreader takes its sources.
LEMMA BeginSpreadStep ==
    ASSUME AttentionInv, NEW g \in Spreaders, BeginSpread(g)
    PROVE  AttentionInv'
<1>1. g \in Agents /\ g \notin Collectors
  BY DEF Agents, Spreaders, Collectors
<1>2. PICK sources \in IF g = "AFImportanceDiffusion"
                       THEN AttentionalFocus ELSE {{a} : a \in Atoms} \cup {{}} :
        \E s \in InOrder(removeHebbianLinks(sources)) :
          Begin(g, IF s = <<>> THEN Idle ELSE [Idle EXCEPT !.pc = "diffuse", !.todo = s])
  BY DEF BeginSpread
<1>3. PICK s \in InOrder(removeHebbianLinks(sources)) :
          Begin(g, IF s = <<>> THEN Idle ELSE [Idle EXCEPT !.pc = "diffuse", !.todo = s])
  BY <1>2
<1>4. sources \subseteq Atoms
  BY FocusType
<1>5. s \in Seq(Atoms)
  BY <1>4, InOrderType DEF removeHebbianLinks
<1>6. MayRun(g)
  BY DEF BeginSpread
<1>7. CASE s = <<>>
  BY <1>1, <1>3, <1>6, <1>7, IdleFacts, BeginStep DEF Idle
<1>8. CASE s # <<>>
  <2> DEFINE t == [Idle EXCEPT !.pc = "diffuse", !.todo = s]
  <2>1. t \in Thread /\ t.pc = "diffuse" /\ t.todo = s
    BY <1>5, IdleFacts DEF Thread, SpreadPlaces
  <2>2. Begin(g, t)
    BY <1>3, <1>8
  <2> HIDE DEF t
  <2>3. ThreadOK(g, t)
    BY <2>1, <1>1, <1>8 DEF ThreadOK, SpreadPlaces
  <2> QED
    BY <2>1, <2>2, <2>3, <1>1, <1>6, BeginStep
<1> QED
  BY <1>7, <1>8

\* A collector takes its targets.
LEMMA BeginRentStep ==
    ASSUME AttentionInv, NEW g \in Collectors, BeginRent(g)
    PROVE  AttentionInv'
<1>1. g \in Agents /\ g \notin Spreaders
  BY DEF Agents, Spreaders, Collectors
<1>2. PICK targets \in {{}} \cup IF g = "AFRentCollection"
                                 THEN AttentionalFocus ELSE {{a} : a \in Atoms} :
        \E s \in InOrder(targets), w \in IF g = "AFRentCollection" THEN UpdateCycles ELSE {1} :
          Begin(g, IF s = <<>> THEN Idle
                   ELSE [Idle EXCEPT !.pc = "readRent", !.todo = s, !.cycles = w])
  BY DEF BeginRent
<1>3. PICK s \in InOrder(targets), w \in IF g = "AFRentCollection" THEN UpdateCycles ELSE {1} :
          Begin(g, IF s = <<>> THEN Idle
                   ELSE [Idle EXCEPT !.pc = "readRent", !.todo = s, !.cycles = w])
  BY <1>2
<1>4. targets \subseteq Atoms
  BY FocusType
<1>5. s \in Seq(Atoms) /\ w \in Nat
  BY <1>4, InOrderType, Parameters
<1>6. MayRun(g)
  BY DEF BeginRent
<1>7. CASE s = <<>>
  BY <1>1, <1>3, <1>6, <1>7, IdleFacts, BeginStep DEF Idle
<1>8. CASE s # <<>>
  <2> DEFINE t == [Idle EXCEPT !.pc = "readRent", !.todo = s, !.cycles = w]
  <2>1. t \in Thread /\ t.pc = "readRent" /\ t.todo = s
    BY <1>5, IdleFacts DEF Thread, RentPlaces
  <2>2. Begin(g, t)
    BY <1>3, <1>8
  <2> HIDE DEF t
  <2>3. ThreadOK(g, t)
    BY <2>1, <1>1, <1>8 DEF ThreadOK, RentPlaces
  <2> QED
    BY <2>1, <2>2, <2>3, <1>1, <1>6, BeginStep
<1> QED
  BY <1>7, <1>8

\* The events of one source are computed.
LEMMA diffuseAtomStep ==
    ASSUME AttentionInv, NEW g \in Spreaders, diffuseAtom(g)
    PROVE  AttentionInv'
<1> DEFINE th == thread[g]
           a == Head(th.todo)
           rest == Tail(th.todo)
<1>0. BankOK /\ ThreadsOK /\ g \in Agents /\ g \notin Collectors
  BY DEF AttentionInv, Agents, Spreaders, Collectors
<1>1. th.pc = "diffuse" /\ UNCHANGED <<sti, funds, serial, taken, lost>>
  BY DEF diffuseAtom
<1>2. th \in Thread /\ ThreadOK(g, th)
  BY <1>0 DEF ThreadsOK
<1>3. th.todo \in Seq(Atoms) /\ th.todo # <<>> /\ th.stack \in Seq(Event)
  BY <1>1, <1>2 DEF Thread, ThreadOK
<1>4. a \in Atoms /\ rest \in Seq(Atoms)
  BY <1>3, HeadAndTail
<1>5. PICK total \in calculateDiffusionAmount(g, a) :
        \E events \in IF total = 0 THEN {<<>>} ELSE DiffusionEvents(a, total, HebbianAllocation(g)) :
          thread' = [thread EXCEPT ![g].todo = rest, ![g].stack = th.stack \o events,
                       ![g].pc = IF rest # <<>> THEN "diffuse"
                                 ELSE IF th.stack \o events = <<>> THEN "idle" ELSE "readSource"]
  BY DEF diffuseAtom
<1>6. PICK events \in IF total = 0 THEN {<<>>} ELSE DiffusionEvents(a, total, HebbianAllocation(g)) :
          thread' = [thread EXCEPT ![g].todo = rest, ![g].stack = th.stack \o events,
                       ![g].pc = IF rest # <<>> THEN "diffuse"
                                 ELSE IF th.stack \o events = <<>> THEN "idle" ELSE "readSource"]
  BY <1>5
<1>7. events \in Seq(Event)
  <2>1. total \in Int /\ HebbianAllocation(g) \in Nat
    BY <1>0, <1>4, AmountType, Parameters
  <2>2. CASE total = 0
    BY <2>2
  <2>3. CASE total # 0
    BY <2>1, <2>3, <1>4, EventsType
  <2> QED
    BY <2>2, <2>3
<1> DEFINE st == th.stack \o events
           p == IF rest # <<>> THEN "diffuse" ELSE IF st = <<>> THEN "idle" ELSE "readSource"
           t == [th EXCEPT !.todo = rest, !.stack = st, !.pc = p]
<1>8. st \in Seq(Event)
  BY <1>3, <1>7, ConcatProperties
<1>9. thread' = [thread EXCEPT ![g] = t]
  BY <1>6, <1>0 DEF ThreadsOK, Thread
<1>10. p \in {"diffuse", "idle", "readSource"} /\ (p = "diffuse" => rest # <<>>) /\ (p = "readSource" => st # <<>>)
  OBVIOUS
<1> HIDE DEF st, p, rest, a, th
<1>11. t \in Thread /\ t.todo = rest /\ t.stack = st /\ t.pc = p
  BY <1>2, <1>4, <1>8, <1>10 DEF Thread, SpreadPlaces
<1> HIDE DEF t
<1>12. ThreadOK(g, t) /\ FreshOK(sti, t) /\ Carry(t) = 0 /\ Carry(th) = 0
  BY <1>0, <1>1, <1>10, <1>11 DEF ThreadOK, FreshOK, Carry, SpreadPlaces
<1> QED
  BY <1>0, <1>1, <1>9, <1>11, <1>12, QuietStep DEF th

\* get_sti: what an agent has read is what the bank has.
LEMMA ReadStep ==
    ASSUME AttentionInv, NEW g \in Spreaders, NEW x, NEW p, Read(g, x, p),
           \/ thread[g].pc = "readSource" /\ p = "writeSource" /\ x = Top(g).source
           \/ thread[g].pc = "readTarget" /\ p = "writeTarget" /\ x = Top(g).target
    PROVE  AttentionInv'
<1> DEFINE th == thread[g]
           t == [th EXCEPT !.reg = sti[x], !.pc = p]
<1>0. BankOK /\ ThreadsOK /\ g \in Agents /\ g \notin Collectors
  BY DEF AttentionInv, Agents, Spreaders, Collectors
<1>1. th \in Thread /\ ThreadOK(g, th)
  BY <1>0 DEF ThreadsOK
<1>2. th.stack \in Seq(Event) /\ th.stack # <<>>
  BY <1>1 DEF Thread, ThreadOK
<1>3. Top(g) = Last(th.stack) /\ Top(g) \in Event
  BY <1>2, LastAndFront DEF Top
<1>4. x \in Atoms /\ sti[x] \in Int
  BY <1>0, <1>3 DEF Event, BankOK
<1>5. thread' = [thread EXCEPT ![g] = t] /\ UNCHANGED <<sti, funds, serial, taken, lost>>
  BY <1>0 DEF Read, ThreadsOK, Thread
<1>6. t \in Thread /\ t.reg = sti[x] /\ t.pc = p /\ t.stack = th.stack
  <2> HIDE DEF th
  <2> QED
    BY <1>1, <1>4 DEF Thread, SpreadPlaces, th
<1> HIDE DEF t
<1>7. ThreadOK(g, t) /\ FreshOK(sti, t) /\ Carry(t) = Carry(th)
  BY <1>0, <1>2, <1>3, <1>6 DEF ThreadOK, FreshOK, Carry, SpreadPlaces
<1> QED
  BY <1>0, <1>5, <1>6, <1>7, QuietStep

\* set_sti of what was read, less x: while nothing was lost the funds grow by x.
LEMMA WriteFacts ==
    ASSUME AttentionInv, NEW g \in Agents, NEW a \in Atoms, NEW value \in Int, NEW x \in Int,
           value = thread[g].reg - x, Write(g, a, value),
           serial => thread[g].reg = sti[a]
    PROVE  /\ sti' \in [Atoms -> Int] /\ funds' \in Int /\ lost' \in BOOLEAN /\ UNCHANGED serial
           /\ ~lost' => ~lost /\ funds' = funds + x
           /\ serial => ~lost'
<1>0. BankOK /\ ThreadsOK /\ Fresh
  BY DEF AttentionInv
<1>1. sti[a] \in Int /\ funds \in Int /\ thread[g].reg \in Int
  BY <1>0 DEF BankOK, ThreadsOK, Thread
<1>2. /\ sti' = [sti EXCEPT ![a] = value] /\ funds' = funds + sti[a] - value
      /\ lost' = (lost \/ sti[a] # thread[g].reg) /\ UNCHANGED serial
  BY DEF Write
<1>3. sti' \in [Atoms -> Int] /\ funds' \in Int
  BY <1>0, <1>1, <1>2 DEF BankOK
<1>4. lost' \in BOOLEAN
  BY <1>2, Zenon
<1>5. ~lost' => ~lost /\ sti[a] = thread[g].reg
  BY <1>2
<1>6. ASSUME sti[a] = thread[g].reg PROVE funds' = funds + x
  <2>1. value = sti[a] - x
    BY <1>6
  <2>2. funds' = funds + sti[a] - (sti[a] - x)
    BY <2>1, <1>2
  <2> QED
    BY <2>2, <1>1
<1>7. serial => ~lost'
  BY <1>0, <1>2 DEF Fresh
<1> QED
  BY <1>2, <1>3, <1>4, <1>5, <1>6, <1>7

\* The source pays.
LEMMA WriteSourceStep ==
    ASSUME AttentionInv, NEW g \in Spreaders, WriteSource(g)
    PROVE  AttentionInv'
<1> DEFINE th == thread[g]
           a == Top(g).source
           x == Top(g).amount
           t == [th EXCEPT !.reg = 0, !.pc = "readTarget"]
<1>0. BankOK /\ ThreadsOK /\ Fresh /\ Conserved /\ g \in Agents /\ g \notin Collectors
  BY DEF AttentionInv, Agents, Spreaders, Collectors
<1>1. th.pc = "writeSource" /\ Write(g, a, th.reg - x) /\ UNCHANGED taken
  BY DEF WriteSource
<1>2. th \in Thread /\ ThreadOK(g, th)
  BY <1>0 DEF ThreadsOK
<1>3. th.stack \in Seq(Event) /\ th.stack # <<>> /\ th.reg \in Int
  BY <1>1, <1>2 DEF Thread, ThreadOK
<1>4. Top(g) = Last(th.stack) /\ a \in Atoms /\ x \in Int
  <2>1. Top(g) = Last(th.stack) /\ Top(g) \in Event
    BY <1>3, LastAndFront DEF Top
  <2> QED
    BY <2>1 DEF Event
<1>5. thread' = [thread EXCEPT ![g] = t]
  BY <1>0 DEF WriteSource, ThreadsOK, Thread
<1>6. t \in Thread /\ t.pc = "readTarget" /\ t.stack = th.stack
  <2> DEFINE z == 0
  <2>1. z \in Int /\ t = [th EXCEPT !.reg = z, !.pc = "readTarget"]
    OBVIOUS
  <2> HIDE DEF th, z, t
  <2> QED
    BY <2>1, <1>2 DEF Thread, SpreadPlaces
<1>7. serial => th.reg = sti[a]
  BY <1>0, <1>1, <1>4 DEF Fresh, FreshOK
<1>8. th.reg - x \in Int
  BY <1>3, <1>4
<1> HIDE DEF t, a, x
<1>9. ThreadOK(g, t) /\ FreshOK(sti', t) /\ Carry(t) = x /\ Carry(th) = 0
  BY <1>0, <1>1, <1>3, <1>4, <1>6 DEF ThreadOK, FreshOK, Carry, SpreadPlaces, x
<1>10. /\ sti' \in [Atoms -> Int] /\ funds' \in Int /\ lost' \in BOOLEAN /\ UNCHANGED serial
       /\ ~lost' => ~lost /\ funds' = funds + x
       /\ serial => ~lost'
  BY <1>0, <1>1, <1>4, <1>7, <1>8, WriteFacts
<1>11. ThreadsOK' /\ Alone' /\ Fresh'
  BY <1>0, <1>1, <1>5, <1>6, <1>9, <1>10, ThreadStep
<1>12. InFlight \in Int /\ InFlight' = InFlight + x - 0
  BY <1>0, <1>5, <1>6, <1>9, FlightStep
<1>13. BankOK'
  BY <1>0, <1>1, <1>10 DEF BankOK
<1>14. Conserved'
  <2> SUFFICES ASSUME ~lost' PROVE funds' = StartFunds + taken' + InFlight'
    BY DEF Conserved
  <2>1. funds' = funds + x /\ funds = StartFunds + taken + InFlight /\ taken' = taken
    BY <1>0, <1>1, <1>10 DEF Conserved
  <2>2. taken \in Int /\ StartFunds \in Int
    BY <1>0, Parameters DEF BankOK
  <2> QED
    BY <2>1, <2>2, <1>4, <1>12
<1> QED
  BY <1>11, <1>13, <1>14 DEF AttentionInv

\* The target is paid, and the event leaves the stack.
LEMMA WriteTargetStep ==
    ASSUME AttentionInv, NEW g \in Spreaders, WriteTarget(g)
    PROVE  AttentionInv'
<1> DEFINE th == thread[g]
           a == Top(g).target
           x == Top(g).amount
           st == Front(th.stack)
           t == IF st = <<>> THEN Idle ELSE [Idle EXCEPT !.pc = "readSource", !.stack = st]
<1>0. BankOK /\ ThreadsOK /\ Fresh /\ Conserved /\ g \in Agents /\ g \notin Collectors
  BY DEF AttentionInv, Agents, Spreaders, Collectors
<1>1. th.pc = "writeTarget" /\ Write(g, a, th.reg + x) /\ UNCHANGED taken
  BY DEF WriteTarget
<1>2. th \in Thread /\ ThreadOK(g, th)
  BY <1>0 DEF ThreadsOK
<1>3. th.stack \in Seq(Event) /\ th.stack # <<>> /\ th.reg \in Int
  BY <1>1, <1>2 DEF Thread, ThreadOK
<1>4. Top(g) = Last(th.stack) /\ a \in Atoms /\ x \in Int /\ st \in Seq(Event)
  <2>1. Top(g) = Last(th.stack) /\ Top(g) \in Event /\ st \in Seq(Event)
    BY <1>3, LastAndFront DEF Top
  <2> QED
    BY <2>1 DEF Event
<1>5. thread' = [thread EXCEPT ![g] = t]
  BY DEF WriteTarget, Popped
<1>6. t \in Thread /\ t.pc \in {"idle", "readSource"} /\ (t.pc = "readSource" => t.stack # <<>>)
  <2> HIDE DEF st
  <2>1. CASE st = <<>>
    BY <2>1, IdleFacts DEF Idle
  <2>2. CASE st # <<>>
    BY <2>2, <1>4, IdleFacts DEF Thread, SpreadPlaces
  <2> QED
    BY <2>1, <2>2
<1>7. serial => th.reg = sti[a]
  BY <1>0, <1>1, <1>4 DEF Fresh, FreshOK
<1>8. th.reg + x \in Int /\ th.reg + x = th.reg - (-x) /\ -x \in Int
  BY <1>3, <1>4
<1> HIDE DEF t, a, x
<1>9. ThreadOK(g, t) /\ FreshOK(sti', t) /\ Carry(t) = 0 /\ Carry(th) = x
  BY <1>0, <1>1, <1>3, <1>4, <1>6 DEF ThreadOK, FreshOK, Carry, SpreadPlaces, x
<1>10. /\ sti' \in [Atoms -> Int] /\ funds' \in Int /\ lost' \in BOOLEAN /\ UNCHANGED serial
       /\ ~lost' => ~lost /\ funds' = funds + (-x)
       /\ serial => ~lost'
  BY <1>0, <1>1, <1>4, <1>7, <1>8, WriteFacts
<1>11. ThreadsOK' /\ Alone' /\ Fresh'
  BY <1>0, <1>1, <1>5, <1>6, <1>9, <1>10, ThreadStep
<1>12. InFlight \in Int /\ InFlight' = InFlight + 0 - x
  BY <1>0, <1>5, <1>6, <1>9, FlightStep
<1>13. BankOK'
  BY <1>0, <1>1, <1>10 DEF BankOK
<1>14. Conserved'
  <2> SUFFICES ASSUME ~lost' PROVE funds' = StartFunds + taken' + InFlight'
    BY DEF Conserved
  <2>1. funds' = funds + (-x) /\ funds = StartFunds + taken + InFlight /\ taken' = taken
    BY <1>0, <1>1, <1>10 DEF Conserved
  <2>2. taken \in Int /\ StartFunds \in Int
    BY <1>0, Parameters DEF BankOK
  <2> QED
    BY <2>1, <2>2, <1>4, <1>12
<1> QED
  BY <1>11, <1>13, <1>14 DEF AttentionInv

\* The STI of an atom and the rent it is to pay are read.
LEMMA ReadRentStep ==
    ASSUME AttentionInv, NEW g \in Collectors, ReadRent(g)
    PROVE  AttentionInv'
<1> DEFINE th == thread[g]
           a == Head(th.todo)
<1>0. BankOK /\ ThreadsOK /\ g \in Agents /\ g \notin Spreaders
  BY DEF AttentionInv, Agents, Spreaders, Collectors
<1>1. th.pc = "readRent" /\ UNCHANGED <<sti, funds, serial, taken, lost>>
  BY DEF ReadRent
<1>2. th \in Thread /\ ThreadOK(g, th)
  BY <1>0 DEF ThreadsOK
<1>3. th.todo \in Seq(Atoms) /\ th.todo # <<>> /\ th.cycles \in Nat
  BY <1>1, <1>2 DEF Thread, ThreadOK
<1>4. a \in Atoms /\ sti[a] \in Int
  BY <1>0, <1>3, HeadAndTail DEF BankOK
<1>5. PICK rent \in UNION {calculate_STI_Rent(base) : base \in BaseRents(g)} :
        thread' = [thread EXCEPT ![g].pc = "writeRent", ![g].reg = sti[a],
                     ![g].charge = th.cycles * RentDue(Cut(sti[a], Unit), rent)]
  BY DEF ReadRent
<1>6. rent \in Int
  <2>1. PICK base \in BaseRents(g) : rent \in calculate_STI_Rent(base)
    BY <1>5
  <2>2. base \in Int
    BY Parameters DEF BaseRents
  <2> QED
    BY <2>1, <2>2, <1>0, RentType
<1> DEFINE c == th.cycles * RentDue(Cut(sti[a], Unit), rent)
           t == [th EXCEPT !.pc = "writeRent", !.reg = sti[a], !.charge = c]
<1>7. c \in Int
  <2>1. Cut(sti[a], Unit) \in Int
    BY <1>4, CutType, Parameters
  <2>2. RentDue(Cut(sti[a], Unit), rent) \in Int
    BY <2>1, <1>6 DEF RentDue
  <2> QED
    BY <2>2, <1>3
<1>8. thread' = [thread EXCEPT ![g] = t]
  BY <1>0, <1>5 DEF ThreadsOK, Thread
<1> HIDE DEF c
<1>9. t \in Thread /\ t.pc = "writeRent" /\ t.reg = sti[a] /\ t.todo = th.todo
  BY <1>2, <1>4, <1>7 DEF Thread, RentPlaces
<1> HIDE DEF t
<1>10. ThreadOK(g, t) /\ FreshOK(sti, t) /\ Carry(t) = 0 /\ Carry(th) = 0
  BY <1>0, <1>1, <1>3, <1>9 DEF ThreadOK, FreshOK, Carry, RentPlaces
<1> QED
  BY <1>0, <1>1, <1>8, <1>9, <1>10, QuietStep

\* The atom pays.
LEMMA WriteRentStep ==
    ASSUME AttentionInv, NEW g \in Collectors, WriteRent(g)
    PROVE  AttentionInv'
<1> DEFINE th == thread[g]
           a == Head(th.todo)
           value == Unit * (Cut(th.reg, Unit) - th.charge)
           x == th.reg - value
           rest == Tail(th.todo)
           t == IF rest = <<>> THEN Idle
                ELSE [Idle EXCEPT !.pc = "readRent", !.todo = rest, !.cycles = th.cycles]
<1>0. BankOK /\ ThreadsOK /\ Fresh /\ Conserved /\ g \in Agents /\ g \notin Spreaders
  BY DEF AttentionInv, Agents, Spreaders, Collectors
<1>1. th.pc = "writeRent" /\ Write(g, a, value) /\ taken' = taken + x /\ thread' = [thread EXCEPT ![g] = t]
  BY DEF WriteRent
<1>2. th \in Thread /\ ThreadOK(g, th)
  BY <1>0 DEF ThreadsOK
<1>3. th.todo \in Seq(Atoms) /\ th.todo # <<>> /\ th.cycles \in Nat /\ th.reg \in Int /\ th.charge \in Int
  BY <1>1, <1>2 DEF Thread, ThreadOK
<1>4. a \in Atoms /\ rest \in Seq(Atoms)
  BY <1>3, HeadAndTail
<1>13. value \in Int /\ x \in Int /\ value = th.reg - x
  <2>1. Unit \in Nat \ {0}
    BY Parameters
  <2>3. Cut(th.reg, Unit) \in Int
    BY <1>3, <2>1, CutType
  <2>4. Cut(th.reg, Unit) - th.charge \in Int
    BY <1>3, <2>3
  <2>2. value \in Int
    BY <2>1, <2>4
  <2> HIDE DEF value
  <2> QED
    BY <2>2, <1>3
<1>5. t \in Thread /\ t.pc \in {"idle", "readRent"} /\ (t.pc = "readRent" => t.todo # <<>>)
  <2> HIDE DEF rest, th
  <2>1. CASE rest = <<>>
    BY <2>1, IdleFacts DEF Idle
  <2>2. CASE rest # <<>>
    BY <2>2, <1>3, <1>4, IdleFacts DEF Thread, RentPlaces
  <2> QED
    BY <2>1, <2>2
<1>6. serial => th.reg = sti[a]
  BY <1>0, <1>1 DEF Fresh, FreshOK
<1> HIDE DEF t, a, x, value
<1>7. ThreadOK(g, t) /\ FreshOK(sti', t)
  BY <1>0, <1>5 DEF ThreadOK, FreshOK, RentPlaces
<1>8. /\ sti' \in [Atoms -> Int] /\ funds' \in Int /\ lost' \in BOOLEAN /\ UNCHANGED serial
      /\ ~lost' => ~lost /\ funds' = funds + x
      /\ serial => ~lost'
  BY <1>0, <1>1, <1>4, <1>6, <1>13, WriteFacts
<1>9. ThreadsOK' /\ Alone' /\ Fresh'
  BY <1>0, <1>1, <1>5, <1>7, <1>8, ThreadStep
<1>10. InFlight \in Int /\ InFlight' = InFlight
  BY <1>0, <1>1, <1>5, <1>7, FlightStep
<1>11. BankOK'
  <2>1. taken' \in Int
    <3>1. taken \in Int /\ taken' = taken + x
      BY <1>0, <1>1 DEF BankOK
    <3> QED
      BY <3>1, <1>13
  <2>2. serial' \in BOOLEAN
    BY <1>0, <1>8, Zenon DEF BankOK
  <2> QED
    BY <2>1, <2>2, <1>8, Zenon DEF BankOK
<1>12. Conserved'
  <2> SUFFICES ASSUME ~lost' PROVE funds' = StartFunds + taken' + InFlight'
    BY DEF Conserved
  <2>1. funds' = funds + x /\ funds = StartFunds + taken + InFlight /\ taken' = taken + x
    BY <1>0, <1>1, <1>8 DEF Conserved
  <2>2. taken \in Int /\ StartFunds \in Int
    BY <1>0, Parameters DEF BankOK
  <2> QED
    BY <2>1, <2>2, <1>10, <1>13
<1> QED
  BY <1>9, <1>11, <1>12 DEF AttentionInv

-----------------------------------------------------------------------------
(* The theorems.                                                             *)

\* No agent is running at first.
LEMMA InitAttention == Init => AttentionInv
<1> SUFFICES ASSUME Init PROVE AttentionInv
  OBVIOUS
<1>1. \A g \in Agents : thread[g] = Idle
  BY DEF Init
<1>2. sti \in [Atoms -> Int]
  BY GraphAssumption DEF Init
<1>3. BankOK
  <2>1. funds \in Int /\ taken \in Int
    BY Parameters DEF Init
  <2>2. serial \in BOOLEAN /\ lost \in BOOLEAN
    BY ParameterAssumption, Zenon DEF Init
  <2> QED
    BY <1>2, <2>1, <2>2, Zenon DEF BankOK
<1>4. ThreadsOK
  BY <1>1, IdleFacts DEF Init, ThreadsOK
<1>5. Alone
  BY <1>1 DEF Alone, Idle
<1>6. Fresh
  BY <1>1, IdleFacts DEF Init, Fresh
<1>7. Conserved
  <2>1. "AFImportanceDiffusion" \in Agents /\ "WAImportanceDiffusion" \in Agents /\ Idle.pc = "idle"
    BY DEF Agents, Spreaders, Idle
  <2>2. InFlight = 0
    BY <2>1, <1>1 DEF InFlight, Carried
  <2> QED
    BY <2>2, Parameters DEF Init, Conserved
<1> QED
  BY <1>3, <1>4, <1>5, <1>6, <1>7 DEF AttentionInv

\* The inductive invariant: the agents' threads hold what they are at, and
\* while no write has replaced a value other than the one read, the funds are
\* what was there at first, what was charged and what is between two accounts.
THEOREM AttentionInvariant == Spec => []AttentionInv
<1>1. AttentionInv /\ [Next]_vars => AttentionInv'
  <2> SUFFICES ASSUME AttentionInv, [Next]_vars PROVE AttentionInv'
    OBVIOUS
  <2>1. ASSUME NEW g \in Spreaders, BeginSpread(g) \/ SpreadStep(g) PROVE AttentionInv'
    <3>1. CASE BeginSpread(g)
      BY <3>1, BeginSpreadStep
    <3>2. CASE diffuseAtom(g)
      BY <3>2, diffuseAtomStep
    <3>3. CASE ReadSource(g)
      BY <3>3, ReadStep DEF ReadSource
    <3>4. CASE WriteSource(g)
      BY <3>4, WriteSourceStep
    <3>5. CASE ReadTarget(g)
      BY <3>5, ReadStep DEF ReadTarget
    <3>6. CASE WriteTarget(g)
      BY <3>6, WriteTargetStep
    <3> QED
      BY <2>1, <3>1, <3>2, <3>3, <3>4, <3>5, <3>6 DEF SpreadStep
  <2>2. ASSUME NEW g \in Collectors, BeginRent(g) \/ RentStep(g) PROVE AttentionInv'
    <3>1. CASE BeginRent(g)
      BY <3>1, BeginRentStep
    <3>2. CASE ReadRent(g)
      BY <3>2, ReadRentStep
    <3>3. CASE WriteRent(g)
      BY <3>3, WriteRentStep
    <3> QED
      BY <2>2, <3>1, <3>2, <3>3 DEF RentStep
  <2>3. CASE UNCHANGED vars
    <3>1. UNCHANGED <<sti, funds, thread, serial, taken, lost>>
      BY <2>3 DEF vars
    <3>2. InFlight' = InFlight
      BY <3>1 DEF InFlight, Carried, Top
    <3>3. BankOK' /\ ThreadsOK' /\ Alone' /\ Fresh' /\ Conserved'
      BY <3>1, <3>2 DEF AttentionInv, BankOK, ThreadsOK, Alone, Fresh, Conserved
    <3> QED
      BY <3>3 DEF AttentionInv
  <2> QED
    BY <2>1, <2>2, <2>3 DEF Next
<1> QED
  BY <1>1, InitAttention, PTL DEF Spec

\* Spreading (tradeSTI) neither makes nor destroys STI and rent (collectRent)
\* goes to the funds in full, for every graph of atoms: always when the main
\* loop runs the agents, and with a thread for each as long as no write has
\* replaced a value other than the one its agent had read.
THEOREM SpreadConservesSafety == Spec => []SpreadConserves
<1>1. AttentionInv => SpreadConserves
  BY DEF AttentionInv, Fresh, Conserved, SpreadConserves
<1> QED
  BY <1>1, AttentionInvariant, PTL

-----------------------------------------------------------------------------
(* What the events on a stack take from an atom.                             *)

\* Due(e, a): by the event e; Owed(stack, a): by all of a stack.
OwedBy(stack, a) == [i \in DOMAIN stack |-> IF stack[i].source = a THEN stack[i].amount ELSE 0]
Owed(stack, a) == SumOn(OwedBy(stack, a), DOMAIN stack)
Due(e, a) == IF e.source = a THEN e.amount ELSE 0

\* It is a whole number, and 0 if no event has the atom as its source.
LEMMA OwedType ==
    ASSUME NEW stack \in Seq(Event), NEW a
    PROVE  /\ IsFiniteSet(DOMAIN stack) /\ Owed(stack, a) \in Int
           /\ (\A i \in DOMAIN stack : stack[i].source # a) => Owed(stack, a) = 0
<1>1. DOMAIN stack = 1 .. Len(stack) /\ Len(stack) \in Nat
  OBVIOUS
<1>2. IsFiniteSet(DOMAIN stack) /\ Cardinality(DOMAIN stack) \in Nat
  BY <1>1, FS_Interval, FS_CardinalityType
<1> DEFINE f == OwedBy(stack, a)
<1>3. \A i \in DOMAIN stack : f[i] \in Int
  <2>1. \A i \in DOMAIN stack : stack[i] \in Event
    OBVIOUS
  <2> QED
    BY <2>1 DEF OwedBy, Event
<1>4. ASSUME \A i \in DOMAIN stack : stack[i].source # a PROVE Owed(stack, a) = 0
  <2>1. \A i \in DOMAIN stack : f[i] \in 0 .. 0
    BY <1>4 DEF OwedBy
  <2> HIDE DEF f
  <2>2. SumOn(f, DOMAIN stack) \in Nat /\ SumOn(f, DOMAIN stack) <= 0 * Cardinality(DOMAIN stack)
    BY <1>2, <2>1, SumBound
  <2> QED
    BY <2>2, <1>2 DEF Owed, f
<1>5. Owed(stack, a) \in Int
  BY <1>2, <1>3, SumType DEF Owed
<1> QED
  BY <1>2, <1>4, <1>5

\* One more event.
LEMMA OwedAppend ==
    ASSUME NEW stack \in Seq(Event), NEW e \in Event, NEW a
    PROVE  Owed(Append(stack, e), a) = Owed(stack, a) + Due(e, a)
<1> DEFINE s == Append(stack, e)
           n == Len(stack)
           f == OwedBy(s, a)
<1>1. /\ s \in Seq(Event) /\ DOMAIN s = 1 .. n + 1 /\ DOMAIN stack = 1 .. n /\ n \in Nat
      /\ s[n + 1] = e /\ \A i \in 1 .. n : s[i] = stack[i]
  BY AppendProperties
<1>2. IsFiniteSet(DOMAIN s) /\ IsFiniteSet(DOMAIN stack)
  BY <1>1, OwedType
<1> HIDE DEF s, n
<1>3. \A i \in DOMAIN s : f[i] \in Int
  <2>1. \A i \in DOMAIN s : s[i] \in Event
    BY <1>1
  <2> QED
    BY <2>1 DEF OwedBy, Event
<1>4. f[n + 1] = Due(e, a)
  BY <1>1 DEF OwedBy, Due
<1>5. n + 1 \in DOMAIN s /\ DOMAIN s \ {n + 1} = DOMAIN stack
  BY <1>1
<1>6. \A i \in DOMAIN stack : f[i] = OwedBy(stack, a)[i]
  BY <1>1 DEF OwedBy
<1> HIDE DEF f
<1>7. SumOn(f, DOMAIN s) = f[n + 1] + SumOn(f, DOMAIN s \ {n + 1})
  BY <1>2, <1>3, <1>5, SumAnyOrder
<1>8. SumOn(f, DOMAIN stack) = SumOn(OwedBy(stack, a), DOMAIN stack)
  BY <1>2, <1>6, SumSame
<1>9. Owed(s, a) = Due(e, a) + Owed(stack, a)
  BY <1>4, <1>5, <1>7, <1>8 DEF Owed, f
<1>10. Due(e, a) \in Int
  BY DEF Due, Event
<1>11. Owed(stack, a) \in Int
  BY OwedType
<1> QED
  BY <1>9, <1>10, <1>11 DEF s

\* The last event, and the others.
LEMMA OwedLast ==
    ASSUME NEW stack \in Seq(Event), stack # <<>>, NEW a
    PROVE  Owed(stack, a) = Owed(Front(stack), a) + Due(Last(stack), a)
<1>1. Last(stack) \in Event /\ Front(stack) \in Seq(Event)
  BY LastAndFront
<1>2. stack = Append(Front(stack), Last(stack))
  <2>1. Len(stack) \in Nat \ {0} /\ DOMAIN stack = 1 .. Len(stack)
    OBVIOUS
  <2> DEFINE n == Len(stack) - 1
  <2>2. n \in Nat /\ n + 1 = Len(stack) /\ \A i \in 1 .. n : i \in DOMAIN stack /\ stack[i] \in Event
    BY <2>1
  <2> HIDE DEF n
  <2>3. Front(stack) = SubSeq(stack, 1, n) /\ Last(stack) = stack[n + 1]
    BY <2>2 DEF Front, Last, n
  <2>4. Len(Front(stack)) = n /\ \A i \in 1 .. n : Front(stack)[i] = stack[i]
    BY <2>2, <2>3, SubSeqProperties
  <2> DEFINE s == Append(Front(stack), Last(stack))
  <2>5. s \in Seq(Event) /\ Len(s) = n + 1 /\ s[n + 1] = stack[n + 1] /\ \A i \in 1 .. n : s[i] = stack[i]
    BY <1>1, <2>3, <2>4, AppendProperties
  <2>6. \A i \in 1 .. n + 1 : s[i] = stack[i]
    BY <2>2, <2>5
  <2> HIDE DEF s
  <2> QED
    BY <2>2, <2>5, <2>6, SeqEqual DEF s
<1>3. Owed(Append(Front(stack), Last(stack)), a) = Owed(Front(stack), a) + Due(Last(stack), a)
  BY <1>1, OwedAppend
<1> QED
  BY <1>2, <1>3

-----------------------------------------------------------------------------
(* The shares of a source.                                                   *)

\* A product grows with a factor.
LEMMA TimesGrows ==
    ASSUME NEW k \in Nat, NEW x \in Int, NEW y \in Int, x <= y
    PROVE  k * x <= k * y
<1>1. y - x \in Nat
  OBVIOUS
<1>2. k * (y - x) \in Nat
  BY <1>1
<1>3. k * (y - x) = k * y - k * x
  OBVIOUS
<1> QED
  BY <1>2, <1>3

\* A share, times its divisor, is at most what was shared.
LEMMA CutBound ==
    ASSUME NEW x \in Nat, NEW y \in Nat \ {0}
    PROVE  Cut(x, y) \in Nat /\ y * Cut(x, y) <= x
BY DEF Cut

\* What Hebbian neighbours may take of a source is not more than all of it.
LEMMA WholeFacts ==
    ASSUME NEW a \in Atoms, NEW alloc \in 0 .. 100
    PROVE  LET D == DOMAIN Conductance[a]
           IN  /\ IsFiniteSet(D) /\ \A t \in D : Conductance[a][t] \in 0 .. 100
               /\ Total(Conductance[a]) = SumOn(Conductance[a], D) /\ Total(Conductance[a]) \in Nat
               /\ Whole(a) \in Nat \ {0} /\ alloc * Total(Conductance[a]) <= Whole(a)
<1> DEFINE D == DOMAIN Conductance[a]
           n == Cardinality(D)
           S == Total(Conductance[a])
<1>1. D \subseteq Atoms /\ \A t \in D : Conductance[a][t] \in 0 .. 100
  BY GraphAssumption, Zenon
<1>2. IsFiniteSet(D) /\ n \in Nat
  BY <1>1, GraphAssumption, FS_Subset, FS_CardinalityType
<1>3. S = SumOn(Conductance[a], D)
  BY DEF Total, SumOn, FoldFunction
<1> HIDE DEF S, D
<1>4. S \in Nat /\ S <= 100 * n
  <2>1. 100 \in Nat
    OBVIOUS
  <2> QED
    BY <1>1, <1>2, <1>3, <2>1, SumBound DEF D
<1> HIDE DEF n
<1>5. alloc * S <= 10000 * n /\ alloc * S \in Nat
  <2>1. alloc * S <= alloc * (100 * n)
    BY <1>2, <1>4, TimesGrows
  <2>2. (100 * n) * alloc <= (100 * n) * 100
    BY <1>2, TimesGrows
  <2>3. alloc * (100 * n) = (100 * n) * alloc /\ (100 * n) * 100 = 10000 * n /\ alloc * S \in Nat
    BY <1>2, <1>4
  <2> QED
    BY <2>1, <2>2, <2>3, <1>2, <1>4
<1>6. CASE n = 0
  BY <1>2, <1>3, <1>1, <1>4, <1>5, <1>6 DEF Whole, n, D, S
<1>7. CASE n # 0
  <2>1. Whole(a) = 10000 * n * n
    BY <1>7 DEF Whole, n, D
  <2>2. (10000 * n) * 1 <= (10000 * n) * n
    BY <1>2, <1>7, TimesGrows
  <2>3. 10000 * n * n = (10000 * n) * n /\ (10000 * n) * 1 = 10000 * n /\ 10000 * n \in Nat \ {0}
    BY <1>2, <1>7
  <2>4. Whole(a) \in Nat \ {0} /\ alloc * S <= Whole(a)
    BY <2>1, <2>2, <2>3, <1>2, <1>5
  <2> QED
    BY <2>4, <1>1, <1>2, <1>3, <1>4 DEF D, S
<1> QED
  BY <1>6, <1>7

\* The probability vector: a neighbour's share by its conductance, the others'
\* equal parts of what is left, as parts of Whole(a) * parts.
LEMMA ShareFacts ==
    ASSUME NEW a \in Atoms, NEW alloc \in 0 .. 100
    PROVE  LET p == ProbabilityVector(a, alloc)
               D == DOMAIN Conductance[a]
               left == Whole(a) - alloc * Total(Conductance[a])
           IN  /\ DOMAIN p = D \cup Range(Incident[a])
               /\ Incident[a] \in Seq(Atoms) /\ left \in Nat
               /\ \A t \in D : p[t].num = alloc * Conductance[a][t] /\ p[t].den = Whole(a)
               /\ \A t \in DOMAIN p \ D : /\ p[t].num = left /\ p[t].den = Whole(a) * Len(Incident[a])
                                          /\ Len(Incident[a]) \in Nat \ {0}
<1> DEFINE D == DOMAIN Conductance[a]
           I == Range(Incident[a])
           h == HebbianShare(a, alloc)
           l == Whole(a) - alloc * Total(Conductance[a])
           p == ProbabilityVector(a, alloc)
<1>1. Incident[a] \in Seq(Atoms)
  BY GraphAssumption
<1>2. I # {} => Len(Incident[a]) \in Nat \ {0}
  <2>1. Len(Incident[a]) \in Nat /\ DOMAIN Incident[a] = 1 .. Len(Incident[a])
    BY <1>1
  <2> QED
    BY <2>1 DEF Range
<1>3. DOMAIN h = D /\ \A t \in D : h[t] = alloc * Conductance[a][t]
  BY DEF HebbianShare
<1>4. p = [t \in D \cup I |-> IF t \in D THEN [num |-> h[t], den |-> Whole(a)]
                              ELSE [num |-> l, den |-> Whole(a) * Len(Incident[a])]]
  BY <1>3 DEF ProbabilityVector
<1>5. l \in Nat
  <2> DEFINE x == alloc * Total(Conductance[a])
  <2>1. Whole(a) \in Nat /\ Total(Conductance[a]) \in Nat /\ x <= Whole(a)
    BY WholeFacts
  <2>2. x \in Nat
    BY <2>1
  <2> HIDE DEF x
  <2> QED
    BY <2>1, <2>2 DEF x
<1> HIDE DEF p, h, l, D, I
<1>6. DOMAIN p = D \cup I
  BY <1>4
<1>7. ASSUME NEW t \in D PROVE p[t].num = alloc * Conductance[a][t] /\ p[t].den = Whole(a)
  <2>1. p[t] = [num |-> h[t], den |-> Whole(a)]
    BY <1>4
  <2> QED
    BY <2>1, <1>3
<1>8. ASSUME NEW t \in DOMAIN p \ D
      PROVE  /\ p[t].num = l /\ p[t].den = Whole(a) * Len(Incident[a])
             /\ Len(Incident[a]) \in Nat \ {0}
  <2>1. p[t] = [num |-> l, den |-> Whole(a) * Len(Incident[a])] /\ t \in I
    BY <1>4
  <2> QED
    BY <2>1, <1>2
<1> QED
  BY <1>1, <1>5, <1>6, <1>7, <1>8 DEF p, D, I, l

\* The atoms of a set in the order of their handles are all different.
LEMMA InOrderDistinct ==
    ASSUME NEW S \in SUBSET Atoms, NEW s \in InOrder(S)
    PROVE  \A i, j \in DOMAIN s : s[i] = s[j] => i = j
<1>1. IsFiniteSet(S) /\ Cardinality(S) \in Nat
  BY GraphAssumption, FS_Subset, FS_CardinalityType
<1>2. s \in [1 .. Cardinality(S) -> S] /\ \A i, j \in DOMAIN s : i < j => HandleOrder[s[i]] < HandleOrder[s[j]]
  BY DEF InOrder
<1>3. \A i \in DOMAIN s : i \in Nat /\ HandleOrder[s[i]] \in Nat
  BY <1>1, <1>2, GraphAssumption
<1> QED
  BY <1>2, <1>3

\* No more atoms are incident than are listed.
LEMMA RangeCount ==
    ASSUME NEW S, NEW s \in Seq(S)
    PROVE  IsFiniteSet(Range(s)) /\ Cardinality(Range(s)) \in Nat /\ Cardinality(Range(s)) <= Len(s)
<1>1. DOMAIN s = 1 .. Len(s) /\ Len(s) \in Nat
  OBVIOUS
<1>2. IsFiniteSet(DOMAIN s) /\ Cardinality(DOMAIN s) = Len(s)
  <2>1. IsFiniteSet(1 .. Len(s)) /\ Cardinality(1 .. Len(s)) = IF 1 > Len(s) THEN 0 ELSE Len(s) - 1 + 1
    BY <1>1, FS_Interval
  <2> QED
    BY <1>1, <2>1
<1>3. Range(s) = {s[i] : i \in DOMAIN s}
  BY DEF Range
<1>4. s \in Surjection(DOMAIN s, Range(s))
  BY <1>3 DEF Surjection
<1>5. IsFiniteSet(Range(s)) /\ Cardinality(Range(s)) <= Cardinality(DOMAIN s)
  BY <1>2, <1>4, FS_Surjection
<1> QED
  BY <1>2, <1>5, FS_CardinalityType

\* The first k of the events e are pushed.
Pushed(s, e, k) == s \o SubSeq(e, 1, k)

\* They are pushed one after the other.
LEMMA PushOne ==
    ASSUME NEW s \in Seq(Event), NEW e \in Seq(Event)
    PROVE  /\ Pushed(s, e, 0) = s /\ Pushed(s, e, Len(e)) = s \o e
           /\ \A k \in 0 .. Len(e) - 1 : /\ Pushed(s, e, k) \in Seq(Event) /\ e[k + 1] \in Event
                                         /\ Pushed(s, e, k + 1) = Append(Pushed(s, e, k), e[k + 1])
<1>1. Len(e) \in Nat /\ DOMAIN e = 1 .. Len(e) /\ Len(s) \in Nat
  OBVIOUS
<1>2. SubSeq(e, 1, 0) = <<>> /\ SubSeq(e, 1, Len(e)) = e /\ s \o <<>> = s
  OBVIOUS
<1>3. ASSUME NEW k \in 0 .. Len(e) - 1
      PROVE  /\ s \o SubSeq(e, 1, k) \in Seq(Event) /\ e[k + 1] \in Event
             /\ s \o SubSeq(e, 1, k + 1) = Append(s \o SubSeq(e, 1, k), e[k + 1])
  <2> DEFINE u == SubSeq(e, 1, k)
             v == SubSeq(e, 1, k + 1)
  <2>1. k \in Nat /\ k + 1 \in Nat /\ k + 1 \in 1 .. Len(e) /\ \A i \in 1 .. k + 1 : i \in DOMAIN e /\ e[i] \in Event
    BY <1>1
  <2>2. /\ u \in Seq(Event) /\ Len(u) = k /\ \A i \in 1 .. k : u[i] = e[i]
        /\ v \in Seq(Event) /\ Len(v) = k + 1 /\ \A i \in 1 .. k + 1 : v[i] = e[i]
    BY <2>1, SubSeqProperties
  <2> HIDE DEF u, v
  <2>3. v = Append(u, e[k + 1])
    <3>1. /\ Append(u, e[k + 1]) \in Seq(Event) /\ Len(Append(u, e[k + 1])) = k + 1
          /\ Append(u, e[k + 1])[k + 1] = e[k + 1] /\ \A i \in 1 .. k : Append(u, e[k + 1])[i] = u[i]
      BY <2>1, <2>2, AppendProperties
    <3>2. \A i \in 1 .. k + 1 : v[i] = Append(u, e[k + 1])[i]
      BY <2>1, <2>2, <3>1
    <3> QED
      BY <2>2, <3>1, <3>2, SeqEqual
  <2>4. s \o Append(u, e[k + 1]) = Append(s \o u, e[k + 1])
    <3> DEFINE x == s \o Append(u, e[k + 1])
               y == Append(s \o u, e[k + 1])
    <3>1. e[k + 1] \in Event
      BY <2>1
    <3>2. x \in Seq(Event) /\ y \in Seq(Event) /\ Len(x) = Len(s) + k + 1 /\ Len(y) = Len(s) + k + 1
      BY <3>1, <2>1, <2>2, <1>1, ConcatProperties, AppendProperties
    <3>3. \A i \in 1 .. Len(x) : x[i] = y[i]
      BY <3>1, <2>1, <2>2, <1>1
    <3> HIDE DEF x, y
    <3> QED
      BY <3>2, <3>3, SeqEqual DEF x, y
  <2>5. s \o u \in Seq(Event)
    BY <2>2, ConcatProperties
  <2> QED
    BY <2>1, <2>3, <2>4, <2>5 DEF u, v
<1> QED
  BY <1>2, <1>3 DEF Pushed

\* Events of another source take nothing.
LEMMA OwedToOthers ==
    ASSUME NEW s \in Seq(Event), NEW e \in Seq(Event), NEW b, \A i \in DOMAIN e : e[i].source # b
    PROVE  Owed(s \o e, b) = Owed(s, b)
<1> DEFINE P == {k \in Nat : k <= Len(e) => Owed(Pushed(s, e, k), b) = Owed(s, b)}
<1>0. Len(e) \in Nat /\ DOMAIN e = 1 .. Len(e) /\ Owed(s, b) \in Int
  BY OwedType
<1>1. 0 \in P
  BY PushOne
<1>2. ASSUME NEW k \in Nat, k \in P PROVE k + 1 \in P
  <2> SUFFICES ASSUME k + 1 <= Len(e) PROVE Owed(Pushed(s, e, k + 1), b) = Owed(s, b)
    OBVIOUS
  <2>1. k \in 0 .. Len(e) - 1 /\ k + 1 \in DOMAIN e
    BY <1>0
  <2>2. /\ Pushed(s, e, k) \in Seq(Event) /\ e[k + 1] \in Event
        /\ Pushed(s, e, k + 1) = Append(Pushed(s, e, k), e[k + 1])
    BY <2>1, PushOne
  <2>3. Owed(Pushed(s, e, k + 1), b) = Owed(Pushed(s, e, k), b) + Due(e[k + 1], b)
    <3> HIDE DEF P
    <3>1. Owed(Append(Pushed(s, e, k), e[k + 1]), b) = Owed(Pushed(s, e, k), b) + Due(e[k + 1], b)
      BY ONLY <2>2, OwedAppend
    <3> QED
      BY ONLY <2>2, <3>1
  <2>4. Due(e[k + 1], b) = 0
    BY <2>1 DEF Due
  <2>5. Owed(Pushed(s, e, k), b) = Owed(s, b)
    BY <1>2, <2>1, <1>0
  <2> QED
    BY <2>3, <2>4, <2>5, <1>0
<1>3. \A k \in Nat : k \in P
  <2> HIDE DEF P
  <2> QED
    BY <1>1, <1>2, SetInduction
<1>4. Owed(Pushed(s, e, Len(e)), b) = Owed(s, b)
  BY <1>0, <1>3
<1>5. Pushed(s, e, Len(e)) = s \o e
  BY PushOne
<1> QED
  BY <1>4, <1>5

\* The arithmetic of shares: D parts in all, of which those counted so far have
\* u * S for the neighbours and l * c for the others.
LEMMA NeighbourShare ==
    ASSUME NEW total \in Nat, NEW u \in Nat, NEW l \in Nat, NEW S \in Nat, NEW c \in Nat, NEW x \in Nat,
           NEW D \in Nat, NEW G \in Nat, NEW m \in Nat,
           D * G <= total * (u * S + l * c), D * m <= total * (u * x)
    PROVE  D * (G + m) <= total * (u * (x + S) + l * c)
<1>1. D * (G + m) = D * G + D * m
  OBVIOUS
<1>2. u * (x + S) + l * c = (u * S + l * c) + u * x
  OBVIOUS
<1> DEFINE y == u * S + l * c
           z == u * x
<1>3. y \in Nat /\ z \in Nat
  OBVIOUS
<1> HIDE DEF y, z
<1>4. total * (y + z) = total * y + total * z
  BY <1>3
<1>5. D * G \in Nat /\ D * m \in Nat /\ total * y \in Nat /\ total * z \in Nat
  BY <1>3
<1>6. D * G + D * m <= total * (y + z)
  BY <1>4, <1>5 DEF y, z
<1> QED
  BY <1>1, <1>2, <1>6 DEF y, z

\* The same for an atom that is no neighbour.
LEMMA OtherShare ==
    ASSUME NEW total \in Nat, NEW u \in Nat, NEW l \in Nat, NEW S \in Nat, NEW c \in Nat,
           NEW D \in Nat, NEW G \in Nat, NEW m \in Nat,
           D * G <= total * (u * S + l * c), D * m <= total * l
    PROVE  D * (G + m) <= total * (u * S + l * (c + 1))
<1>1. D * (G + m) = D * G + D * m
  OBVIOUS
<1>2. u * S + l * (c + 1) = (u * S + l * c) + l
  OBVIOUS
<1> DEFINE y == u * S + l * c
<1>3. y \in Nat
  OBVIOUS
<1> HIDE DEF y
<1>4. total * (y + l) = total * y + total * l
  BY <1>3
<1>5. D * G \in Nat /\ D * m \in Nat /\ total * y \in Nat /\ total * l \in Nat
  BY <1>3
<1>6. D * G + D * m <= total * (y + l)
  BY <1>4, <1>5 DEF y
<1> QED
  BY <1>1, <1>2, <1>6 DEF y

\* When all are counted, the shares are at most the total.
LEMMA AllShares ==
    ASSUME NEW total \in Nat, NEW alloc \in Nat, NEW W \in Nat \ {0}, NEW L \in Nat \ {0}, NEW T \in Nat,
           alloc * T <= W, NEW S \in Nat, S <= T, NEW c \in Nat, c <= L, NEW G \in Nat,
           (W * L) * G <= total * ((L * alloc) * S + (W - alloc * T) * c)
    PROVE  G <= total
<1> DEFINE q == alloc * T
           l == W - q
           u == L * alloc
           D == W * L
<1>1. q \in Nat /\ l \in Nat /\ u \in Nat
  <2>1. q \in Nat
    OBVIOUS
  <2> HIDE DEF q
  <2>2. q <= W
    BY DEF q
  <2> QED
    BY <2>1, <2>2
<1>2. D \in Nat \ {0}
  OBVIOUS
<1>3. u * S <= u * T /\ l * c <= l * L
  <2> HIDE DEF u, l
  <2> QED
    BY <1>1, TimesGrows
<1>4. u * T + l * L = D
  <2>1. u * T = L * q
    OBVIOUS
  <2>2. L * q + l * L = W * L
    <3> HIDE DEF q
    <3> QED
      BY <1>1
  <2> QED
    BY <2>1, <2>2
<1> HIDE DEF u, l, D
<1>5. u * S + l * c <= D /\ u * S + l * c \in Nat
  <2>1. u * S \in Nat /\ l * c \in Nat /\ u * T \in Nat /\ l * L \in Nat
    BY <1>1
  <2> QED
    BY <2>1, <1>3, <1>4
<1>6. total * (u * S + l * c) <= total * D
  BY <1>2, <1>5, TimesGrows
<1>7. D * G <= total * D
  <2>1. D * G <= total * (u * S + l * c)
    BY DEF D, u, l, q
  <2>2. D * G \in Nat /\ total * D \in Nat /\ total * (u * S + l * c) \in Nat
    BY <1>2, <1>5
  <2> QED
    BY <2>1, <2>2, <1>6
<1>8. ASSUME G > total PROVE FALSE
  <2>1. D * (total + 1) <= D * G
    BY <1>2, <1>8, TimesGrows
  <2>2. D * (total + 1) = total * D + D
    BY <1>2
  <2>3. total * D \in Nat /\ D * G \in Nat
    BY <1>2
  <2> QED
    BY <2>1, <2>2, <2>3, <1>2, <1>7
<1> QED
  BY <1>8

\* What diffuseAtom pushes for a source adds up to no more than it was given to
\* spread, although each event is computed as if it were the only one.
LEMMA SpreadWithin ==
    ASSUME NEW a \in Atoms, NEW alloc \in 0 .. 100, NEW total \in Nat,
           NEW events \in DiffusionEvents(a, total, alloc),
           NEW stack \in Seq(Event), \A i \in DOMAIN stack : stack[i].source # a
    PROVE  /\ \A i \in DOMAIN events : events[i].source = a /\ events[i].amount \in Nat
           /\ Owed(stack \o events, a) <= total
<1> DEFINE p == ProbabilityVector(a, alloc)
           E(t) == [source |-> a, target |-> t, amount |-> Cut(total * p[t].num, p[t].den)]
           N == DOMAIN Conductance[a]
           C == Conductance[a]
           T == Total(Conductance[a])
           W == Whole(a)
           I == Range(Incident[a])
           L == IF Len(Incident[a]) = 0 THEN 1 ELSE Len(Incident[a])
           l == W - alloc * T
           u == L * alloc
           D == W * L
<1>1. PICK order \in InOrder(DOMAIN p) : events = [i \in DOMAIN order |-> E(order[i])]
  BY DEF DiffusionEvents
<1>2. /\ IsFiniteSet(N) /\ \A t \in N : C[t] \in 0 .. 100
      /\ T = SumOn(C, N) /\ T \in Nat /\ W \in Nat \ {0} /\ alloc * T <= W
  BY WholeFacts
<1>0. \A t \in N : C[t] \in Nat
  <2>1. 0 .. 100 \subseteq Nat
    OBVIOUS
  <2>2. \A t \in N : C[t] \in 0 .. 100
    BY <1>2
  <2> HIDE DEF N, C
  <2> QED
    BY <2>1, <2>2, Zenon
<1>3. /\ DOMAIN p = N \cup I /\ Incident[a] \in Seq(Atoms) /\ l \in Nat
      /\ \A t \in N : p[t].num = alloc * C[t] /\ p[t].den = W
      /\ \A t \in DOMAIN p \ N : p[t].num = l /\ p[t].den = W * L /\ Len(Incident[a]) \in Nat \ {0}
  BY ShareFacts
<1>4. L \in Nat \ {0} /\ Len(Incident[a]) <= L /\ alloc \in Nat
  BY <1>3
<1>5. D \in Nat \ {0} /\ u \in Nat
  <2> HIDE DEF W, L
  <2> QED
    BY <1>2, <1>4
<1>6. events \in Seq(Event)
  BY <1>4, EventsType
<1>7. DOMAIN p \subseteq Atoms
  BY <1>4, VectorType
<1>8. /\ order \in Seq(Atoms) /\ \A i \in DOMAIN order : order[i] \in DOMAIN p
      /\ \A i, j \in DOMAIN order : order[i] = order[j] => i = j
  BY <1>7, InOrderType, InOrderDistinct
<1>9. DOMAIN order = 1 .. Len(order) /\ Len(order) \in Nat /\ DOMAIN events = DOMAIN order /\ Len(events) = Len(order)
  BY <1>1, <1>6, <1>8
<1> HIDE DEF p, N, C, T, W, I, L, l, u, D
<1>10. ASSUME NEW t \in DOMAIN p
       PROVE  /\ E(t).source = a /\ E(t).amount \in Nat
              /\ t \in N => D * E(t).amount <= total * (u * C[t])
              /\ t \notin N => D * E(t).amount <= total * l
  <2> DEFINE m == Cut(total * p[t].num, p[t].den)
  <2>1. E(t).source = a /\ E(t).amount = m
    OBVIOUS
  <2> HIDE DEF E
  <2>2. CASE t \in N
    <3>1. p[t].num = alloc * C[t] /\ p[t].den = W /\ C[t] \in Nat
      BY <2>2, <1>0, <1>3
    <3> DEFINE x == total * (alloc * C[t])
    <3>2. x \in Nat
      BY <3>1, <1>4
    <3>3. m = Cut(x, W)
      BY <3>1
    <3> HIDE DEF m, x
    <3>4. m \in Nat /\ W * m <= x
      BY <3>2, <3>3, <1>2, CutBound
    <3>5. L * (W * m) <= L * x
      <4>1. W * m \in Nat
        BY <3>4, <1>2
      <4> QED
        BY <4>1, <3>2, <3>4, <1>4, TimesGrows
    <3>6. L * (W * m) = D * m
      BY <3>4, <1>2, <1>4 DEF D
    <3>7. L * x = total * (u * C[t])
      BY <3>1, <1>4 DEF x, u
    <3> QED
      BY <2>1, <2>2, <3>4, <3>5, <3>6, <3>7
  <2>3. CASE t \notin N
    <3>1. p[t].num = l /\ p[t].den = D
      BY <2>3, <1>3 DEF D
    <3> DEFINE x == total * l
    <3>2. x \in Nat
      BY <1>3
    <3>3. m = Cut(x, D)
      BY <3>1
    <3> HIDE DEF m, x
    <3>4. m \in Nat /\ D * m <= x
      BY <3>2, <3>3, <1>5, CutBound
    <3> QED
      BY <2>1, <2>3, <3>4 DEF x
  <2> QED
    BY <2>2, <2>3
<1>11. \A i \in DOMAIN events : events[i] = E(order[i])
  BY <1>1
<1> HIDE DEF E
<1>12. \A i \in DOMAIN events : events[i].source = a /\ events[i].amount \in Nat
  BY <1>8, <1>9, <1>10, <1>11
<1> DEFINE Served(k) == {order[i] : i \in 1 .. k}
           H(k) == Served(k) \cap N
           J(k) == Served(k) \ N
           G(k) == Owed(Pushed(stack, events, k), a)
           Bound(k) == /\ G(k) \in Nat /\ IsFiniteSet(J(k))
                       /\ D * G(k) <= total * (u * SumOn(C, H(k)) + l * Cardinality(J(k)))
           P == {k \in Nat : k <= Len(events) => Bound(k)}
<1>13. ASSUME NEW s \in SUBSET N PROVE IsFiniteSet(s) /\ SumOn(C, s) \in Nat
  <2>1. IsFiniteSet(s) /\ \A t \in s : C[t] \in 0 .. 100
    BY <1>2, FS_Subset
  <2>2. 100 \in Nat
    OBVIOUS
  <2> QED
    BY <2>1, <2>2, SumBound
<1>14. 0 \in P
  <2>1. G(0) = 0
    BY <1>6, PushOne, OwedType
  <2>2. H(0) = {} /\ J(0) = {}
    OBVIOUS
  <2>3. IsFiniteSet({}) /\ Cardinality({}) = 0
    BY FS_EmptySet
  <2>4. SumOn(C, {}) \in Nat
    BY <1>13
  <2>5. total * (u * SumOn(C, {}) + l * 0) \in Nat /\ D * 0 = 0
    BY <2>4, <1>3, <1>5
  <2> HIDE DEF G, H, J
  <2>6. D * G(0) = 0
    BY <2>1, <2>5
  <2>7. total * (u * SumOn(C, H(0)) + l * Cardinality(J(0))) \in Nat
    BY <2>2, <2>3, <2>5
  <2> DEFINE x == D * G(0)
             y == total * (u * SumOn(C, H(0)) + l * Cardinality(J(0)))
  <2>8. Bound(0)
    <3>1. G(0) \in Nat
      BY <2>1
    <3>2. IsFiniteSet(J(0))
      BY <2>2, <2>3
    <3>3. x = 0 /\ y \in Nat
      BY <2>6, <2>7
    <3> HIDE DEF x, y
    <3>4. x <= y
      BY <3>3
    <3> QED
      BY <3>1, <3>2, <3>4 DEF x, y
  <2> QED
    BY <2>8
<1>15. ASSUME NEW k \in Nat, k \in P PROVE k + 1 \in P
  <2> SUFFICES ASSUME k + 1 <= Len(events) PROVE Bound(k + 1)
    OBVIOUS
  <2> DEFINE t == order[k + 1]
             m == E(t).amount
  <2>1. k \in 0 .. Len(events) - 1 /\ k + 1 \in DOMAIN order /\ k + 1 \in DOMAIN events
    BY <1>9
  <2>2. t \in DOMAIN p
    BY <2>1, <1>8
  <2>3. /\ E(t).source = a /\ m \in Nat
        /\ t \in N => D * m <= total * (u * C[t])
        /\ t \notin N => D * m <= total * l
    BY <2>2, <1>10
  <2>4. G(k + 1) = G(k) + m
    <3>1. /\ Pushed(stack, events, k) \in Seq(Event) /\ events[k + 1] \in Event
          /\ Pushed(stack, events, k + 1) = Append(Pushed(stack, events, k), events[k + 1])
      BY <2>1, <1>6, PushOne
    <3>2. Owed(Pushed(stack, events, k + 1), a) = Owed(Pushed(stack, events, k), a) + Due(events[k + 1], a)
      <4> HIDE DEF P, Bound, G, H, J, Served
      <4>1. Owed(Append(Pushed(stack, events, k), events[k + 1]), a) = Owed(Pushed(stack, events, k), a) + Due(events[k + 1], a)
        BY ONLY <3>1, OwedAppend
      <4> QED
        BY ONLY <3>1, <4>1
    <3>3. Due(events[k + 1], a) = m
      BY <2>1, <2>3, <1>11 DEF Due
    <3> QED
      BY <3>2, <3>3
  <2>5. Served(k + 1) = Served(k) \cup {t} /\ t \notin Served(k)
    <3>1. 1 .. k + 1 = (1 .. k) \cup {k + 1}
      OBVIOUS
    <3>2. \A i \in 1 .. k : i \in DOMAIN order /\ i # k + 1
      BY <2>1, <1>9
    <3>3. \A i \in 1 .. k : order[i] # t
      BY <2>1, <3>2, <1>8
    <3> QED
      BY <3>1, <3>3
  <2>6. Bound(k)
    BY <2>1, <1>9, <1>15
  <2> DEFINE S == SumOn(C, H(k))
             c == Cardinality(J(k))
  <2>7. S \in Nat /\ IsFiniteSet(H(k)) /\ c \in Nat /\ G(k) \in Nat /\ IsFiniteSet(J(k)) /\ D * G(k) <= total * (u * S + l * c)
    <3>1. H(k) \in SUBSET N
      OBVIOUS
    <3> HIDE DEF H, J, G
    <3> QED
      BY <3>1, <2>6, <1>13, FS_CardinalityType
  <2>8. CASE t \in N
    <3>1. H(k + 1) = H(k) \cup {t} /\ J(k + 1) = J(k) /\ t \notin H(k) /\ H(k + 1) \in SUBSET N
      BY <2>5, <2>8
    <3> HIDE DEF H, J, G, Served, t, m
    <3>2. IsFiniteSet(H(k + 1)) /\ \A x \in H(k + 1) : C[x] \in Int
      BY <3>1, <1>0, <1>13
    <3>3. SumOn(C, H(k + 1)) = C[t] + SumOn(C, H(k + 1) \ {t})
      BY <3>1, <3>2, SumAnyOrder
    <3>4. H(k + 1) \ {t} = H(k)
      BY <3>1
    <3>5. SumOn(C, H(k + 1)) = C[t] + S /\ C[t] \in Nat
      BY <3>3, <3>4, <2>8, <1>0
    <3> HIDE DEF S, c
    <3>6. D * (G(k) + m) <= total * (u * (C[t] + S) + l * c)
      BY <2>3, <2>7, <2>8, <3>5, <1>3, <1>5, NeighbourShare
    <3>7. G(k + 1) \in Nat /\ IsFiniteSet(J(k + 1)) /\ Cardinality(J(k + 1)) = c
      BY <2>3, <2>4, <2>7, <3>1 DEF c
    <3> QED
      BY <2>4, <3>5, <3>6, <3>7
  <2>9. CASE t \notin N
    <3>1. H(k + 1) = H(k) /\ J(k + 1) = J(k) \cup {t} /\ t \notin J(k)
      BY <2>5, <2>9
    <3> HIDE DEF H, J, G, Served, t, m
    <3>2. IsFiniteSet(J(k + 1)) /\ Cardinality(J(k + 1)) = c + 1
      BY <3>1, <2>7, FS_AddElement
    <3>3. SumOn(C, H(k + 1)) = S
      BY <3>1
    <3> HIDE DEF S, c
    <3>4. D * (G(k) + m) <= total * (u * S + l * (c + 1))
      BY <2>3, <2>7, <2>9, <1>3, <1>5, OtherShare
    <3>5. G(k + 1) \in Nat
      BY <2>3, <2>4, <2>7
    <3> QED
      BY <2>4, <3>2, <3>3, <3>4, <3>5
  <2> QED
    BY <2>8, <2>9
<1>16. \A k \in Nat : k \in P
  <2> HIDE DEF P
  <2> QED
    BY <1>14, <1>15, SetInduction
<1> DEFINE n == Len(events)
<1>17. Bound(n)
  <2> HIDE DEF Bound
  <2> QED
    BY <1>9, <1>16
<1>18. H(n) \in SUBSET N /\ J(n) \subseteq I
  BY <1>3, <1>8, <1>9
<1>19. G(n) = Owed(stack \o events, a)
  BY <1>6, PushOne
<1> HIDE DEF H, J, G, Served, n
<1>20. SumOn(C, H(n)) \in Nat /\ SumOn(C, H(n)) <= T
  <2>1. SumOn(C, H(n)) <= SumOn(C, N)
    BY <1>0, <1>2, <1>18, SumGrows
  <2> QED
    BY <2>1, <1>2, <1>13, <1>18
<1>21. Cardinality(J(n)) \in Nat /\ Cardinality(J(n)) <= L
  <2>1. IsFiniteSet(I) /\ Cardinality(I) \in Nat /\ Cardinality(I) <= Len(Incident[a])
    BY <1>3, RangeCount DEF I
  <2>2. IsFiniteSet(J(n)) /\ Cardinality(J(n)) <= Cardinality(I)
    BY <2>1, <1>18, FS_Subset
  <2>3. Cardinality(J(n)) \in Nat /\ Len(Incident[a]) \in Nat
    BY <2>2, <1>3, FS_CardinalityType
  <2> QED
    BY <2>1, <2>2, <2>3, <1>4
<1>22. G(n) \in Nat /\ (W * L) * G(n) <= total * ((L * alloc) * SumOn(C, H(n)) + (W - alloc * T) * Cardinality(J(n)))
  BY <1>17 DEF D, u, l
<1>23. G(n) <= total
  BY <1>2, <1>4, <1>20, <1>21, <1>22, AllShares
<1> QED
  BY <1>12, <1>19, <1>23

-----------------------------------------------------------------------------
(* A run of the AF spreader alone overdraws no atom.                         *)

AF == "AFImportanceDiffusion"

\* How far below zero an atom may come, in halves of a part.
Grace == IF maxSpreadPercentage <= 50 THEN 0 ELSE Unit
Enough(value, x) == 2 * x <= 2 * value + Grace

\* Each atom has what the events on the stack will take from it.
Covered(value, stack) == \A a \in Atoms : Enough(value[a], Owed(stack, a))

\* The events on the stack are covered, but for the one whose source has paid;
\* the atoms still to be diffused are no sources of them and have what they had.
SpreadOK(value, t) ==
    /\ \A i \in DOMAIN t.stack : t.stack[i].amount \in Nat
    /\ t.pc = "diffuse" => /\ \A i, j \in DOMAIN t.todo : t.todo[i] = t.todo[j] => i = j
                           /\ \A i \in DOMAIN t.todo, j \in DOMAIN t.stack : t.stack[j].source # t.todo[i]
                           /\ \A a \in Atoms : value[a] >= 0
    /\ t.pc \in {"diffuse", "readSource", "writeSource"} => Covered(value, t.stack)
    /\ t.pc \in {"readTarget", "writeTarget"} => Covered(value, Front(t.stack))

\* The other agents rest, and the run is on its way.
AllPaid ==
    /\ \A k \in Agents : k # AF => thread[k].pc = "idle"
    /\ \A a \in Atoms : Enough(sti[a], 0)
    /\ SpreadOK(sti, thread[AF])
    /\ FreshOK(sti, thread[AF])

Solvent == clean => AllPaid

\* Events of natural amounts take a natural amount.
LEMMA OwedNat ==
    ASSUME NEW stack \in Seq(Event), \A i \in DOMAIN stack : stack[i].amount \in Nat, NEW a
    PROVE  Owed(stack, a) \in Nat
<1> DEFINE f == OwedBy(stack, a)
<1>1. IsFiniteSet(DOMAIN stack) /\ Owed(stack, a) \in Int
  BY OwedType
<1>2. \A i \in DOMAIN stack : f[i] \in Nat
  BY DEF OwedBy
<1> HIDE DEF f
<1>3. SumOn(f, {}) <= SumOn(f, DOMAIN stack)
  BY <1>1, <1>2, SumGrows
<1>4. SumOn(f, {}) = 0
  BY FS_EmptySet, SumRecursion
<1> QED
  BY <1>1, <1>3, <1>4 DEF Owed, f

\* Who is who.
LEMMA Who ==
    /\ AF \in Agents /\ AF \in Spreaders /\ Agents = Spreaders \cup Collectors
    /\ AF \notin Collectors
BY DEF AF, Agents, Spreaders, Collectors

\* The grace is a natural number.
LEMMA GraceType == Grace \in Nat /\ Grace <= Unit /\ (maxSpreadPercentage <= 50 => Grace = 0)
BY Parameters DEF Grace

\* The AF spreader moves: the others rest.
LEMMA SolventStep ==
    ASSUME AttentionInv, AllPaid, NEW t, thread' = [thread EXCEPT ![AF] = t],
           \A a \in Atoms : Enough(sti'[a], 0), SpreadOK(sti', t), FreshOK(sti', t)
    PROVE  AllPaid'
<1>1. thread'[AF] = t /\ \A k \in Agents : k # AF => thread'[k] = thread[k]
  BY Who DEF AttentionInv, ThreadsOK
<1>2. \A k \in Agents : k # AF => thread'[k].pc = "idle"
  BY <1>1 DEF AllPaid
<1>3. SpreadOK(sti', thread'[AF]) /\ FreshOK(sti', thread'[AF])
  BY <1>1
<1> QED
  BY <1>2, <1>3 DEF AllPaid

\* A clean run begins: its sources are different, and the stack is empty.
LEMMA SolventBeginSpread ==
    ASSUME AttentionInv, NEW g \in Spreaders, BeginSpread(g), clean'
    PROVE  AllPaid'
<1>2. PICK sources \in IF g = "AFImportanceDiffusion"
                       THEN AttentionalFocus ELSE {{a} : a \in Atoms} \cup {{}} :
        \E s \in InOrder(removeHebbianLinks(sources)) :
          Begin(g, IF s = <<>> THEN Idle ELSE [Idle EXCEPT !.pc = "diffuse", !.todo = s])
  BY DEF BeginSpread
<1>3. PICK s \in InOrder(removeHebbianLinks(sources)) :
          Begin(g, IF s = <<>> THEN Idle ELSE [Idle EXCEPT !.pc = "diffuse", !.todo = s])
  BY <1>2
<1> DEFINE t == IF s = <<>> THEN Idle ELSE [Idle EXCEPT !.pc = "diffuse", !.todo = s]
<1>1. /\ g = AF /\ (\A k \in Agents : thread[k].pc = "idle") /\ \A a \in Atoms : sti[a] >= 0
      /\ thread' = [thread EXCEPT ![g] = t] /\ UNCHANGED sti
  BY <1>3 DEF Begin, AF
<1>4. removeHebbianLinks(sources) \in SUBSET Atoms
  BY FocusType DEF removeHebbianLinks
<1>5. \A i, j \in DOMAIN s : s[i] = s[j] => i = j
  BY <1>4, InOrderDistinct
<1>6. t.stack = <<>> /\ t.pc \in {"idle", "diffuse"} /\ (t.pc = "diffuse" => t.todo = s)
  BY DEF Idle
<1> HIDE DEF t
<1>7. \A a \in Atoms : sti[a] \in Int /\ Enough(sti[a], 0)
  BY <1>1, GraceType DEF AttentionInv, BankOK, Enough
<1>8. \A a \in Atoms : Owed(<<>>, a) = 0
  <2>1. <<>> \in Seq(Event) /\ DOMAIN <<>> = {}
    OBVIOUS
  <2> QED
    BY <2>1, OwedType
<1>9. Covered(sti, t.stack)
  BY <1>6, <1>7, <1>8 DEF Covered
<1>10. SpreadOK(sti', t) /\ FreshOK(sti', t)
  BY <1>1, <1>5, <1>6, <1>9 DEF SpreadOK, FreshOK
<1>11. thread'[AF] = t /\ \A k \in Agents : k # AF => thread'[k] = thread[k]
  BY <1>1, Who DEF AttentionInv, ThreadsOK
<1>12. \A k \in Agents : k # AF => thread'[k].pc = "idle"
  BY <1>1, <1>11
<1>13. \A a \in Atoms : Enough(sti'[a], 0)
  BY <1>1, <1>7
<1> QED
  BY <1>10, <1>11, <1>12, <1>13 DEF AllPaid

\* What the AF spreader diffuses is no more than the atom has, or round() makes
\* it half an STI more.
LEMMA AmountWithin ==
    ASSUME BankOK, NEW a \in Atoms, sti[a] >= 0, NEW total \in calculateDiffusionAmount(AF, a)
    PROVE  total \in Nat /\ Enough(sti[a], total)
<1>1. sti[a] \in Nat /\ maxSpreadPercentage \in 0 .. 100 /\ Unit \in Nat \ {0}
  BY ParameterAssumption DEF BankOK
<1> DEFINE y == sti[a] * maxSpreadPercentage
           x == 2 * sti[a] * maxSpreadPercentage + 100 * Unit
           d == 200 * Unit
           c == Cut(x, d)
           u == Unit * c
<1>2. total = u
  BY <1>1 DEF calculateDiffusionAmount, AF
<1>3. y \in Nat /\ x = 2 * y + 100 * Unit /\ d \in Nat \ {0}
  BY <1>1
<1>4. y <= sti[a] * 100 /\ (maxSpreadPercentage <= 50 => y <= sti[a] * 50)
  BY <1>1, TimesGrows
<1> HIDE DEF y, x
<1>5. x \in Nat
  BY <1>1, <1>3
<1>6. c \in Nat /\ d * c <= x
  <2> HIDE DEF d
  <2> QED
    BY <1>3, <1>5, CutBound
<1> HIDE DEF c
<1>7. u \in Nat /\ d * c = 200 * u
  BY <1>1, <1>6
<1>8. 200 * u <= 2 * y + 100 * Unit
  BY <1>3, <1>6, <1>7
<1>9. u = 0 \/ Unit <= u
  <2>1. CASE c = 0
    BY <2>1, <1>1
  <2>2. CASE c # 0
    <3>1. Unit * 1 <= Unit * c
      BY <2>2, <1>1, <1>6, TimesGrows
    <3> QED
      BY <3>1, <1>1
  <2> QED
    BY <2>1, <2>2
<1> HIDE DEF u
<1>10. 2 * u <= 2 * sti[a] + Unit
  BY <1>1, <1>3, <1>4, <1>7, <1>8
<1>11. maxSpreadPercentage <= 50 => u <= sti[a]
  BY <1>1, <1>3, <1>4, <1>7, <1>8, <1>9
<1> QED
  BY <1>1, <1>2, <1>7, <1>10, <1>11 DEF Enough, Grace

\* The first element and the rest of a sequence without repetitions.
LEMMA HeadApart ==
    ASSUME NEW S, NEW s \in Seq(S), s # <<>>, \A i, j \in DOMAIN s : s[i] = s[j] => i = j
    PROVE  LET r == Tail(s) IN
           /\ \A i, j \in DOMAIN r : r[i] = r[j] => i = j
           /\ \A i \in DOMAIN r : r[i] # Head(s) /\ \E j \in DOMAIN s : r[i] = s[j]
<1> DEFINE r == Tail(s)
<1>1. Len(s) \in Nat \ {0} /\ DOMAIN s = 1 .. Len(s) /\ Head(s) = s[1]
  OBVIOUS
<1>2. r \in Seq(S) /\ Len(r) = Len(s) - 1 /\ DOMAIN r = 1 .. Len(s) - 1 /\ \A i \in 1 .. Len(s) - 1 : r[i] = s[i + 1]
  BY <1>1
<1> HIDE DEF r
<1>3. \A i \in DOMAIN r : i + 1 \in DOMAIN s /\ i + 1 # 1 /\ r[i] = s[i + 1] /\ 1 \in DOMAIN s /\ i \in Nat
  BY <1>1, <1>2
<1>4. ASSUME NEW i \in DOMAIN r, NEW j \in DOMAIN r, r[i] = r[j] PROVE i = j
  <2>1. i + 1 = j + 1 /\ i \in Nat /\ j \in Nat
    BY <1>3, <1>4
  <2> QED
    BY <2>1
<1>5. ASSUME NEW i \in DOMAIN r PROVE r[i] # Head(s) /\ \E j \in DOMAIN s : r[i] = s[j]
  BY <1>1, <1>3
<1> QED
  BY <1>4, <1>5 DEF r

\* The events of one more source are covered.
LEMMA SolventDiffuse ==
    ASSUME AttentionInv, AllPaid, NEW g \in Spreaders, diffuseAtom(g)
    PROVE  AllPaid'
<1> DEFINE th == thread[g]
           a == Head(th.todo)
           rest == Tail(th.todo)
<1>0. BankOK /\ ThreadsOK /\ th.pc = "diffuse" /\ UNCHANGED sti
  BY DEF AttentionInv, diffuseAtom
<1>1. g = AF /\ g \in Agents
  BY <1>0, Who DEF AllPaid
<1>2. th \in Thread /\ ThreadOK(g, th)
  BY <1>0, <1>1 DEF ThreadsOK
<1>3. th.todo \in Seq(Atoms) /\ th.todo # <<>> /\ th.stack \in Seq(Event)
  BY <1>0, <1>2 DEF Thread, ThreadOK
<1>4. a \in Atoms /\ rest \in Seq(Atoms)
  BY <1>3, HeadAndTail
<1>5. PICK total \in calculateDiffusionAmount(g, a) :
        \E events \in IF total = 0 THEN {<<>>} ELSE DiffusionEvents(a, total, HebbianAllocation(g)) :
          thread' = [thread EXCEPT ![g].todo = rest, ![g].stack = th.stack \o events,
                       ![g].pc = IF rest # <<>> THEN "diffuse"
                                 ELSE IF th.stack \o events = <<>> THEN "idle" ELSE "readSource"]
  BY DEF diffuseAtom
<1>6. PICK events \in IF total = 0 THEN {<<>>} ELSE DiffusionEvents(a, total, HebbianAllocation(g)) :
          thread' = [thread EXCEPT ![g].todo = rest, ![g].stack = th.stack \o events,
                       ![g].pc = IF rest # <<>> THEN "diffuse"
                                 ELSE IF th.stack \o events = <<>> THEN "idle" ELSE "readSource"]
  BY <1>5
<1> DEFINE st == th.stack \o events
           p == IF rest # <<>> THEN "diffuse" ELSE IF st = <<>> THEN "idle" ELSE "readSource"
           t == [th EXCEPT !.todo = rest, !.stack = st, !.pc = p]
<1>7. thread' = [thread EXCEPT ![g] = t]
  BY <1>0, <1>1, <1>6 DEF ThreadsOK, Thread
<1>8. /\ \A i, j \in DOMAIN th.todo : th.todo[i] = th.todo[j] => i = j
      /\ \A i \in DOMAIN th.todo, j \in DOMAIN th.stack : th.stack[j].source # th.todo[i]
      /\ Covered(sti, th.stack) /\ \A i \in DOMAIN th.stack : th.stack[i].amount \in Nat
      /\ \A b \in Atoms : sti[b] >= 0 /\ Enough(sti[b], 0)
  BY <1>0, <1>1 DEF AllPaid, SpreadOK
<1>9. total \in Nat /\ Enough(sti[a], total) /\ sti[a] \in Int
  BY <1>0, <1>1, <1>4, <1>5, <1>8, AmountWithin DEF BankOK
<1>10. HebbianAllocation(g) \in 0 .. 100
  BY <1>1, ParameterAssumption DEF HebbianAllocation, AF
<1>11. events \in Seq(Event)
  <2>1. CASE total = 0
    BY <2>1
  <2>2. CASE total # 0
    <3>1. events \in DiffusionEvents(a, total, HebbianAllocation(g))
      BY <2>2
    <3>2. HebbianAllocation(g) \in Nat
      BY Parameters
    <3>3. total \in Int
      BY <1>0, <1>4, <1>5, AmountType
    <3> QED
      BY <3>1, <3>2, <3>3, <1>4, EventsType
  <2> QED
    BY <2>1, <2>2
<1>12. \A j \in DOMAIN th.stack : th.stack[j].source # a
  <2>1. 1 \in DOMAIN th.todo /\ a = th.todo[1]
    BY <1>3
  <2> QED
    BY <2>1, <1>8
<1>13. /\ \A i, j \in DOMAIN rest : rest[i] = rest[j] => i = j
       /\ \A i \in DOMAIN rest : rest[i] # a /\ \E j \in DOMAIN th.todo : rest[i] = th.todo[j]
  BY <1>3, <1>8, HeadApart
<1>14. t.todo = rest /\ t.stack = st /\ t.pc = p
  BY <1>2 DEF Thread
<1> HIDE DEF t, rest, a, th
<1>15. /\ \A i \in DOMAIN events : events[i].source = a /\ events[i].amount \in Nat
       /\ Enough(sti[a], Owed(st, a))
  <2>1. CASE total = 0
    <3>1. events = <<>>
      BY <2>1
    <3>2. st = th.stack /\ DOMAIN events = {}
      BY <3>1, <1>3
    <3> HIDE DEF st
    <3> QED
      BY <3>2, <1>4, <1>8 DEF Covered
  <2>2. CASE total # 0
    <3>1. events \in DiffusionEvents(a, total, HebbianAllocation(g))
      BY <2>2
    <3>2. /\ \A i \in DOMAIN events : events[i].source = a /\ events[i].amount \in Nat
          /\ Owed(st, a) <= total
      BY <3>1, <1>3, <1>4, <1>9, <1>10, <1>12, SpreadWithin
    <3>3. st \in Seq(Event)
      BY <1>3, <1>11, ConcatProperties
    <3>4. Owed(st, a) \in Int
      BY <3>3, OwedType
    <3> HIDE DEF st
    <3> QED
      BY <3>2, <3>4, <1>9, GraceType DEF Enough
  <2> QED
    BY <2>1, <2>2
<1>16. ASSUME NEW b \in Atoms PROVE Enough(sti[b], Owed(st, b))
  <2>1. CASE b = a
    BY <2>1, <1>15
  <2>2. CASE b # a
    <3>1. \A i \in DOMAIN events : events[i].source # b
      BY <2>2, <1>15
    <3>2. Owed(st, b) = Owed(th.stack, b)
      BY <3>1, <1>3, <1>11, OwedToOthers
    <3> HIDE DEF st
    <3> QED
      BY <3>2, <1>8 DEF Covered
  <2> QED
    BY <2>1, <2>2
<1>17. \A i \in DOMAIN st : /\ st[i].amount \in Nat
                            /\ st[i].source = a \/ \E j \in DOMAIN th.stack : st[i].source = th.stack[j].source
  <2>1. /\ Len(th.stack) \in Nat /\ Len(events) \in Nat
        /\ DOMAIN th.stack = 1 .. Len(th.stack) /\ DOMAIN events = 1 .. Len(events)
    BY <1>3, <1>11
  <2>2. /\ DOMAIN st = 1 .. Len(th.stack) + Len(events)
        /\ \A i \in DOMAIN st : st[i] = IF i <= Len(th.stack) THEN th.stack[i] ELSE events[i - Len(th.stack)]
    BY <1>3, <1>11, <2>1, ConcatProperties
  <2> HIDE DEF st
  <2> SUFFICES ASSUME NEW i \in DOMAIN st
               PROVE  /\ st[i].amount \in Nat
                      /\ st[i].source = a \/ \E j \in DOMAIN th.stack : st[i].source = th.stack[j].source
    OBVIOUS
  <2>3. CASE i <= Len(th.stack)
    <3>1. i \in DOMAIN th.stack /\ st[i] = th.stack[i]
      BY <2>1, <2>2, <2>3
    <3> QED
      BY <3>1, <1>8
  <2>4. CASE ~(i <= Len(th.stack))
    <3>1. i - Len(th.stack) \in DOMAIN events /\ st[i] = events[i - Len(th.stack)]
      BY <2>1, <2>2, <2>4
    <3> QED
      BY <3>1, <1>15
  <2> QED
    BY <2>3, <2>4
<1>18. Covered(sti, st)
  BY <1>16 DEF Covered
<1>19. p \in {"diffuse", "idle", "readSource"}
  OBVIOUS
<1> HIDE DEF st, p
<1>20. SpreadOK(sti, t)
  BY <1>8, <1>13, <1>14, <1>17, <1>18, <1>19 DEF SpreadOK
<1>21. SpreadOK(sti', t) /\ FreshOK(sti', t) /\ \A b \in Atoms : Enough(sti'[b], 0)
  BY <1>0, <1>8, <1>14, <1>19, <1>20 DEF FreshOK
<1> QED
  BY <1>1, <1>7, <1>21, SolventStep

\* A read changes nothing but the place.
LEMMA SolventRead ==
    ASSUME AttentionInv, AllPaid, NEW g \in Spreaders, NEW x, NEW p, Read(g, x, p),
           \/ thread[g].pc = "readSource" /\ p = "writeSource" /\ x = Top(g).source
           \/ thread[g].pc = "readTarget" /\ p = "writeTarget" /\ x = Top(g).target
    PROVE  AllPaid'
<1> DEFINE th == thread[g]
           t == [th EXCEPT !.reg = sti[x], !.pc = p]
<1>1. g = AF /\ g \in Agents
  BY Who DEF AllPaid
<1>2. th \in Thread /\ thread \in [Agents -> Thread]
  BY <1>1 DEF AttentionInv, ThreadsOK
<1>3. thread' = [thread EXCEPT ![g] = t] /\ UNCHANGED sti
  BY <1>2 DEF Read, Thread
<1>4. t.pc = p /\ t.stack = th.stack /\ t.reg = sti[x]
  BY <1>2 DEF Thread
<1> HIDE DEF t
<1>5. SpreadOK(sti, t) /\ FreshOK(sti, t)
  BY <1>1, <1>4 DEF AllPaid, SpreadOK, FreshOK, Top
<1>6. SpreadOK(sti', t) /\ FreshOK(sti', t) /\ \A a \in Atoms : Enough(sti'[a], 0)
  BY <1>3, <1>5 DEF AllPaid
<1> QED
  BY <1>1, <1>3, <1>6, SolventStep

\* The events but the last one are of natural amounts too.
LEMMA FrontAmounts ==
    ASSUME NEW s \in Seq(Event), s # <<>>, \A i \in DOMAIN s : s[i].amount \in Nat
    PROVE  /\ Last(s) \in Event /\ Front(s) \in Seq(Event) /\ Last(s).amount \in Nat
           /\ \A i \in DOMAIN Front(s) : Front(s)[i].amount \in Nat
<1>1. Last(s) \in Event /\ Front(s) \in Seq(Event)
  BY LastAndFront
<1>2. Len(s) \in Nat \ {0} /\ DOMAIN s = 1 .. Len(s)
  OBVIOUS
<1> DEFINE n == Len(s) - 1
<1>3. n \in Nat /\ \A i \in 1 .. n : i \in DOMAIN s /\ s[i] \in Event
  BY <1>2
<1> HIDE DEF n
<1>4. Front(s) = SubSeq(s, 1, n)
  BY DEF Front, n
<1>5. Len(Front(s)) = n /\ \A i \in 1 .. n : Front(s)[i] = s[i]
  BY <1>3, <1>4, SubSeqProperties
<1>6. DOMAIN Front(s) = 1 .. n
  BY <1>1, <1>5
<1>7. Last(s).amount \in Nat
  BY <1>2 DEF Last
<1> QED
  BY <1>1, <1>3, <1>5, <1>6, <1>7

\* The source pays what it has set aside for the event.
LEMMA SolventWriteSource ==
    ASSUME AttentionInv, AllPaid, NEW g \in Spreaders, WriteSource(g)
    PROVE  AllPaid'
<1> DEFINE th == thread[g]
           a == Top(g).source
           x == Top(g).amount
           t == [th EXCEPT !.reg = 0, !.pc = "readTarget"]
<1>0. BankOK /\ ThreadsOK /\ th.pc = "writeSource" /\ sti' = [sti EXCEPT ![a] = th.reg - x]
  BY DEF AttentionInv, WriteSource, Write
<1>1. g = AF /\ g \in Agents
  BY <1>0, Who DEF AllPaid
<1>2. th \in Thread /\ ThreadOK(g, th)
  BY <1>0, <1>1 DEF ThreadsOK
<1>3. th.stack \in Seq(Event) /\ th.stack # <<>>
  BY <1>0, <1>2 DEF Thread, ThreadOK
<1>4. Covered(sti, th.stack) /\ \A i \in DOMAIN th.stack : th.stack[i].amount \in Nat
  BY <1>0, <1>1 DEF AllPaid, SpreadOK
<1> DEFINE st == Front(th.stack)
<1>5. /\ Top(g) = Last(th.stack) /\ a \in Atoms /\ x \in Nat /\ st \in Seq(Event)
      /\ \A i \in DOMAIN st : st[i].amount \in Nat
  BY <1>3, <1>4, FrontAmounts DEF Top, Event
<1>6. thread' = [thread EXCEPT ![g] = t]
  BY <1>0, <1>1 DEF WriteSource, ThreadsOK, Thread
<1>7. t.pc = "readTarget" /\ t.stack = th.stack
  BY <1>2 DEF Thread
<1>8. th.reg = sti[a]
  BY <1>0, <1>1, <1>5 DEF AllPaid, FreshOK
<1> HIDE DEF t, st, a, x
<1>9. ASSUME NEW b \in Atoms PROVE Enough(sti'[b], Owed(st, b)) /\ Enough(sti'[b], 0)
  <2>1. Owed(th.stack, b) = Owed(st, b) + Due(Last(th.stack), b)
    BY <1>3, OwedLast DEF st
  <2>2. Owed(st, b) \in Nat /\ Enough(sti[b], Owed(th.stack, b)) /\ sti[b] \in Int
    BY <1>0, <1>4, <1>5, OwedNat DEF Covered, BankOK
  <2>3. CASE b = a
    <3>1. Due(Last(th.stack), b) = x
      BY <2>3, <1>5 DEF Due, a, x
    <3>2. sti'[b] = sti[b] - x
      BY <2>3, <1>0, <1>5, <1>8 DEF BankOK
    <3> QED
      BY <2>1, <2>2, <3>1, <3>2, <1>5, GraceType DEF Enough
  <2>4. CASE b # a
    <3>1. Due(Last(th.stack), b) = 0
      BY <2>4, <1>5 DEF Due, a
    <3>2. sti'[b] = sti[b]
      BY <2>4, <1>0 DEF BankOK
    <3> QED
      BY <2>1, <2>2, <3>1, <3>2, GraceType DEF Enough
  <2> QED
    BY <2>3, <2>4
<1>10. SpreadOK(sti', t) /\ FreshOK(sti', t)
  BY <1>4, <1>7, <1>9 DEF SpreadOK, FreshOK, Covered, st
<1> QED
  BY <1>1, <1>6, <1>9, <1>10, SolventStep

\* The target has more, and the event is gone.
LEMMA SolventWriteTarget ==
    ASSUME AttentionInv, AllPaid, NEW g \in Spreaders, WriteTarget(g)
    PROVE  AllPaid'
<1> DEFINE th == thread[g]
           a == Top(g).target
           x == Top(g).amount
           st == Front(th.stack)
           t == IF st = <<>> THEN Idle ELSE [Idle EXCEPT !.pc = "readSource", !.stack = st]
<1>0. BankOK /\ ThreadsOK /\ th.pc = "writeTarget" /\ sti' = [sti EXCEPT ![a] = th.reg + x]
  BY DEF AttentionInv, WriteTarget, Write
<1>1. g = AF /\ g \in Agents
  BY <1>0, Who DEF AllPaid
<1>2. th \in Thread /\ ThreadOK(g, th)
  BY <1>0, <1>1 DEF ThreadsOK
<1>3. th.stack \in Seq(Event) /\ th.stack # <<>>
  BY <1>0, <1>2 DEF Thread, ThreadOK
<1>4. Covered(sti, st) /\ \A i \in DOMAIN th.stack : th.stack[i].amount \in Nat
  BY <1>0, <1>1 DEF AllPaid, SpreadOK
<1>5. /\ Top(g) = Last(th.stack) /\ a \in Atoms /\ x \in Nat /\ st \in Seq(Event)
      /\ \A i \in DOMAIN st : st[i].amount \in Nat
  BY <1>3, <1>4, FrontAmounts DEF Top, Event
<1>6. thread' = [thread EXCEPT ![g] = t]
  BY DEF WriteTarget, Popped
<1>7. t.pc \in {"idle", "readSource"} /\ t.stack = st
  <2> HIDE DEF st
  <2> QED
    BY DEF Idle
<1>8. th.reg = sti[a]
  BY <1>0, <1>1, <1>5 DEF AllPaid, FreshOK
<1> HIDE DEF t, st, a, x
<1>9. ASSUME NEW b \in Atoms PROVE Enough(sti'[b], Owed(st, b)) /\ Enough(sti'[b], 0)
  <2>1. Owed(st, b) \in Nat /\ Enough(sti[b], Owed(st, b)) /\ sti[b] \in Int
    BY <1>0, <1>4, <1>5, OwedNat DEF Covered, BankOK
  <2>2. sti'[b] = IF b = a THEN sti[b] + x ELSE sti[b]
    BY <1>0, <1>5, <1>8 DEF BankOK
  <2> QED
    BY <2>1, <2>2, <1>5, GraceType DEF Enough
<1>10. SpreadOK(sti', t) /\ FreshOK(sti', t)
  BY <1>5, <1>7, <1>9 DEF SpreadOK, FreshOK, Covered
<1> QED
  BY <1>1, <1>6, <1>9, <1>10, SolventStep

\* Only the AF spreader moves on in a clean run.
LEMMA OthersRest ==
    ASSUME AllPaid, NEW g \in Agents, thread[g].pc # "idle"
    PROVE  g = AF
BY DEF AllPaid

\* A run of the AF spreader that overlaps no other and begins with no atom below
\* zero takes none below zero, whatever the graph and the STI, if the agent may
\* spread half of an atom's STI at most, and else none by more than the half STI
\* that round() may add: the shares diffuseAtom computes for all sources before
\* any trade add up, for each, to no more than calculateDiffusionAmount gave it.
THEOREM SpreadSolventSafety == Spec => []SpreadSolvent
<1>1. Init => Solvent
  BY DEF Init, Solvent
<1>2. AttentionInv /\ Solvent /\ [Next]_vars => Solvent'
  <2> SUFFICES ASSUME AttentionInv, Solvent, [Next]_vars, clean' PROVE AllPaid'
    BY DEF Solvent
  <2>0. CASE UNCHANGED vars
    <3>1. UNCHANGED <<sti, thread, clean>>
      BY <2>0 DEF vars
    <3> QED
      BY <3>1 DEF AllPaid, Solvent
  <2>1. ASSUME NEW g \in Spreaders, BeginSpread(g) \/ SpreadStep(g) PROVE AllPaid'
    <3>1. CASE BeginSpread(g)
      BY <3>1, SolventBeginSpread
    <3>2. CASE SpreadStep(g)
      <4>1. UNCHANGED clean
        BY <3>2 DEF SpreadStep, diffuseAtom, ReadSource, ReadTarget, Read, WriteSource, WriteTarget, Write
      <4>2. AllPaid
        BY <4>1 DEF Solvent
      <4>3. CASE diffuseAtom(g)
        BY <4>2, <4>3, SolventDiffuse
      <4>4. CASE ReadSource(g)
        BY <4>2, <4>4, SolventRead DEF ReadSource
      <4>5. CASE WriteSource(g)
        BY <4>2, <4>5, SolventWriteSource
      <4>6. CASE ReadTarget(g)
        BY <4>2, <4>6, SolventRead DEF ReadTarget
      <4>7. CASE WriteTarget(g)
        BY <4>2, <4>7, SolventWriteTarget
      <4> QED
        BY <3>2, <4>3, <4>4, <4>5, <4>6, <4>7 DEF SpreadStep
    <3> QED
      BY <2>1, <3>1, <3>2
  <2>2. ASSUME NEW g \in Collectors, BeginRent(g) \/ RentStep(g) PROVE FALSE
    <3>1. g # AF /\ g \in Agents
      BY Who
    <3>2. CASE BeginRent(g)
      BY <3>1, <3>2 DEF BeginRent, Begin, AF
    <3>3. CASE RentStep(g)
      <4>1. UNCHANGED clean /\ thread[g].pc # "idle"
        BY <3>3 DEF RentStep, ReadRent, WriteRent, Write
      <4> QED
        BY <4>1, <3>1, OthersRest DEF Solvent
    <3> QED
      BY <2>2, <3>2, <3>3
  <2> QED
    BY <2>0, <2>1, <2>2 DEF Next
<1>3. AttentionInv /\ Solvent => SpreadSolvent
  <2> SUFFICES ASSUME AttentionInv, AllPaid, NEW a \in Atoms
               PROVE  2 * sti[a] >= -Unit /\ (maxSpreadPercentage <= 50 => sti[a] >= 0)
    BY DEF Solvent, SpreadSolvent
  <2>1. sti[a] \in Int /\ Enough(sti[a], 0)
    BY DEF AttentionInv, BankOK, AllPaid
  <2> QED
    BY <2>1, GraceType, Parameters DEF Enough
<1> QED
  BY <1>1, <1>2, <1>3, AttentionInvariant, PTL DEF Spec
============================================================================
