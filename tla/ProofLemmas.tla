----------------------------- MODULE ProofLemmas -----------------------------
(***************************************************************************)
(* What the proofs of several modules need: induction over the naturals    *)
(* and over finite sets, in which the statement to prove is a set (of the  *)
(* numbers or subsets for which it holds), facts about the sequences that  *)
(* the models use as queues, sums of functions over sets, smallest and     *)
(* largest elements, division, and loops.                                  *)
(***************************************************************************)
EXTENDS Integers, Sequences, SequencesExt, FiniteSetTheorems, SequenceTheorems, TLAPS

\* A nonempty family of finite sets has a member without a smaller one.
LEMMA SmallestSet ==
    ASSUME NEW S, NEW F, F \subseteq FiniteSubsetsOf(S), F # {}
    PROVE  \E x \in F : \A y \in F : y \subseteq x => y = x
<1>1. PICK x \in F : \A y \in F : ~(<<y, x>> \in StrictSubsetOrdering(S))
  BY FS_StrictSubsetOrderingWellFounded, WFMin
<1>2. \A y \in F : y \in SUBSET S
  BY DEF FiniteSubsetsOf
<1> QED
  BY <1>1, <1>2 DEF StrictSubsetOrdering

\* Induction over the subsets of a finite set: G holds the sets that are fine.
LEMMA FiniteSetInduction ==
    ASSUME NEW S, IsFiniteSet(S), NEW G, {} \in G,
           \A T \in SUBSET S : \A x \in S \ T : T \in G => T \union {x} \in G
    PROVE  \A T \in SUBSET S : T \in G
<1> DEFINE Bad == {T \in SUBSET S : T \notin G}
<1> SUFFICES Bad = {}
  OBVIOUS
<1>1. Bad \subseteq FiniteSubsetsOf(S)
  BY FS_Subset DEF FiniteSubsetsOf
<1>2. SUFFICES ASSUME Bad # {} PROVE FALSE
  OBVIOUS
<1>3. \E T \in Bad : \A U \in Bad : U \subseteq T => U = T
  <2> HIDE DEF Bad
  <2> QED BY <1>1, <1>2, SmallestSet
<1>4. PICK T \in Bad : \A U \in Bad : U \subseteq T => U = T
  BY <1>3
<1>5. PICK x \in T : TRUE
  BY <1>4
<1>6. T \ {x} \in SUBSET S /\ x \in S \ (T \ {x}) /\ T \ {x} # T
  BY <1>5
<1>7. T \ {x} \in G
  BY <1>4, <1>6
<1>8. (T \ {x}) \union {x} = T
  BY <1>5
<1> QED
  BY <1>6, <1>7, <1>8

\* Induction over the naturals: G holds the numbers that are fine.
LEMMA NaturalInduction ==
    ASSUME NEW G, 0 \in G, \A k \in Nat : k \in G => k + 1 \in G
    PROVE  \A k \in Nat : k \in G
<1> DEFINE Bad == {1 .. k : k \in Nat \ G}
<1> SUFFICES Bad = {}
  OBVIOUS
<1>1. Bad \subseteq FiniteSubsetsOf(Nat)
  <2> SUFFICES ASSUME NEW k \in Nat PROVE 1 .. k \in FiniteSubsetsOf(Nat)
    OBVIOUS
  <2>1. IsFiniteSet(1 .. k)
    BY FS_Interval
  <2>2. 1 .. k \in SUBSET Nat
    OBVIOUS
  <2> QED BY <2>1, <2>2 DEF FiniteSubsetsOf
<1>2. SUFFICES ASSUME Bad # {} PROVE FALSE
  OBVIOUS
<1>3. \E s \in Bad : \A t \in Bad : t \subseteq s => t = s
  <2> HIDE DEF Bad
  <2> QED BY <1>1, <1>2, SmallestSet
<1>4. PICK k \in Nat \ G : \A t \in Bad : t \subseteq 1 .. k => t = 1 .. k
  BY <1>3
<1>5. k # 0 /\ k - 1 \in Nat /\ (k - 1) + 1 = k
  OBVIOUS
<1>6. k - 1 \notin G
  BY <1>5
<1>7. 1 .. (k - 1) \in Bad
  BY <1>5, <1>6
<1>8. 1 .. (k - 1) \subseteq 1 .. k /\ k \in 1 .. k /\ k \notin 1 .. (k - 1)
  BY <1>5
<1> QED
  BY <1>4, <1>7, <1>8

-----------------------------------------------------------------------------
\* The members of a queue after one joined it, and that nobody is in it twice.
LEMMA AppendQueue ==
    ASSUME NEW S, NEW s \in Seq(S), NEW x \in S
    PROVE  /\ Append(s, x) \in Seq(S) /\ Append(s, x) # << >>
           /\ ToSet(Append(s, x)) = ToSet(s) \union {x}
           /\ IsInjective(s) /\ x \notin ToSet(s) => IsInjective(Append(s, x))
<1>1. /\ Append(s, x) \in Seq(S) /\ Append(s, x) # << >>
      /\ DOMAIN Append(s, x) = 1 .. Len(s) + 1 /\ DOMAIN s = 1 .. Len(s) /\ Len(s) \in Nat
      /\ \A i \in 1 .. Len(s) : Append(s, x)[i] = s[i]
      /\ Append(s, x)[Len(s) + 1] = x
  BY AppendProperties, LenProperties
<1>2. ToSet(Append(s, x)) = ToSet(s) \union {x}
  BY <1>1 DEF ToSet
<1>3. ASSUME IsInjective(s), x \notin ToSet(s)
      PROVE  IsInjective(Append(s, x))
  BY <1>1, <1>3 DEF ToSet, IsInjective
<1> QED
  BY <1>1, <1>2, <1>3

\* The same after the first has left it.
LEMMA TailQueue ==
    ASSUME NEW S, NEW s \in Seq(S), s # << >>
    PROVE  /\ Head(s) \in S /\ Head(s) \in ToSet(s) /\ Tail(s) \in Seq(S)
           /\ ToSet(s) = ToSet(Tail(s)) \union {Head(s)}
           /\ IsInjective(s) => IsInjective(Tail(s)) /\ Head(s) \notin ToSet(Tail(s))
<1>1. /\ Head(s) \in S /\ Tail(s) \in Seq(S)
      /\ Len(s) \in Nat \ {0} /\ DOMAIN s = 1 .. Len(s) /\ DOMAIN Tail(s) = 1 .. Len(s) - 1
      /\ \A i \in 1 .. Len(s) - 1 : Tail(s)[i] = s[i + 1]
      /\ Head(s) = s[1]
  BY HeadTailProperties, LenProperties, EmptySeq
<1>2. \A i \in 1 .. Len(s) : i # 1 => i - 1 \in 1 .. Len(s) - 1 /\ (i - 1) + 1 = i
  BY <1>1
<1>3. ToSet(s) = ToSet(Tail(s)) \union {Head(s)}
  <2>1. \A i \in 1 .. Len(s) : i # 1 => s[i] = Tail(s)[i - 1]
    BY <1>1, <1>2
  <2>2. \A i \in 1 .. Len(s) - 1 : i + 1 \in 1 .. Len(s)
    BY <1>1
  <2>3. 1 \in 1 .. Len(s)
    BY <1>1
  <2>4. ASSUME NEW y \in ToSet(s) PROVE y \in ToSet(Tail(s)) \union {Head(s)}
    <3>1. PICK i \in 1 .. Len(s) : y = s[i]
      BY <1>1 DEF ToSet
    <3>2. CASE i = 1
      BY <1>1, <3>1, <3>2
    <3>3. CASE i # 1
      BY <1>1, <1>2, <2>1, <3>1, <3>3 DEF ToSet
    <3> QED BY <3>2, <3>3
  <2>5. ASSUME NEW y \in ToSet(Tail(s)) PROVE y \in ToSet(s)
    <3>1. PICK i \in 1 .. Len(s) - 1 : y = Tail(s)[i]
      BY <1>1 DEF ToSet
    <3> QED BY <1>1, <2>2, <3>1 DEF ToSet
  <2>6. Head(s) \in ToSet(s)
    BY <1>1, <2>3 DEF ToSet
  <2> QED BY <2>4, <2>5, <2>6
<1>4. ASSUME IsInjective(s)
      PROVE  IsInjective(Tail(s)) /\ Head(s) \notin ToSet(Tail(s))
  BY <1>1, <1>4 DEF ToSet, IsInjective
<1> QED
  BY <1>1, <1>3, <1>4

\* A sequence without repetitions is as long as its set is large.
LEMMA SequenceSize ==
    ASSUME NEW S, NEW s \in Seq(S)
    PROVE  /\ IsFiniteSet(ToSet(s)) /\ Cardinality(ToSet(s)) <= Len(s)
           /\ IsInjective(s) => Cardinality(ToSet(s)) = Len(s)
<1>1. s \in [1 .. Len(s) -> ToSet(s)] /\ Len(s) \in Nat
  BY DEF ToSet
<1>2. \A x \in ToSet(s) : \E i \in 1 .. Len(s) : s[i] = x
  BY DEF ToSet
<1>3. s \in Surjection(1 .. Len(s), ToSet(s))
  BY <1>1, <1>2 DEF Surjection
<1>4. IsFiniteSet(1 .. Len(s)) /\ Cardinality(1 .. Len(s)) = Len(s)
  <2>1. Cardinality(1 .. Len(s)) = IF 1 > Len(s) THEN 0 ELSE Len(s) - 1 + 1
    BY <1>1, FS_Interval
  <2> QED BY <1>1, <2>1, FS_Interval
<1>5. IsInjective(s) => s \in Injection(1 .. Len(s), ToSet(s))
  BY <1>1 DEF IsInjective, Injection
<1>6. /\ IsFiniteSet(ToSet(s)) /\ Cardinality(ToSet(s)) <= Cardinality(1 .. Len(s))
      /\ Cardinality(ToSet(s)) = Cardinality(1 .. Len(s)) <=> s \in Injection(1 .. Len(s), ToSet(s))
  BY <1>3, <1>4, FS_Surjection
<1> QED
  BY <1>4, <1>5, <1>6

\* A queue that is not empty has a member.
LEMMA QueueMember ==
    ASSUME NEW S, NEW s \in Seq(S)
    PROVE  /\ ToSet(s) \subseteq S
           /\ s = << >> <=> ToSet(s) = {}
<1>1. DOMAIN s = 1 .. Len(s) /\ Len(s) \in Nat /\ (s # << >> => Len(s) # 0)
  BY LenProperties, EmptySeq
<1>2. s # << >> => s[1] \in ToSet(s)
  BY <1>1 DEF ToSet
<1>3. ToSet(s) \subseteq S
  BY <1>1, ElementOfSeq DEF ToSet
<1>4. s = << >> => ToSet(s) = {}
  BY <1>1, EmptySeq DEF ToSet
<1> QED
  BY <1>2, <1>3, <1>4

-----------------------------------------------------------------------------
(* Sums.  The library's fold is a recursive function on the subsets of the *)
(* set that is summed over; that there is one is proved by induction on    *)
(* their size, what it computes by looking at a smallest exception.        *)

Chosen(T) == CHOOSE x \in T : TRUE

\* h sums g over the subsets of S, taking out one element after another.
Sums(h, g, S) ==
    h = [T \in SUBSET S |-> IF T = {} THEN 0 ELSE g[Chosen(T)] + h[T \ {Chosen(T)}]]

LEMMA ChosenIn == \A T : T # {} => Chosen(T) \in T
BY DEF Chosen

LEMMA SumIsSums == \A g, S : SumFunctionOnSet(g, S) = (CHOOSE h : Sums(h, g, S))[S]
BY DEF SumFunctionOnSet, FoldFunctionOnSet, MapThenFoldSet, Sums, Chosen

\* There is such a function.
LEMMA SumsExists ==
    ASSUME NEW S, IsFiniteSet(S), NEW g
    PROVE  \E h : Sums(h, g, S)
<1> DEFINE P == SUBSET S
           Small(k) == {T \in P : Cardinality(T) <= k}
           Step(h, T) == IF T = {} THEN 0 ELSE g[Chosen(T)] + h[T \ {Chosen(T)}]
           G == {k \in Nat : \E h : h = [T \in Small(k) |-> Step(h, T)]}
<1>1. \A T \in P : /\ IsFiniteSet(T) /\ Cardinality(T) \in Nat
                   /\ Cardinality(T) <= Cardinality(S)
                   /\ T # {} => /\ T \ {Chosen(T)} \in P
                                /\ Cardinality(T \ {Chosen(T)}) = Cardinality(T) - 1
                   /\ Cardinality(T) = 0 => T = {}
  <2> TAKE T \in P
  <2>1. IsFiniteSet(T) /\ Cardinality(T) \in Nat /\ Cardinality(T) <= Cardinality(S)
    BY FS_Subset, FS_CardinalityType
  <2>2. ASSUME T # {}
        PROVE  /\ T \ {Chosen(T)} \in P
               /\ Cardinality(T \ {Chosen(T)}) = Cardinality(T) - 1
    BY <2>1, <2>2, ChosenIn, FS_RemoveElement
  <2> QED BY <2>1, <2>2, FS_EmptySet
<1>2. Cardinality(S) \in Nat /\ S \in P
  BY FS_CardinalityType
<1> HIDE DEF P
<1>3. 0 \in G
  <2> DEFINE h == [T \in Small(0) |-> 0]
  <2>1. \A T \in Small(0) : T = {}
    <3> TAKE T \in Small(0)
    <3>1. T \in P /\ Cardinality(T) <= 0
      OBVIOUS
    <3> HIDE DEF Small
    <3>2. Cardinality(T) \in Nat
      BY <1>1, <3>1
    <3>3. Cardinality(T) = 0
      BY <3>1, <3>2
    <3> QED BY <1>1, <3>1, <3>3
  <2>2. h = [T \in Small(0) |-> Step(h, T)]
    BY <2>1
  <2> HIDE DEF h, Step, Small
  <2>3. \E f : f = [T \in Small(0) |-> Step(f, T)]
    BY <2>2
  <2> QED BY <2>3
<1>4. ASSUME NEW k \in Nat, k \in G
      PROVE  k + 1 \in G
  <2>1. PICK h : h = [T \in Small(k) |-> Step(h, T)]
    BY <1>4
  <2> DEFINE h2 == [T \in Small(k + 1) |-> Step(h, T)]
  <2>2. \A T \in Small(k) : h[T] = Step(h, T)
    BY <2>1
  <2>3. \A T \in Small(k) : T \in Small(k + 1)
    <3> TAKE T \in Small(k)
    <3>1. T \in P /\ Cardinality(T) <= k
      OBVIOUS
    <3>2. Cardinality(T) \in Nat
      BY <1>1, <3>1
    <3> QED BY <3>1, <3>2
  <2>4. \A T \in Small(k) : h2[T] = h[T]
    BY <2>2, <2>3
  <2>5. \A T \in Small(k + 1) : T # {} => T \ {Chosen(T)} \in Small(k)
    BY <1>1
  <2>6. \A T \in Small(k + 1) : Step(h, T) = Step(h2, T)
    BY <2>4, <2>5
  <2>7. h2 = [T \in Small(k + 1) |-> Step(h2, T)]
    BY <2>6
  <2> HIDE DEF h2, Step, Small
  <2>8. \E f : f = [T \in Small(k + 1) |-> Step(f, T)]
    BY <2>7
  <2> QED BY <2>8
<1>5. Cardinality(S) \in G
  <2> HIDE DEF G
  <2>1. \A k \in Nat : k \in G
    BY <1>3, <1>4, NaturalInduction
  <2> QED BY <2>1, <1>2
<1>6. Small(Cardinality(S)) = P
  BY <1>1
<1> QED
  BY <1>5, <1>6 DEF Sums, P

\* Two of them agree where both are defined: on a smallest set on which they
\* do not, they would agree after its chosen element was taken out.
LEMMA SumsAgree ==
    ASSUME NEW S, IsFiniteSet(S), NEW R \in SUBSET S, NEW g, NEW h, NEW f,
           Sums(h, g, S), Sums(f, g, R)
    PROVE  \A T \in SUBSET R : f[T] = h[T]
<1> DEFINE Bad == {T \in SUBSET R : f[T] # h[T]}
<1> SUFFICES Bad = {}
  OBVIOUS
<1>1. Bad \subseteq FiniteSubsetsOf(S)
  BY FS_Subset DEF FiniteSubsetsOf
<1>2. SUFFICES ASSUME Bad # {} PROVE FALSE
  OBVIOUS
<1>3. \E T \in Bad : \A U \in Bad : U \subseteq T => U = T
  <2> HIDE DEF Bad
  <2> QED BY <1>1, <1>2, SmallestSet
<1>4. PICK T \in Bad : \A U \in Bad : U \subseteq T => U = T
  BY <1>3
<1>5. /\ f[T] = IF T = {} THEN 0 ELSE g[Chosen(T)] + f[T \ {Chosen(T)}]
      /\ h[T] = IF T = {} THEN 0 ELSE g[Chosen(T)] + h[T \ {Chosen(T)}]
  BY <1>4 DEF Sums
<1>6. CASE T = {}
  BY <1>4, <1>5, <1>6
<1>7. CASE T # {}
  <2>1. T \ {Chosen(T)} \in SUBSET R /\ T \ {Chosen(T)} # T
    BY <1>4, <1>7, ChosenIn
  <2>2. f[T \ {Chosen(T)}] = h[T \ {Chosen(T)}]
    BY <1>4, <2>1
  <2> QED BY <1>4, <1>5, <1>7, <2>2
<1> QED
  BY <1>6, <1>7

\* The sum over a set is a value of g more than the sum over the others.
LEMMA SumStep ==
    ASSUME NEW S, IsFiniteSet(S), NEW g
    PROVE  /\ SumFunctionOnSet(g, {}) = 0
           /\ S # {} => SumFunctionOnSet(g, S) =
                           g[Chosen(S)] + SumFunctionOnSet(g, S \ {Chosen(S)})
<1> DEFINE H(R) == CHOOSE h : Sums(h, g, R)
<1>1. \A R \in SUBSET S : Sums(H(R), g, R) /\ SumFunctionOnSet(g, R) = H(R)[R]
  <2> TAKE R \in SUBSET S
  <2>1. \E h : Sums(h, g, R)
    BY SumsExists, FS_Subset
  <2> QED BY <2>1, SumIsSums
<1> HIDE DEF H
<1>2. SumFunctionOnSet(g, {}) = 0
  BY <1>1 DEF Sums
<1>3. ASSUME S # {}
      PROVE  SumFunctionOnSet(g, S) = g[Chosen(S)] + SumFunctionOnSet(g, S \ {Chosen(S)})
  <2> DEFINE R == S \ {Chosen(S)}
  <2>1. R \in SUBSET S /\ R \in SUBSET R
    OBVIOUS
  <2>2. H(S)[S] = g[Chosen(S)] + H(S)[R]
    BY <1>1, <1>3 DEF Sums
  <2>3. H(R)[R] = H(S)[R]
    <3> HIDE DEF R
    <3> QED BY <1>1, <2>1, SumsAgree
  <2> QED BY <1>1, <2>1, <2>2, <2>3
<1> QED
  BY <1>2, <1>3

LEMMA SumInt ==
    ASSUME NEW S, IsFiniteSet(S), NEW g, \A x \in S : g[x] \in Int
    PROVE  SumFunctionOnSet(g, S) \in Int
<1> DEFINE Bad == {T \in SUBSET S : SumFunctionOnSet(g, T) \notin Int}
<1> SUFFICES Bad = {}
  OBVIOUS
<1>1. Bad \subseteq FiniteSubsetsOf(S)
  BY FS_Subset DEF FiniteSubsetsOf
<1>2. SUFFICES ASSUME Bad # {} PROVE FALSE
  OBVIOUS
<1>3. \E T \in Bad : \A U \in Bad : U \subseteq T => U = T
  <2> HIDE DEF Bad
  <2> QED BY <1>1, <1>2, SmallestSet
<1>4. PICK T \in Bad : \A U \in Bad : U \subseteq T => U = T
  BY <1>3
<1>5. T # {} /\ IsFiniteSet(T)
  <2>1. SumFunctionOnSet(g, {}) = 0
    BY SumStep
  <2>2. IsFiniteSet(T)
    BY FS_Subset
  <2> QED BY <2>1, <2>2
<1>6. Chosen(T) \in T /\ T \ {Chosen(T)} \in SUBSET S /\ T \ {Chosen(T)} # T
  BY <1>4, <1>5, ChosenIn
<1>7. SumFunctionOnSet(g, T \ {Chosen(T)}) \in Int
  BY <1>4, <1>6
<1>8. g[Chosen(T)] \in Int
  BY <1>4, <1>6
<1> QED
  <2>1. SumFunctionOnSet(g, T) = g[Chosen(T)] + SumFunctionOnSet(g, T \ {Chosen(T)})
    BY <1>5, SumStep
  <2> QED BY <1>4, <1>7, <1>8, <2>1

\* It does not matter which element is taken out.
LEMMA SumAdd ==
    ASSUME NEW S, IsFiniteSet(S), NEW g, \A x \in S : g[x] \in Int,
           NEW y \in S
    PROVE  SumFunctionOnSet(g, S) = g[y] + SumFunctionOnSet(g, S \ {y})
<1> DEFINE Good(T) == \A x \in T : SumFunctionOnSet(g, T) = g[x] + SumFunctionOnSet(g, T \ {x})
           Bad == {T \in SUBSET S : ~Good(T)}
<1> SUFFICES Bad = {}
  OBVIOUS
<1>1. Bad \subseteq FiniteSubsetsOf(S)
  BY FS_Subset DEF FiniteSubsetsOf
<1>2. SUFFICES ASSUME Bad # {} PROVE FALSE
  OBVIOUS
<1>3. \E T \in Bad : \A U \in Bad : U \subseteq T => U = T
  <2> HIDE DEF Bad
  <2> QED BY <1>1, <1>2, SmallestSet
<1>4. PICK T \in Bad : \A U \in Bad : U \subseteq T => U = T
  BY <1>3
<1>5. PICK x \in T : SumFunctionOnSet(g, T) # g[x] + SumFunctionOnSet(g, T \ {x})
  BY <1>4
<1> DEFINE z == Chosen(T)
<1>6. z \in T /\ IsFiniteSet(T)
  BY <1>4, <1>5, ChosenIn, FS_Subset
<1>7. SumFunctionOnSet(g, T) = g[z] + SumFunctionOnSet(g, T \ {z})
  BY <1>5, <1>6, SumStep
<1> HIDE DEF z
<1>8. x # z
  BY <1>5, <1>7
<1>9. Good(T \ {z}) /\ Good(T \ {x})
  <2>1. T \ {z} \in SUBSET S /\ T \ {z} # T /\ T \ {x} \in SUBSET S /\ T \ {x} # T
    BY <1>4, <1>5, <1>6
  <2> QED BY <1>4, <2>1
<1> DEFINE R == (T \ {z}) \ {x}
<1>10. R = (T \ {x}) \ {z} /\ x \in T \ {z} /\ z \in T \ {x} /\ IsFiniteSet(R) /\ R \in SUBSET S
  BY <1>4, <1>5, <1>6, <1>8, FS_Subset
<1>11. /\ SumFunctionOnSet(g, T \ {z}) = g[x] + SumFunctionOnSet(g, R)
       /\ SumFunctionOnSet(g, T \ {x}) = g[z] + SumFunctionOnSet(g, R)
  BY <1>9, <1>10
<1>12. SumFunctionOnSet(g, R) \in Int /\ g[x] \in Int /\ g[z] \in Int
  BY <1>4, <1>5, <1>6, <1>10, SumInt
<1> QED
  BY <1>5, <1>7, <1>11, <1>12

\* Functions that agree on a set have the same sum over it.
LEMMA SumSame ==
    ASSUME NEW S, IsFiniteSet(S), NEW g, NEW f, \A x \in S : f[x] = g[x]
    PROVE  SumFunctionOnSet(f, S) = SumFunctionOnSet(g, S)
<1> DEFINE G == {T \in SUBSET S : SumFunctionOnSet(f, T) = SumFunctionOnSet(g, T)}
           Bad == {T \in SUBSET S : T \notin G}
<1> SUFFICES Bad = {}
  OBVIOUS
<1>1. Bad \subseteq FiniteSubsetsOf(S)
  BY FS_Subset DEF FiniteSubsetsOf
<1>2. SUFFICES ASSUME Bad # {} PROVE FALSE
  OBVIOUS
<1>3. \E T \in Bad : \A U \in Bad : U \subseteq T => U = T
  <2> HIDE DEF Bad
  <2> QED BY <1>1, <1>2, SmallestSet
<1>4. PICK T \in Bad : \A U \in Bad : U \subseteq T => U = T
  BY <1>3
<1>5. T # {} /\ IsFiniteSet(T)
  BY <1>4, SumStep, FS_Subset, FS_EmptySet
<1>6. Chosen(T) \in S /\ T \ {Chosen(T)} \in SUBSET S /\ T \ {Chosen(T)} # T
  BY <1>4, <1>5, ChosenIn
<1>7. SumFunctionOnSet(f, T \ {Chosen(T)}) = SumFunctionOnSet(g, T \ {Chosen(T)})
  BY <1>4, <1>6
<1>8. SumFunctionOnSet(f, T) = SumFunctionOnSet(g, T)
  BY <1>5, <1>6, <1>7, SumStep
<1> QED
  BY <1>4, <1>8

\* If only the value at y changes the sum changes by the same amount.
LEMMA SumChange ==
    ASSUME NEW S, IsFiniteSet(S), NEW g, NEW f, NEW y \in S,
           \A x \in S : g[x] \in Int /\ f[x] \in Int,
           \A x \in S \ {y} : f[x] = g[x]
    PROVE  SumFunctionOnSet(f, S) = SumFunctionOnSet(g, S) - g[y] + f[y]
<1>1. IsFiniteSet(S \ {y})
  BY FS_Subset
<1>2. SumFunctionOnSet(f, S \ {y}) = SumFunctionOnSet(g, S \ {y})
  BY <1>1, SumSame
<1>3. SumFunctionOnSet(g, S \ {y}) \in Int
  BY <1>1, SumInt
<1>4. /\ SumFunctionOnSet(g, S) = g[y] + SumFunctionOnSet(g, S \ {y})
      /\ SumFunctionOnSet(f, S) = f[y] + SumFunctionOnSet(f, S \ {y})
  BY SumAdd
<1> QED
  BY <1>2, <1>3, <1>4

\* A factor of every summand is a factor of the sum.
LEMMA SumScale ==
    ASSUME NEW S, IsFiniteSet(S), NEW g, NEW f, NEW u \in Int,
           \A x \in S : g[x] \in Int /\ f[x] = u * g[x]
    PROVE  SumFunctionOnSet(f, S) = u * SumFunctionOnSet(g, S)
<1> DEFINE G == {T \in SUBSET S : SumFunctionOnSet(f, T) = u * SumFunctionOnSet(g, T)}
<1>1. {} \in G
  <2>1. SumFunctionOnSet(f, {}) = 0 /\ SumFunctionOnSet(g, {}) = 0
    BY SumStep
  <2> QED BY <2>1
<1>2. ASSUME NEW T \in SUBSET S, NEW y \in S \ T, T \in G
      PROVE  T \union {y} \in G
  <2> DEFINE R == T \union {y}
  <2>1. IsFiniteSet(R) /\ IsFiniteSet(T) /\ y \in R /\ R \ {y} = T /\ R \in SUBSET S
    BY <1>2, FS_Subset
  <2>2. \A x \in R : g[x] \in Int /\ f[x] \in Int
    BY <2>1
  <2> HIDE DEF R
  <2>3. /\ SumFunctionOnSet(f, R) = f[y] + SumFunctionOnSet(f, R \ {y})
        /\ SumFunctionOnSet(g, R) = g[y] + SumFunctionOnSet(g, R \ {y})
    BY <2>1, <2>2, SumAdd
  <2>4. SumFunctionOnSet(g, T) \in Int
    BY <2>1, SumInt
  <2>5. SumFunctionOnSet(f, T) = u * SumFunctionOnSet(g, T)
    BY <1>2
  <2>6. SumFunctionOnSet(f, R) = u * SumFunctionOnSet(g, R)
    <3>1. \A a, b \in Int : u * (a + b) = u * a + u * b
      OBVIOUS
    <3>2. g[y] \in Int /\ f[y] = u * g[y]
      BY <2>1
    <3>3. /\ SumFunctionOnSet(f, R) = u * g[y] + u * SumFunctionOnSet(g, T)
          /\ SumFunctionOnSet(g, R) = g[y] + SumFunctionOnSet(g, T)
      BY <2>1, <2>3, <2>5, <3>2
    <3> QED BY <2>4, <3>1, <3>2, <3>3
  <2> QED BY <2>1, <2>6 DEF R
<1> HIDE DEF G
<1>3. \A T \in SUBSET S : T \in G
  BY <1>1, <1>2, FiniteSetInduction
<1> QED
  BY <1>3 DEF G

-----------------------------------------------------------------------------
\* A nonempty set of natural numbers has a smallest one.
LEMMA LeastNat ==
    ASSUME NEW S, S \subseteq Nat, S # {}
    PROVE  \E x \in S : \A y \in S : x <= y
<1> DEFINE G == {k \in Nat : (\E x \in S : x <= k) => \E x \in S : \A y \in S : x <= y}
<1>1. 0 \in G
  OBVIOUS
<1>2. ASSUME NEW k \in Nat, k \in G PROVE k + 1 \in G
  <2>1. SUFFICES ASSUME NEW x \in S, x <= k + 1, \A y \in S : ~(y <= k)
                 PROVE  \A y \in S : x <= y
    BY <1>2
  <2>2. \A y \in S : y \in Nat
    OBVIOUS
  <2> QED BY <2>1, <2>2
<1> HIDE DEF G
<1>3. \A k \in Nat : k \in G
  BY <1>1, <1>2, NaturalInduction
<1>4. PICK x \in S : TRUE
  OBVIOUS
<1>5. x \in Nat /\ x \in G /\ x <= x
  BY <1>3
<1> QED
  BY <1>5 DEF G

LEMMA MinIn ==
    ASSUME NEW S, S \subseteq Nat, S # {}
    PROVE  Min(S) \in S /\ \A y \in S : Min(S) <= y
<1>1. \E x \in S : \A y \in S : x <= y
  BY LeastNat
<1> QED
  BY <1>1 DEF Min

\* A finite set of numbers has a largest one.
LEMMA MaxIn ==
    ASSUME NEW S, IsFiniteSet(S), S # {}, S \subseteq Int
    PROVE  Max(S) \in S /\ \A y \in S : y <= Max(S)
<1> DEFINE G == {T \in SUBSET S : T = {} \/ \E x \in T : \A y \in T : x >= y}
<1>1. {} \in G
  OBVIOUS
<1>2. ASSUME NEW T \in SUBSET S, NEW z \in S \ T, T \in G
      PROVE  T \union {z} \in G
  <2>1. CASE T = {}
    BY <2>1
  <2>2. CASE T # {}
    <3>1. PICK x \in T : \A y \in T : x >= y
      BY <1>2, <2>2
    <3>2. x \in Int /\ z \in Int /\ \A y \in T : y \in Int
      OBVIOUS
    <3>3. CASE x >= z
      BY <3>1, <3>3
    <3>4. CASE ~(x >= z)
      <4>1. \A y \in T \union {z} : z >= y
        BY <3>1, <3>2, <3>4
      <4> QED BY <4>1
    <3> QED BY <3>3, <3>4
  <2> QED BY <2>1, <2>2
<1> HIDE DEF G
<1>3. \A T \in SUBSET S : T \in G
  BY <1>1, <1>2, FiniteSetInduction
<1>4. \E x \in S : \A y \in S : x >= y
  BY <1>3 DEF G
<1> QED
  BY <1>4 DEF Max

\* Division without a rest.
LEMMA DivExact ==
    ASSUME NEW k \in Nat \ {0}, NEW z \in Int
    PROVE  (k * z) \div k = z
OBVIOUS

LEMMA DivMod ==
    ASSUME NEW k \in Nat \ {0}, NEW b \in Nat
    PROVE  b \div k \in Nat /\ b % k \in 0 .. k - 1 /\ b = k * (b \div k) + (b % k)
<1>1. b % k \in 0 .. k - 1
  OBVIOUS
<1>2. b = k * (b \div k) + (b % k)
  OBVIOUS
<1>3. b \div k \in Nat
  OBVIOUS
<1> QED
  BY <1>1, <1>2, <1>3

LEMMA Divides ==
    ASSUME NEW k \in Nat \ {0}, NEW u \in Int, u % k = 0
    PROVE  u = k * (u \div k) /\ u \div k \in Int
OBVIOUS

-----------------------------------------------------------------------------
(* Loops.  A loop of N turns is a recursive function of the number of turns: *)
(* there is one, and it keeps an invariant, given as the set of the states   *)
(* that are possible after each turn.                                        *)

\* What N turns do.
LoopTurns(S, N) == [1 .. N -> [S -> S]]

\* f[i] is the state after i turns.
Loop(S, N, base, g, f) ==
    /\ f \in [0 .. N -> S]
    /\ f[0] = base
    /\ \A i \in 1 .. N : f[i] = g[i][f[i - 1]]

\* Every loop has the function of its states.
LEMMA LoopExists ==
    ASSUME NEW S, NEW N \in Nat, NEW base \in S, NEW g \in LoopTurns(S, N)
    PROVE  \E f : Loop(S, N, base, g, f)
<1>0. \A i \in 1 .. N : g[i] \in [S -> S]
  BY DEF LoopTurns
<1> DEFINE Upto(n, f) == f[0] = base /\ \A i \in 1 .. n : f[i] = g[i][f[i - 1]]
           G == {n \in Nat : n <= N => \E f \in [0 .. n -> S] : Upto(n, f)}
<1>1. 0 \in G
  <2> DEFINE f == [i \in 0 .. 0 |-> base]
  <2>1. f \in [0 .. 0 -> S] /\ Upto(0, f)
    OBVIOUS
  <2> QED BY <2>1
<1>2. ASSUME NEW n \in Nat, n \in G PROVE n + 1 \in G
  <2> SUFFICES ASSUME n + 1 <= N PROVE \E f \in [0 .. n + 1 -> S] : Upto(n + 1, f)
    OBVIOUS
  <2>1. PICK e \in [0 .. n -> S] : Upto(n, e)
    BY <1>2
  <2> DEFINE f == [i \in 0 .. n + 1 |-> IF i <= n THEN e[i] ELSE g[n + 1][e[n]]]
  <2>2. g[n + 1] \in [S -> S] /\ e[n] \in S
    BY <1>0, <1>2, <2>1
  <2>3. f \in [0 .. n + 1 -> S]
    BY <1>2, <2>1, <2>2
  <2>4. ASSUME NEW i \in 1 .. n + 1 PROVE f[i] = g[i][f[i - 1]]
    <3>1. f[i - 1] = e[i - 1]
      BY <1>2, <2>4
    <3>2. CASE i <= n
      BY <1>2, <2>1, <2>4, <3>1, <3>2
    <3>3. CASE i = n + 1
      BY <1>2, <2>1, <2>4, <3>1, <3>3
    <3> QED BY <1>2, <2>4, <3>2, <3>3
  <2>5. f[0] = base
    BY <1>2, <2>1
  <2> QED BY <2>3, <2>4, <2>5
<1>3. \A n \in Nat : n \in G
  <2> HIDE DEF G
  <2> QED BY <1>1, <1>2, NaturalInduction
<1>4. PICK f \in [0 .. N -> S] : Upto(N, f)
  BY <1>3
<1> QED
  BY <1>4 DEF Loop

\* If each turn leads from a state of I[i - 1] to one of I[i], all are in theirs.
LEMMA LoopInvariant ==
    ASSUME NEW N \in Nat, NEW f, NEW I, f[0] \in I[0],
           \A i \in 1 .. N : f[i - 1] \in I[i - 1] => f[i] \in I[i]
    PROVE  \A i \in 0 .. N : f[i] \in I[i]
<1> DEFINE G == {i \in Nat : i <= N => f[i] \in I[i]}
<1>1. 0 \in G
  OBVIOUS
<1>2. ASSUME NEW i \in Nat, i \in G PROVE i + 1 \in G
  <2> SUFFICES ASSUME i + 1 <= N PROVE f[i + 1] \in I[i + 1]
    OBVIOUS
  <2>1. i + 1 \in 1 .. N /\ f[(i + 1) - 1] \in I[(i + 1) - 1]
    BY <1>2
  <2> QED BY <2>1
<1>3. \A i \in Nat : i \in G
  <2> HIDE DEF G
  <2> QED BY <1>1, <1>2, NaturalInduction
<1> QED
  BY <1>3

\* The same if every turn has states of its own: turn i leads from those of
\* I[i - 1] to those of I[i].
Staged(N, I, base, g, f) ==
    /\ f = [i \in 0 .. N |-> f[i]] /\ f[0] = base
    /\ \A i \in 1 .. N : f[i] = g[i][f[i - 1]]
    /\ \A i \in 0 .. N : f[i] \in I[i]

LEMMA StagedLoop ==
    ASSUME NEW N \in Nat, NEW I, NEW base \in I[0], NEW g,
           \A i \in 1 .. N : \A x \in I[i - 1] : g[i][x] \in I[i]
    PROVE  \E f : Staged(N, I, base, g, f)
<1> DEFINE S == UNION {I[i] : i \in 0 .. N}
           turn == [i \in 1 .. N |-> [x \in S |-> IF x \in I[i - 1] THEN g[i][x] ELSE base]]
<1>1. \A i \in 0 .. N : I[i] \subseteq S
  OBVIOUS
<1>2. base \in S
  BY <1>1
<1>3. turn \in LoopTurns(S, N)
  <2>1. \A i \in 1 .. N : [x \in S |-> IF x \in I[i - 1] THEN g[i][x] ELSE base] \in [S -> S]
    BY <1>1, <1>2
  <2> HIDE DEF S
  <2> QED BY <2>1 DEF LoopTurns
<1>4. \A i \in 1 .. N : \A x \in I[i - 1] : turn[i][x] = g[i][x]
  <2> TAKE i \in 1 .. N
  <2> TAKE x \in I[i - 1]
  <2>1. x \in S
    BY <1>1
  <2> QED BY <2>1
<1> HIDE DEF S, turn
<1>5. PICK f : Loop(S, N, base, turn, f)
  BY <1>2, <1>3, LoopExists
<1>6. f \in [0 .. N -> S] /\ f[0] = base /\ \A i \in 1 .. N : f[i] = turn[i][f[i - 1]]
  BY <1>5 DEF Loop
<1>7. \A i \in 1 .. N : f[i - 1] \in I[i - 1] => f[i] = g[i][f[i - 1]] /\ f[i] \in I[i]
  BY <1>4, <1>6
<1>8. \A i \in 0 .. N : f[i] \in I[i]
  BY <1>6, <1>7, LoopInvariant
<1>9. \A i \in 1 .. N : f[i] = g[i][f[i - 1]]
  <2> TAKE i \in 1 .. N
  <2>1. f[i - 1] \in I[i - 1]
    BY <1>8
  <2> QED BY <1>7, <2>1
<1> QED
  BY <1>6, <1>8, <1>9 DEF Staged

=============================================================================
