---------------------------- MODULE SumsAndLists ----------------------------
(***************************************************************************)
(* Lemmas about the library's SumFunction, which adds up the values of a   *)
(* function, and about SetToSeq, which puts a set in some order: what the  *)
(* proofs about balances and about lists of steps rest on.                 *)
(***************************************************************************)
EXTENDS SequencesExt, Integers, FiniteSetTheorems, SequenceTheorems, WellFoundedInduction, TLAPS

(* The order of the numbers, as a relation. *)
LEMMA NatOrder ==
  \E R : IsWellFoundedOn(R, Nat) /\ \A x, y \in Nat : <<x, y>> \in R <=> x < y
  BY NatLessThanWellFounded DEF OpToRel

LEMMA LeastNumber ==
  ASSUME NEW I \in SUBSET Nat, I # {}
  PROVE  \E x \in I : \A y \in I : x =< y
  <1>1. PICK R : IsWellFoundedOn(R, Nat) /\ \A x, y \in Nat : <<x, y>> \in R <=> x < y
    BY NatOrder
  <1>2. IsWellFoundedOn(R, Nat)
    BY <1>1
  <1>3. PICK x \in I : \A y \in I : ~ (<<y, x>> \in R)
    BY <1>2, WFMin, Zenon
  <1>4. \A y \in I : x =< y
    <2> TAKE y \in I
    <2>1. <<y, x>> \notin R
      BY <1>3
    <2>2. x \in Nat /\ y \in Nat
      OBVIOUS
    <2>3. ~ (y < x)
      BY <1>1, <2>1, <2>2, Zenon
    <2> QED BY <2>2, <2>3
  <1> QED BY <1>4

(* Induction up to a number, for a set of numbers.                         *)
LEMMA UpTo ==
  ASSUME NEW n \in Nat, NEW S, 0 \in S, \A i \in Nat : i < n /\ i \in S => i + 1 \in S
  PROVE  n \in S
  <1> DEFINE T == {i \in Nat : i =< n /\ i \notin S}
  <1>1. SUFFICES ASSUME T # {} PROVE FALSE
    OBVIOUS
  <1>2. PICK I : I = T
    OBVIOUS
  <1>3. I \in SUBSET Nat /\ I # {}
    BY <1>1, <1>2
  <1>4. PICK x \in I : \A y \in I : x =< y
    BY <1>3, LeastNumber, Zenon
  <1>5. x \in Nat /\ x =< n /\ x \notin S /\ x # 0
    BY <1>2, <1>4
  <1>6. x - 1 \in Nat /\ x - 1 < n /\ x - 1 \notin I
    BY <1>3, <1>4, <1>5
  <1>7. x - 1 \in S
    BY <1>2, <1>5, <1>6
  <1> QED BY <1>5, <1>6, <1>7

----------------------------------------------------------------------------
(* The element of s that is added first, and the sum for the subset s when *)
(* g has those of smaller ones.                                            *)
First(s) == CHOOSE x \in s : TRUE

Term(f, g, s) == IF s = {} THEN 0 ELSE f[First(s)] + g[s \ {First(s)}]

SumsOf(f, S, g) == g = [s \in SUBSET S |-> Term(f, g, s)]

LEMMA SumFunctionIs ==
  ASSUME NEW f, NEW S, S = DOMAIN f
  PROVE  SumFunction(f) = (CHOOSE g : SumsOf(f, S, g))[S]
  BY DEF SumFunction, SumFunctionOnSet, FoldFunctionOnSet, MapThenFoldSet, SumsOf, Term, First

(* Such sums exist, by induction on the size of the sets ...               *)
LEMMA SumsExist ==
  ASSUME NEW S, IsFiniteSet(S), NEW f \in [S -> Int]
  PROVE  \E g : SumsOf(f, S, g)
  <1> DEFINE Upto(g, n) == \A s \in SUBSET S : Cardinality(s) =< n => g[s] = Term(f, g, s)
             I == {n \in Nat : \E g : Upto(g, n)}
  <1>1. PICK N \in Nat : N = Cardinality(S)
    BY FS_CardinalityType
  <1>2. \A s \in SUBSET S : /\ Cardinality(s) \in Nat /\ Cardinality(s) =< N
                            /\ Cardinality(s) = 0 <=> s = {}
    <2> TAKE s \in SUBSET S
    <2>1. IsFiniteSet(s) /\ Cardinality(s) =< N
      BY <1>1, FS_Subset
    <2> QED BY <2>1, FS_CardinalityType, FS_EmptySet
  <1>3. \A s \in SUBSET S : s # {} =>
          LET x == First(s)
          IN  s \ {x} \in SUBSET S /\ Cardinality(s \ {x}) = Cardinality(s) - 1
    <2> TAKE s \in SUBSET S
    <2> HAVE s # {}
    <2>1. IsFiniteSet(s)
      BY FS_Subset
    <2>2. PICK x : x = First(s)
      OBVIOUS
    <2>3. x \in s
      BY <2>2 DEF First
    <2> QED BY <2>1, <2>2, <2>3, FS_RemoveElement
  <1>4. 0 \in I
    <2>1. PICK g : g = [s \in SUBSET S |-> 0]
      OBVIOUS
    <2>2. Upto(g, 0)
      BY <2>1, <1>2 DEF Term
    <2> QED BY <2>2
  <1>5. ASSUME NEW n \in Nat, n \in I PROVE n + 1 \in I
    <2>1. PICK g : Upto(g, n)
      BY <1>5
    <2>2. PICK h : h = [s \in SUBSET S |-> IF Cardinality(s) =< n THEN g[s] ELSE Term(f, g, s)]
      OBVIOUS
    <2>3. ASSUME NEW s \in SUBSET S, Cardinality(s) =< n + 1
          PROVE  h[s] = Term(f, h, s)
      <3>1. h[s] = Term(f, g, s)
        BY <2>1, <2>2, <2>3
      <3>2. CASE s = {}
        BY <3>1, <3>2 DEF Term
      <3>3. CASE s # {}
        <4>1. PICK x : x = First(s)
          OBVIOUS
        <4>2. s \ {x} \in SUBSET S /\ Cardinality(s \ {x}) =< n
          BY <1>2, <1>3, <2>3, <3>3, <4>1
        <4>3. h[s \ {x}] = g[s \ {x}]
          BY <2>2, <4>2
        <4> QED BY <3>1, <3>3, <4>1, <4>3 DEF Term
      <3> QED BY <3>2, <3>3
    <2>4. Upto(h, n + 1)
      BY <2>3
    <2> QED BY <2>4
  <1> HIDE DEF I
  <1>6. N \in I
    BY <1>4, <1>5, UpTo
  <1>7. PICK g : Upto(g, N)
    BY <1>6 DEF I
  <1>8. PICK h : h = [s \in SUBSET S |-> g[s]]
    OBVIOUS
  <1>9. ASSUME NEW s \in SUBSET S PROVE h[s] = Term(f, h, s)
    <2>1. h[s] = Term(f, g, s)
      BY <1>2, <1>7, <1>8
    <2>2. CASE s = {}
      BY <2>1, <2>2 DEF Term
    <2>3. CASE s # {}
      <3>1. PICK x : x = First(s)
        OBVIOUS
      <3>2. h[s \ {x}] = g[s \ {x}]
        BY <1>8
      <3> QED BY <2>1, <2>3, <3>1, <3>2 DEF Term
    <2> QED BY <2>2, <2>3
  <1>10. SumsOf(f, S, h)
    BY <1>8, <1>9 DEF SumsOf
  <1> QED BY <1>10

(* ... so SumFunction adds up what it is given: one of them for f, and     *)
(* what holds of the sums of smaller sets is handed on.                    *)
AddsUp(f, S, g) ==
  /\ SumFunction(f) = g[S]
  /\ g[{}] = 0
  /\ \A s \in SUBSET S : s # {} => g[s] = f[First(s)] + g[s \ {First(s)}]

LEMMA SumSteps ==
  ASSUME NEW S, IsFiniteSet(S), NEW f \in [S -> Int]
  PROVE  \E g : AddsUp(f, S, g)
  <1>1. PICK g : g = CHOOSE h : SumsOf(f, S, h)
    OBVIOUS
  <1>2. SumsOf(f, S, g)
    BY <1>1, SumsExist
  <1>3. SumFunction(f) = g[S]
    BY <1>1, SumFunctionIs
  <1>4. \A s \in SUBSET S : g[s] = Term(f, g, s)
    BY <1>2 DEF SumsOf
  <1>5. AddsUp(f, S, g)
    BY <1>3, <1>4 DEF Term, AddsUp
  <1> QED BY <1>5

(* Induction on the subsets of a finite set, for a set of them that has    *)
(* each one it has without its first element.                              *)
LEMMA FromEmpty ==
  ASSUME NEW S, IsFiniteSet(S), NEW T, {} \in T,
         \A s \in SUBSET S : s # {} /\ s \ {First(s)} \in T => s \in T
  PROVE  S \in T
  <1> DEFINE I == {n \in Nat : \A s \in SUBSET S : Cardinality(s) =< n => s \in T}
  <1>1. \A s \in SUBSET S : IsFiniteSet(s) /\ Cardinality(s) \in Nat
    BY FS_Subset, FS_CardinalityType
  <1>2. 0 \in I
    <2>1. \A s \in SUBSET S : Cardinality(s) =< 0 => s = {}
      BY <1>1, FS_EmptySet
    <2> QED BY <2>1
  <1>3. ASSUME NEW n \in Nat, n \in I PROVE n + 1 \in I
    <2>1. ASSUME NEW s \in SUBSET S, Cardinality(s) =< n + 1, s # {} PROVE s \in T
      <3>1. PICK x : x = First(s)
        OBVIOUS
      <3>2. x \in s
        BY <2>1, <3>1 DEF First
      <3>3. s \ {x} \in SUBSET S /\ Cardinality(s \ {x}) = Cardinality(s) - 1
        BY <1>1, <3>2, FS_RemoveElement
      <3>4. s \ {x} \in T
        BY <1>1, <1>3, <2>1, <3>3
      <3> QED BY <2>1, <3>1, <3>4
    <2> QED BY <2>1
  <1> HIDE DEF I
  <1>4. Cardinality(S) \in I
    BY <1>1, <1>2, <1>3, UpTo
  <1> QED BY <1>1, <1>4 DEF I

(* A sum of integers is one, ...                                           *)
LEMMA SumType ==
  ASSUME NEW S, IsFiniteSet(S), NEW f \in [S -> Int]
  PROVE  SumFunction(f) \in Int
  <1>1. PICK g : AddsUp(f, S, g)
    BY SumSteps
  <1> DEFINE T == {s \in SUBSET S : g[s] \in Int}
  <1>2. {} \in T
    BY <1>1 DEF AddsUp
  <1>3. ASSUME NEW s \in SUBSET S, s # {}, s \ {First(s)} \in T
        PROVE  s \in T
    <2>1. PICK y : y = First(s)
      OBVIOUS
    <2>2. y \in S /\ f[y] \in Int
      BY <1>3, <2>1 DEF First
    <2>3. g[s] = f[y] + g[s \ {y}]
      BY <1>1, <1>3, <2>1 DEF AddsUp
    <2>4. g[s \ {y}] \in Int
      BY <1>3, <2>1
    <2> QED BY <2>2, <2>3, <2>4
  <1> HIDE DEF T
  <1>4. S \in T
    BY <1>2, <1>3, FromEmpty
  <1> QED BY <1>1, <1>4 DEF T, AddsUp

(* ... and changes with one of its values by as much as that does.         *)
LEMMA SumChanged ==
  ASSUME NEW S, IsFiniteSet(S), NEW f \in [S -> Int], NEW x \in S, NEW v \in Int,
         NEW h, h = [f EXCEPT ![x] = v]
  PROVE  /\ SumFunction(f) \in Int
         /\ SumFunction(h) = SumFunction(f) + v - f[x]
  <1>1. h \in [S -> Int] /\ h[x] = v /\ \A y \in S : y # x => h[y] = f[y]
    OBVIOUS
  <1>2. PICK g : AddsUp(f, S, g)
    BY SumSteps
  <1>3. PICK k : AddsUp(h, S, k)
    BY <1>1, SumSteps
  <1> DEFINE Fine(s) == g[s] \in Int /\ k[s] = g[s] + (IF x \in s THEN v - f[x] ELSE 0)
             T == {s \in SUBSET S : Fine(s)}
  <1>4. {} \in T
    BY <1>2, <1>3 DEF AddsUp
  <1>5. ASSUME NEW s \in SUBSET S, s # {}, s \ {First(s)} \in T
        PROVE  s \in T
    <2>1. PICK y : y = First(s)
      OBVIOUS
    <2>2. y \in s /\ y \in S
      BY <1>5, <2>1 DEF First
    <2>3. g[s] = f[y] + g[s \ {y}] /\ k[s] = h[y] + k[s \ {y}]
      BY <1>2, <1>3, <1>5, <2>1 DEF AddsUp
    <2>4. Fine(s \ {y})
      BY <1>5, <2>1
    <2>5. f[y] \in Int /\ h[y] \in Int /\ f[x] \in Int /\ (y = x => h[y] = v) /\ (y # x => h[y] = f[y])
      BY <1>1, <2>2
    <2>6. x \in s <=> x \in s \ {y} \/ x = y
      BY <2>2
    <2>7. Fine(s)
      BY <2>2, <2>3, <2>4, <2>5, <2>6
    <2> QED BY <2>7
  <1> HIDE DEF T
  <1>6. S \in T
    BY <1>4, <1>5, FromEmpty
  <1> QED BY <1>2, <1>3, <1>6 DEF T, AddsUp

(* The same for two functions that differ at one place at most.            *)
LEMMA SumMoved ==
  ASSUME NEW S, IsFiniteSet(S), NEW f \in [S -> Int], NEW g \in [S -> Int], NEW x \in S,
         \A y \in S : y # x => g[y] = f[y]
  PROVE  /\ SumFunction(f) \in Int /\ SumFunction(g) \in Int
         /\ SumFunction(g) = SumFunction(f) + g[x] - f[x]
  <1>1. PICK v, h : v = g[x] /\ h = [f EXCEPT ![x] = v]
    OBVIOUS
  <1>2. h = g /\ v \in Int
    BY <1>1
  <1>3. SumFunction(f) \in Int /\ SumFunction(h) = SumFunction(f) + v - f[x]
    <2>1. IsFiniteSet(S) /\ f \in [S -> Int] /\ x \in S /\ v \in Int /\ h = [f EXCEPT ![x] = v]
      BY <1>1, <1>2
    <2> QED BY ONLY <2>1, SumChanged
  <1>4. SumFunction(g) \in Int
    BY SumType
  <1> QED BY <1>1, <1>2, <1>3, <1>4

(* A sum of what is never negative is at least each of its terms.          *)
LEMMA SumAtLeast ==
  ASSUME NEW S, IsFiniteSet(S), NEW f \in [S -> Int], \A x \in S : f[x] >= 0
  PROVE  SumFunction(f) \in Nat /\ \A x \in S : SumFunction(f) >= f[x]
  <1>1. PICK g : AddsUp(f, S, g)
    BY SumSteps
  <1>2. PICK T : T = {s \in SUBSET S : g[s] \in Nat /\ \A x \in s : g[s] >= f[x]}
    OBVIOUS
  <1>3. {} \in T
    BY <1>1, <1>2 DEF AddsUp
  <1>4. ASSUME NEW s \in SUBSET S, s # {}, s \ {First(s)} \in T PROVE s \in T
    <2>1. PICK x, r : x = First(s) /\ r = s \ {First(s)}
      OBVIOUS
    <2>2. x \in s
      BY <1>4, <2>1 DEF First
    <2>3. g[s] = f[x] + g[r] /\ g[r] \in Nat /\ (\A y \in r : g[r] >= f[y])
      BY <1>1, <1>2, <1>4, <2>1 DEF AddsUp
    <2>4. f[x] \in Int /\ f[x] >= 0
      BY <2>2
    <2>5. \A y \in s : y = x \/ y \in r
      BY <2>1
    <2>6. \A y \in s : f[y] \in Int
      OBVIOUS
    <2>7. g[s] \in Nat /\ \A y \in s : g[s] >= f[y]
      BY <2>3, <2>4, <2>5, <2>6
    <2> QED BY <1>2, <2>7
  <1>5. S \in T
    BY <1>3, <1>4, FromEmpty
  <1> QED BY <1>1, <1>2, <1>5 DEF AddsUp

(* The sum of nothing but zeros.                                           *)
LEMMA SumOfZeros ==
  ASSUME NEW S, IsFiniteSet(S), NEW f, f = [x \in S |-> 0]
  PROVE  SumFunction(f) = 0
  <1>1. PICK g : AddsUp(f, S, g)
    <2>1. f \in [S -> Int]
      OBVIOUS
    <2> QED BY <2>1, SumSteps
  <1> DEFINE T == {s \in SUBSET S : g[s] = 0}
  <1>2. {} \in T
    BY <1>1 DEF AddsUp
  <1>3. ASSUME NEW s \in SUBSET S, s # {}, s \ {First(s)} \in T
        PROVE  s \in T
    <2>1. PICK y : y = First(s)
      OBVIOUS
    <2>2. y \in S /\ f[y] = 0
      BY <1>3, <2>1 DEF First
    <2>3. g[s] = f[y] + g[s \ {y}]
      BY <1>1, <1>3, <2>1 DEF AddsUp
    <2>4. g[s \ {y}] = 0
      BY <1>3, <2>1
    <2> QED BY <2>2, <2>3, <2>4
  <1> HIDE DEF T
  <1>4. S \in T
    BY <1>2, <1>3, FromEmpty
  <1> QED BY <1>1, <1>4 DEF T, AddsUp

(* SetToSeq lists each element of a finite set once. *)
LEMMA InSomeOrder ==
  ASSUME NEW S, IsFiniteSet(S)
  PROVE  /\ Cardinality(S) \in Nat
         /\ SetToSeq(S) \in [1..Cardinality(S) -> S]
         /\ \A i, j \in 1..Cardinality(S) : SetToSeq(S)[i] = SetToSeq(S)[j] => i = j
  <1>1. Cardinality(S) \in Nat /\ ExistsBijection(1..Cardinality(S), S)
    BY FS_CardinalityType
  <1>2. PICK f \in [1..Cardinality(S) -> S] : IsInjective(f)
    BY <1>1 DEF ExistsBijection, Bijection, Injection, IsInjective
  <1>3. PICK g : g = SetToSeq(S)
    OBVIOUS
  <1>4. g \in [1..Cardinality(S) -> S] /\ IsInjective(g)
    BY <1>2, <1>3 DEF SetToSeq
  <1> QED BY <1>1, <1>3, <1>4 DEF IsInjective

----------------------------------------------------------------------------
(* Lists of steps, of which only the first may be any of F: the others,    *)
(* made later, are of L.                                                   *)
ListsOf(F, L) == {q \in Seq(F) : q # <<>> => Tail(q) \in Seq(L)}

(* A step is replaced by others: what follows stays.                       *)
LEMMA StepsReplaced ==
  ASSUME NEW F, NEW L, NEW F2, NEW L2, L \subseteq L2, L2 \subseteq F2,
         NEW q \in ListsOf(F, L), q # <<>>, NEW steps \in Seq(L2)
  PROVE  steps \o Tail(q) \in Seq(L2) /\ steps \o Tail(q) \in ListsOf(F2, L2)
  <1>1. Tail(q) \in Seq(L2)
    BY DEF ListsOf
  <1>2. PICK r : r = steps \o Tail(q)
    OBVIOUS
  <1>3. r \in Seq(L2)
    BY <1>1, <1>2
  <1>4. r \in Seq(F2) /\ (r # <<>> => Tail(r) \in Seq(L2))
    BY <1>3
  <1> QED BY <1>2, <1>3, <1>4 DEF ListsOf

(* It is replaced by one that has to be made next.                         *)
LEMMA StepReplaced ==
  ASSUME NEW F, NEW L, NEW F2, NEW L2, L \subseteq L2, L2 \subseteq F2,
         NEW q \in ListsOf(F, L), q # <<>>, NEW s \in F2
  PROVE  /\ <<s>> \o Tail(q) \in ListsOf(F2, L2)
         /\ <<s>> \o Tail(q) # <<>> /\ Head(<<s>> \o Tail(q)) = s
  <1>1. PICK u : u = Tail(q)
    OBVIOUS
  <1>2. u \in Seq(L2)
    BY <1>1 DEF ListsOf
  <1>3. PICK r : r = <<s>> \o u
    OBVIOUS
  <1>4. r \in Seq(F2) /\ r # <<>> /\ Head(r) = s
    BY <1>2, <1>3
  <1>5. Tail(r) = u
    BY <1>2, <1>3
  <1> QED BY <1>1, <1>2, <1>3, <1>4, <1>5 DEF ListsOf

LEMMA ListsGrow ==
  ASSUME NEW F, NEW L, NEW F2, NEW L2, F \subseteq F2, L \subseteq L2, NEW q \in ListsOf(F, L)
  PROVE  q \in ListsOf(F2, L2)
  <1>1. q \in Seq(F2)
    BY DEF ListsOf
  <1>2. q # <<>> => Tail(q) \in Seq(L2)
    BY DEF ListsOf
  <1> QED BY <1>1, <1>2 DEF ListsOf

LEMMA HeadFits ==
  ASSUME NEW F, NEW L, NEW q \in ListsOf(F, L), q # <<>>
  PROVE  Head(q) \in F
  BY DEF ListsOf

LEMMA OneStep ==
  ASSUME NEW L, NEW s \in L
  PROVE  <<s>> \in Seq(L) /\ <<>> \in Seq(L)
  OBVIOUS

LEMMA FromList ==
  ASSUME NEW L, NEW n \in Nat, NEW q \in [1..n -> L]
  PROVE  q \in Seq(L)
  BY IsASeq

=============================================================================
