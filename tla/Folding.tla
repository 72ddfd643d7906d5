------------------------------- MODULE Folding -------------------------------
(***************************************************************************)
(* Induction over finite sets and over sequences, for the recursions that  *)
(* the sums and folds of the models are defined by.  Such a recursion      *)
(* takes a set apart one element at a time: its value for {} is Base, and  *)
(* for another set it is Step of the element that Pick takes and of the    *)
(* value of what is left.  FoldLeft of a sequence takes the indices of the *)
(* sequence apart from the greatest one.  A log, a trace or a list of      *)
(* results grows by one element at a time, and what is computed from it    *)
(* changes by one application of the operator.                             *)
(*                                                                         *)
(* The operators are parameters, which a module that needs the induction   *)
(* replaces by its own.                                                    *)
(***************************************************************************)
EXTENDS Integers, FiniteSets, Sequences, SequencesExt, WellFoundedInduction, FunctionTheorems,
        FiniteSetTheorems, SequenceTheorems, TLAPS

CONSTANTS Base(_), Pick(_), Step(_, _, _),   \* a recursion over sets, of a parameter
          Op(_, _, _)   \* of a parameter, the value so far and the next element of a sequence

LEMMA LessThanIsWellFounded ==
  \E R : IsWellFoundedOn(R, Nat) /\ \A x, y \in Nat : y < x => <<y, x>> \in R
<1>1. \A x, y \in Nat : y < x => <<y, x>> \in OpToRel(<, Nat) BY DEF OpToRel
<1>2. IsWellFoundedOn(OpToRel(<, Nat), Nat) BY NatLessThanWellFounded
<1> QED BY <1>1, <1>2, Zenon

\* A set of numbers has a least one.
LEMMA LeastNumber ==
  ASSUME NEW T \in SUBSET Nat, T # {} PROVE \E x \in T : \A y \in T : x <= y
<1>1. PICK R : IsWellFoundedOn(R, Nat) /\ (\A x, y \in Nat : y < x => <<y, x>> \in R)
  BY LessThanIsWellFounded
<1>2. \E x \in T : \A y \in T : <<y, x>> \notin R
  BY <1>1, WFMin
<1>3. PICK x \in T : \A y \in T : <<y, x>> \notin R BY <1>2
<1>4. \A y \in T : ~(y < x) BY <1>3, <1>1
<1> QED BY <1>4

\* A set that has 0, and the successor of each of its numbers, has all numbers.
LEMMA Induction ==
  ASSUME NEW S, 0 \in S, \A n \in Nat : n \in S => n + 1 \in S PROVE Nat \subseteq S
<1> SUFFICES ASSUME Nat \ S # {} PROVE FALSE OBVIOUS
<1>1. PICK x \in Nat \ S : \A y \in Nat \ S : x <= y BY LeastNumber
<1>2. x # 0 /\ x - 1 \in Nat OBVIOUS
<1>3. x - 1 \in S BY <1>1, <1>2
<1> QED BY <1>3, <1>2

-----------------------------------------------------------------------------
(* The recursion, on the subsets of a set D whose elements can be listed. *)

\* The value for a set, from the values g for smaller ones; p is what Base and Step use.
Entry(p, s, g) == IF s = {} THEN Base(p) ELSE Step(p, Pick(s), g[s \ {Pick(s)}])
Unfolds(p, D, g) == g = [s \in SUBSET D |-> Entry(p, s, g)]
Listed(D) == \E n \in Nat : \E f \in [1..n -> D] : \A x \in D : \E i \in 1..n : f[i] = x
Picks(D) == Listed(D) /\ \A s \in SUBSET D : s # {} => Pick(s) \in s

LEMMA ListedIsFinite == ASSUME NEW D, Listed(D) PROVE IsFiniteSet(D)
BY FS_NatSurjection, Fun_IsSurj DEF Listed, ExistsSurjection

LEMMA OneLess ==
  ASSUME NEW s, IsFiniteSet(s), NEW n \in Nat, Cardinality(s) = n + 1
  PROVE  s # {} /\ \A x \in s : IsFiniteSet(s \ {x}) /\ Cardinality(s \ {x}) = n
<1>1. s # {} BY FS_EmptySet
<1>2. \A x \in s : IsFiniteSet(s \ {x}) /\ Cardinality(s \ {x}) = Cardinality(s) - 1
  BY FS_RemoveElement
<1> QED BY <1>1, <1>2

\* A family of subsets of D that is closed under adding an element has D.
LEMMA SubsetInduction ==
  ASSUME NEW D, Listed(D), NEW P, {} \in P,
         \A s \in SUBSET D : \A x \in D \ s : s \in P => s \cup {x} \in P
  PROVE  D \in P
<1> DEFINE S == {n \in Nat : \A s \in SUBSET D : Cardinality(s) = n => s \in P}
<1>1. \A s \in SUBSET D : IsFiniteSet(s) /\ Cardinality(s) \in Nat
  BY ListedIsFinite, FS_Subset, FS_CardinalityType
<1>2. 0 \in S BY <1>1, FS_EmptySet
<1>3. ASSUME NEW n \in Nat, n \in S PROVE n + 1 \in S
  <2> SUFFICES ASSUME NEW s \in SUBSET D, Cardinality(s) = n + 1 PROVE s \in P OBVIOUS
  <2>1. s # {} /\ \A x \in s : Cardinality(s \ {x}) = n BY <1>1, OneLess
  <2>2. PICK x \in s : TRUE BY <2>1
  <2>3. s \ {x} \in SUBSET D /\ x \in D \ (s \ {x}) /\ (s \ {x}) \cup {x} = s BY <2>2
  <2>4. Cardinality(s \ {x}) = n BY <2>1
  <2>5. s \ {x} \in P BY <2>3, <2>4, <1>3
  <2> QED BY <2>3, <2>5
<1>4. Nat \subseteq S
  <2> HIDE DEF S
  <2> QED BY <1>2, <1>3, Induction
<1>5. D \in SUBSET D /\ Cardinality(D) \in S BY <1>1, <1>4
<1> QED BY <1>5

LEMMA Smaller ==
  ASSUME NEW D, Picks(D), NEW s \in SUBSET D, s # {}
  PROVE  /\ Pick(s) \in s /\ s \ {Pick(s)} \in SUBSET D
         /\ Cardinality(s) \in Nat /\ Cardinality(s \ {Pick(s)}) = Cardinality(s) - 1
<1>1. IsFiniteSet(s) /\ Pick(s) \in s BY FS_Subset, ListedIsFinite DEF Picks
<1> QED BY <1>1, FS_RemoveElement, FS_CardinalityType

\* There is a function that satisfies the recursion.
LEMMA UnfoldsOnce ==
  ASSUME NEW p, NEW D, Picks(D)
  PROVE  \E g : Unfolds(p, D, g)
<1> DEFINE Upto(n) == {s \in SUBSET D : Cardinality(s) <= n}
           Partial(n, g) == g = [s \in Upto(n) |-> Entry(p, s, g)]
           S == {n \in Nat : \E g : Partial(n, g)}
<1>0. \A s \in SUBSET D : IsFiniteSet(s) /\ Cardinality(s) \in Nat /\ Cardinality(s) <= Cardinality(D)
  BY FS_Subset, FS_CardinalityType, ListedIsFinite DEF Picks
<1>1. 0 \in S
  <2>1. Upto(0) = {{}} BY <1>0, FS_EmptySet
  <2>2. Partial(0, [s \in {{}} |-> Base(p)]) BY <2>1 DEF Entry
  <2> QED BY <2>2
<1>2. ASSUME NEW n \in Nat, n \in S PROVE n + 1 \in S
  <2>1. PICK g : Partial(n, g) BY <1>2
  <2> DEFINE h == [s \in Upto(n + 1) |-> Entry(p, s, g)]
  <2>2. ASSUME NEW s \in Upto(n + 1) PROVE Entry(p, s, g) = Entry(p, s, h)
    <3>1. CASE s = {} BY <3>1 DEF Entry
    <3>2. CASE s # {}
      <4> DEFINE r == s \ {Pick(s)}
      <4>1. r \in Upto(n) /\ r \in Upto(n + 1) BY <3>2, Smaller
      <4>2. g[r] = Entry(p, r, g) BY <4>1, <2>1
      <4>3. h[r] = Entry(p, r, g) BY <4>1
      <4> QED BY <4>2, <4>3, <3>2 DEF Entry
    <3> QED BY <3>1, <3>2
  <2>3. Partial(n + 1, h)
    <3> HIDE DEF Upto
    <3> SUFFICES h = [s \in Upto(n + 1) |-> Entry(p, s, h)] OBVIOUS
    <3> QED BY <2>2
  <2>4. \E k : Partial(n + 1, k)
    <3> HIDE DEF Partial, h
    <3> QED BY <2>3
  <2> HIDE DEF Partial, h
  <2> QED BY <2>4
<1>3. Cardinality(D) \in Nat BY FS_CardinalityType, ListedIsFinite DEF Picks
<1>4. Cardinality(D) \in S
  <2> HIDE DEF S
  <2> QED BY <1>1, <1>2, <1>3, Induction
<1>5. PICK g : Partial(Cardinality(D), g) BY <1>4
<1>6. Upto(Cardinality(D)) = SUBSET D BY <1>0
<1> QED BY <1>5, <1>6 DEF Unfolds

\* Two recursions that agree on the elements of E have the same values for its subsets.
LEMMA UnfoldsAlike ==
  ASSUME NEW p, NEW q, NEW D, NEW E, NEW g, NEW h, Picks(D), E \subseteq D,
         Unfolds(p, D, g), Unfolds(q, E, h), Base(p) = Base(q),
         \A x \in E : \A v : Step(p, x, v) = Step(q, x, v)
  PROVE  \A s \in SUBSET E : g[s] = h[s]
<1> DEFINE S == {n \in Nat : \A s \in SUBSET E : Cardinality(s) = n => g[s] = h[s]}
<1>0. \A s \in SUBSET E : g[s] = Entry(p, s, g) /\ h[s] = Entry(q, s, h)
  <2> SUFFICES ASSUME NEW s \in SUBSET E PROVE g[s] = Entry(p, s, g) /\ h[s] = Entry(q, s, h)
    OBVIOUS
  <2>1. s \in SUBSET D OBVIOUS
  <2> QED BY <2>1 DEF Unfolds
<1>a. \A s \in SUBSET E : IsFiniteSet(s) /\ Cardinality(s) \in Nat
  BY FS_Subset, FS_CardinalityType, ListedIsFinite DEF Picks
<1>1. 0 \in S
  BY <1>0, <1>a, FS_EmptySet DEF Entry
<1>2. ASSUME NEW n \in Nat, n \in S PROVE n + 1 \in S
  <2> SUFFICES ASSUME NEW s \in SUBSET E, Cardinality(s) = n + 1 PROVE g[s] = h[s] OBVIOUS
  <2>1. s # {} BY FS_EmptySet
  <2>2. Pick(s) \in s /\ Cardinality(s \ {Pick(s)}) = n BY <2>1, Smaller
  <2>3. g[s \ {Pick(s)}] = h[s \ {Pick(s)}] BY <2>2, <1>2
  <2> QED BY <2>1, <2>2, <2>3, <1>0 DEF Entry
<1>3. Nat \subseteq S
  <2> HIDE DEF S
  <2> QED BY <1>1, <1>2, Induction
<1> QED BY <1>3, <1>a

-----------------------------------------------------------------------------
(* Sequences: the recursion of FoldLeft. *)

Fold(p, b, s) == FoldLeft(LAMBDA v, x : Op(p, v, x), b, s)

\* The parameters are those of a fold: an operator, where it begins, a sequence.
FoldsSequences ==
  /\ \A q : Base(q) = q[2]
  /\ \A n \in Nat : \A T \in SUBSET (1..n) : T # {} => Pick(T) = Max(T)
  /\ \A q, i, v : Step(q, i, v) = Op(q[1], v, q[3][i])

\* A finite set of indices has a greatest one.
LEMMA GreatestOfFinite ==
  ASSUME NEW n \in Nat, NEW T \in SUBSET (1..n), T # {}
  PROVE  Max(T) \in T /\ \A x \in T : Max(T) >= x
<1> DEFINE S == {k \in Nat : \E x \in T : n - k = x}
<1>1. S # {} /\ S \subseteq Nat
  <2>1. PICK x \in T : TRUE OBVIOUS
  <2> n - x \in S OBVIOUS
  <2> QED OBVIOUS
<1>2. PICK k \in S : \A l \in S : k <= l
  <2> HIDE DEF S
  <2> QED BY <1>1, LeastNumber
<1>3. n - k \in T /\ \A x \in T : n - k >= x
  <2>1. n - k \in T OBVIOUS
  <2>2. ASSUME NEW x \in T PROVE n - k >= x
    <3>1. n - x \in S OBVIOUS
    <3>2. k <= n - x BY <1>2, <3>1
    <3>3. k \in Nat /\ x \in Nat OBVIOUS
    <3> HIDE DEF S
    <3> QED BY <3>2, <3>3
  <2> QED BY <2>1, <2>2
<1> HIDE DEF S
<1> QED BY <1>3 DEF Max

LEMMA PicksGreatest == ASSUME FoldsSequences, NEW n \in Nat PROVE Picks(1..n)
<1>1. Listed(1..n)
  <2> DEFINE f == [i \in 1..n |-> i]
  <2>1. f \in [1..n -> 1..n] /\ \A x \in 1..n : f[x] = x OBVIOUS
  <2> QED BY <2>1 DEF Listed
<1> QED BY <1>1, GreatestOfFinite DEF Picks, FoldsSequences

\* The fold is a recursion over the indices of the sequence.
LEMMA FoldUnfolds ==
  ASSUME FoldsSequences, NEW p, NEW b, NEW S, NEW s \in Seq(S)
  PROVE  \E g : Unfolds(<<p, b, s>>, 1..Len(s), g) /\ Fold(p, b, s) = g[1..Len(s)]
<1> DEFINE q == <<p, b, s>>
<1>1. PICK g : Unfolds(q, 1..Len(s), g) BY PicksGreatest, UnfoldsOnce, LenProperties
<1>2. DOMAIN s = 1..Len(s) BY LenProperties
<1>3. \A h : Unfolds(q, 1..Len(s), h) <=>
        h = [t \in SUBSET (1..Len(s)) |->
               IF t = {} THEN b ELSE Op(p, h[t \ {Max(t)}], s[Max(t)])]
  <2> DEFINE n == Len(s)
             Value(t, h) == IF t = {} THEN b ELSE Op(p, h[t \ {Max(t)}], s[Max(t)])
  <2>1. n \in Nat BY LenProperties
  <2> HIDE DEF n
  <2>2. ASSUME NEW h, NEW t \in SUBSET (1..n) PROVE Entry(q, t, h) = Value(t, h)
    <3>1. CASE t = {} BY <3>1 DEF Entry, FoldsSequences
    <3>2. CASE t # {}
      <4>1. Pick(t) = Max(t) BY <2>1, <3>2 DEF FoldsSequences
      <4>2. \A i, v : Step(q, i, v) = Op(p, v, s[i]) BY DEF FoldsSequences
      <4> QED BY <3>2, <4>1, <4>2 DEF Entry
    <3> QED BY <3>1, <3>2
  <2>3. \A h : Unfolds(q, 1..n, h) <=> h = [t \in SUBSET (1..n) |-> Value(t, h)]
    <3> HIDE DEF Value, q
    <3> QED BY <2>2 DEF Unfolds
  <2> QED BY <2>3 DEF n
<1> QED BY <1>1, <1>2, <1>3 DEF Fold, FoldLeft, MapThenFoldSet

(* The fold of no elements is the value it begins with. *)
LEMMA FoldEmpty == ASSUME FoldsSequences, NEW p, NEW b PROVE Fold(p, b, <<>>) = b
<1>1. <<>> \in Seq({}) /\ Len(<<>>) = 0 OBVIOUS
<1>2. PICK g : Unfolds(<<p, b, <<>>>>, 1..0, g) /\ Fold(p, b, <<>>) = g[1..0]
  BY <1>1, FoldUnfolds
<1>3. 1..0 = {} OBVIOUS
<1> QED BY <1>2, <1>3 DEF Unfolds, Entry, FoldsSequences

(* The fold of a sequence with one more element is one application of the   *)
(* operator to the fold of the sequence: what the runner, the recorder and  *)
(* the capture compute from a log changes so when the log grows.            *)
LEMMA FoldAppend ==
  ASSUME FoldsSequences, NEW p, NEW b, NEW S, NEW s \in Seq(S), NEW x \in S
  PROVE  Fold(p, b, Append(s, x)) = Op(p, Fold(p, b, s), x)
<1> DEFINE t == Append(s, x)
           n == Len(s)
<1>1. t \in Seq(S) /\ Len(t) = n + 1 /\ n \in Nat /\ t[n + 1] = x /\ \A i \in 1..n : t[i] = s[i]
  OBVIOUS
<1>2. PICK g : Unfolds(<<p, b, s>>, 1..n, g) /\ Fold(p, b, s) = g[1..n]
  BY FoldUnfolds
<1> HIDE DEF t
<1>3. PICK h : Unfolds(<<p, b, t>>, 1..(n + 1), h) /\ Fold(p, b, t) = h[1..(n + 1)]
  BY FoldUnfolds, <1>1
<1> HIDE DEF n
<1>4. \A i \in 1..n : \A v : Step(<<p, b, t>>, i, v) = Step(<<p, b, s>>, i, v)
  BY <1>1 DEF FoldsSequences
<1>5. Base(<<p, b, t>>) = Base(<<p, b, s>>) BY DEF FoldsSequences
<1>6. Picks(1..(n + 1)) BY <1>1, PicksGreatest
<1>7. 1..n \subseteq 1..(n + 1) BY <1>1
<1>8. \A r \in SUBSET (1..n) : h[r] = g[r]
  <2> DEFINE D == 1..(n + 1)
             E == 1..n
             p1 == <<p, b, t>>
             p2 == <<p, b, s>>
  <2>1. /\ Picks(D) /\ E \subseteq D /\ Unfolds(p1, D, h) /\ Unfolds(p2, E, g)
        /\ Base(p1) = Base(p2) /\ \A i \in E : \A v : Step(p1, i, v) = Step(p2, i, v)
    BY <1>2, <1>3, <1>4, <1>5, <1>6, <1>7
  <2>2. \A r \in SUBSET E : h[r] = g[r]
    <3> HIDE DEF D, E, p1, p2
    <3> QED BY <2>1, UnfoldsAlike
  <2> QED BY <2>2
<1>9. h[1..n] = g[1..n] BY <1>8
<1>10. Max(1..(n + 1)) = n + 1
  <2>1. /\ Max(1..(n + 1)) \in 1..(n + 1) /\ \A i \in 1..(n + 1) : Max(1..(n + 1)) >= i
    <3>1. n + 1 \in Nat /\ 1..(n + 1) \in SUBSET (1..(n + 1)) /\ 1..(n + 1) # {} BY <1>1
    <3> QED BY <3>1, GreatestOfFinite
  <2> QED BY <2>1, <1>1
<1>11. h[1..(n + 1)] = Op(p, h[1..n], x)
  <2>0. n \in Nat BY <1>1
  <2>1. n + 1 \in 1..(n + 1) /\ 1..(n + 1) # {}
    <3>1. n + 1 \in 1..(n + 1) BY <2>0
    <3> QED BY <3>1
  <2>2. (1..(n + 1)) \ {n + 1} = 1..n BY <1>1
  <2>3. h[1..(n + 1)] = Entry(<<p, b, t>>, 1..(n + 1), h) BY <1>3 DEF Unfolds
  <2>4. n + 1 \in Nat BY <1>1
  <2>5. Pick(1..(n + 1)) = n + 1 BY <1>10, <2>1, <2>4 DEF FoldsSequences
  <2>6. \A v : Step(<<p, b, t>>, n + 1, v) = Op(p, v, x) BY <1>1 DEF FoldsSequences
  <2> QED BY <2>1, <2>2, <2>3, <2>5, <2>6 DEF Entry
<1> QED BY <1>2, <1>3, <1>9, <1>11 DEF t

\* Sequences grow from the empty one, an element at a time.
LEMMA SequenceInduction ==
  ASSUME NEW S, NEW P, <<>> \in P, \A s \in Seq(S) : \A x \in S : s \in P => Append(s, x) \in P
  PROVE  Seq(S) \subseteq P
<1> DEFINE N == {n \in Nat : \A s \in Seq(S) : Len(s) = n => s \in P}
<1>1. 0 \in N
  <2>1. \A s \in Seq(S) : Len(s) = 0 => s = <<>> BY EmptySeq
  <2> QED BY <2>1
<1>2. ASSUME NEW n \in Nat, n \in N PROVE n + 1 \in N
  <2> SUFFICES ASSUME NEW s \in Seq(S), Len(s) = n + 1 PROVE s \in P OBVIOUS
  <2>1. s # <<>> OBVIOUS
  <2>2. PICK t \in Seq(S), x \in S : s = Append(t, x) BY <2>1, SequenceEmptyOrAppend
  <2>3. Len(t) = n BY <2>2
  <2> QED BY <2>2, <2>3, <1>2
<1>3. Nat \subseteq N
  <2> HIDE DEF N
  <2> QED BY <1>1, <1>2, Induction
<1> QED BY <1>3, LenProperties

(* A fold goes on where an earlier one ended: a stream that arrives in      *)
(* pieces is folded like the whole.                                         *)
LEMMA FoldConcat ==
  ASSUME FoldsSequences, NEW p, NEW b, NEW S, NEW s \in Seq(S), NEW t \in Seq(S)
  PROVE  Fold(p, b, s \o t) = Fold(p, Fold(p, b, s), t)
<1> DEFINE P == {r \in Seq(S) : Fold(p, b, s \o r) = Fold(p, Fold(p, b, s), r)}
<1>1. <<>> \in P
  <2>1. s \o <<>> = s /\ <<>> \in Seq(S) OBVIOUS
  <2> QED BY <2>1, FoldEmpty
<1>2. ASSUME NEW r \in Seq(S), NEW x \in S, r \in P PROVE Append(r, x) \in P
  <2>1. s \o Append(r, x) = Append(s \o r, x) /\ s \o r \in Seq(S) /\ Append(r, x) \in Seq(S)
    OBVIOUS
  <2>2. \A u \in Seq(S) : Fold(p, b, Append(u, x)) = Op(p, Fold(p, b, u), x) BY FoldAppend
  <2>3. Fold(p, Fold(p, b, s), Append(r, x)) = Op(p, Fold(p, Fold(p, b, s), r), x) BY FoldAppend
  <2> QED BY <1>2, <2>1, <2>2, <2>3
<1> HIDE DEF P
<1>3. Seq(S) \subseteq P BY <1>1, <1>2, SequenceInduction
<1> QED BY <1>3 DEF P

(* What every application keeps of two values, their folds keep.            *)
LEMMA FoldsKeep ==
  ASSUME FoldsSequences, NEW p, NEW S, NEW R, NEW b, NEW c, <<b, c>> \in R,
         \A v, w : \A x \in S : <<v, w>> \in R => <<Op(p, v, x), Op(p, w, x)>> \in R,
         NEW s \in Seq(S)
  PROVE  <<Fold(p, b, s), Fold(p, c, s)>> \in R
<1> DEFINE P == {r \in Seq(S) : <<Fold(p, b, r), Fold(p, c, r)>> \in R}
<1>1. <<>> \in P
  <2>1. <<>> \in Seq(S) OBVIOUS
  <2> QED BY <2>1, FoldEmpty
<1>2. ASSUME NEW r \in Seq(S), NEW x \in S, r \in P PROVE Append(r, x) \in P
  <2>1. /\ Fold(p, b, Append(r, x)) = Op(p, Fold(p, b, r), x)
        /\ Fold(p, c, Append(r, x)) = Op(p, Fold(p, c, r), x)
    BY FoldAppend
  <2>2. Append(r, x) \in Seq(S) OBVIOUS
  <2> QED BY <1>2, <2>1, <2>2
<1> HIDE DEF P
<1>3. Seq(S) \subseteq P BY <1>1, <1>2, SequenceInduction
<1> QED BY <1>3 DEF P

(* What every application keeps of a value, its fold keeps.                 *)
LEMMA FoldKeeps ==
  ASSUME FoldsSequences, NEW p, NEW S, NEW R, NEW b \in R, \A v \in R : \A x \in S : Op(p, v, x) \in R,
         NEW s \in Seq(S)
  PROVE  Fold(p, b, s) \in R
<1> DEFINE P == {r \in Seq(S) : Fold(p, b, r) \in R}
<1>1. <<>> \in P
  <2>1. <<>> \in Seq(S) OBVIOUS
  <2> QED BY <2>1, FoldEmpty
<1>2. ASSUME NEW r \in Seq(S), NEW x \in S, r \in P PROVE Append(r, x) \in P
  <2>1. Fold(p, b, Append(r, x)) = Op(p, Fold(p, b, r), x) BY FoldAppend
  <2>2. Append(r, x) \in Seq(S) OBVIOUS
  <2> QED BY <1>2, <2>1, <2>2
<1> HIDE DEF P
<1>3. Seq(S) \subseteq P BY <1>1, <1>2, SequenceInduction
<1> QED BY <1>3 DEF P
==============================================================================
