---------------------------- MODULE MeasureProofs ----------------------------
(***************************************************************************)
(* What holds of what a session and a performance run measure and record,  *)
(* for any table of processes, plan, delays, loads, length, ports, writes  *)
(* and limits: the CPU counter of a process tree counts every process once *)
(* (ProcessTree), the report keeps what it promises about time, windows,   *)
(* growth and recovery (RunMetrics), and the record of MIDI output has     *)
(* every message once and in order (MidiCapture).                          *)
(*                                                                         *)
(* All three add up finite sets.  The sums are SumFunction's, a recursion  *)
(* that takes an arbitrary element each time; Folding gives the induction  *)
(* by which a sum does not depend on that choice, and the one by which a   *)
(* stream that comes in pieces is decoded as a whole.                      *)
(***************************************************************************)
EXTENDS ProcessTree, RunMetrics, MidiCapture, FiniteSetTheorems, SequenceTheorems, TLAPS

-----------------------------------------------------------------------------
(* Sums over finite sets. *)

Element(s) == CHOOSE x \in s : TRUE
Adds(f, x, v) == f[x] + v
NoSum(f) == 0
Summing == INSTANCE Folding WITH Base <- NoSum, Pick <- Element, Step <- Adds, Op <- Adds

SumOf(f, S) == SumFunctionOnSet(f, S)

LEMMA FiniteIsListed ==
  ASSUME NEW S, IsFiniteSet(S) PROVE Summing!Picks(S) /\ Summing!Listed(S)
<1>1. PICK n \in Nat : ExistsBijection(1..n, S) BY FS_NatBijection
<1>2. PICK f \in [1..n -> S] : \A x \in S : \E i \in 1..n : f[i] = x
  BY <1>1 DEF ExistsBijection, Bijection, Surjection
<1>3. Summing!Listed(S) BY <1>2 DEF Summing!Listed
<1>4. \A s \in SUBSET S : s # {} => Element(s) \in s BY DEF Element
<1> QED BY <1>3, <1>4 DEF Summing!Picks

LEMMA OneFewer ==
  ASSUME NEW s, IsFiniteSet(s), NEW n \in Nat, Cardinality(s) = n + 1
  PROVE  s # {} /\ \A x \in s : Cardinality(s \ {x}) = n
<1>1. s # {} BY FS_EmptySet
<1>2. \A x \in s : Cardinality(s \ {x}) = Cardinality(s) - 1 BY FS_RemoveElement
<1> QED BY <1>1, <1>2

LEMMA SumUnfolds ==
  ASSUME NEW f, NEW S, IsFiniteSet(S)
  PROVE  \E g : Summing!Unfolds(f, S, g) /\ SumOf(f, S) = g[S]
<1>1. PICK g : Summing!Unfolds(f, S, g) BY FiniteIsListed, Summing!UnfoldsOnce
<1>2. \A h : Summing!Unfolds(f, S, h) <=>
        h = [s \in SUBSET S |-> IF s = {} THEN 0
                                ELSE f[CHOOSE x \in s : TRUE] + h[s \ {CHOOSE x \in s : TRUE}]]
  BY DEF Summing!Unfolds, Summing!Entry, Element, Adds, NoSum
<1>3. SumOf(f, S) = (CHOOSE h : h = [s \in SUBSET S |->
                              IF s = {} THEN 0
                              ELSE f[CHOOSE x \in s : TRUE] + h[s \ {CHOOSE x \in s : TRUE}]])[S]
  BY DEF SumOf, SumFunctionOnSet, FoldFunctionOnSet, MapThenFoldSet
<1> DEFINE Is(h) == h = [s \in SUBSET S |->
                              IF s = {} THEN 0
                              ELSE f[CHOOSE x \in s : TRUE] + h[s \ {CHOOSE x \in s : TRUE}]]
<1>4. Is(g) BY <1>1, <1>2
<1>5. Is(CHOOSE h : Is(h))
  <2> HIDE DEF Is
  <2> QED BY <1>4
<1>6. Summing!Unfolds(f, S, CHOOSE h : Is(h)) BY <1>2, <1>5
<1> QED BY <1>3, <1>6

LEMMA SumEmpty == ASSUME NEW f PROVE SumOf(f, {}) = 0
<1>1. PICK g : Summing!Unfolds(f, {}, g) /\ SumOf(f, {}) = g[{}] BY SumUnfolds, FS_EmptySet
<1> QED BY <1>1 DEF Summing!Unfolds, Summing!Entry, NoSum

LEMMA SumChosen ==
  ASSUME NEW f, NEW S, IsFiniteSet(S), S # {}
  PROVE  Element(S) \in S /\ SumOf(f, S) = f[Element(S)] + SumOf(f, S \ {Element(S)})
<1>1. PICK g : Summing!Unfolds(f, S, g) /\ SumOf(f, S) = g[S] BY SumUnfolds
<1> DEFINE r == S \ {Element(S)}
<1>2. IsFiniteSet(r) BY FS_Subset
<1>3. PICK h : Summing!Unfolds(f, r, h) /\ SumOf(f, r) = h[r] BY <1>2, SumUnfolds
<1>4. r \subseteq S /\ r \in SUBSET r OBVIOUS
<1>5. NoSum(f) = NoSum(f) /\ \A x \in r : \A v : Adds(f, x, v) = Adds(f, x, v) OBVIOUS
<1>6. \A s \in SUBSET r : g[s] = h[s]
  <2> HIDE DEF r
  <2>1. Summing!Picks(S) BY FiniteIsListed
  <2> QED BY <1>1, <1>3, <1>4, <1>5, <2>1, Summing!UnfoldsAlike
<1>7. g[S] = Adds(f, Element(S), g[r]) BY <1>1 DEF Summing!Unfolds, Summing!Entry
<1>8. Element(S) \in S BY DEF Element
<1> QED BY <1>1, <1>3, <1>4, <1>6, <1>7, <1>8 DEF Adds

LEMMA SumIsInt ==
  ASSUME NEW S, IsFiniteSet(S), NEW f, \A x \in S : f[x] \in Int
  PROVE  SumOf(f, S) \in Int
<1> DEFINE T == {n \in Nat : \A s \in SUBSET S : Cardinality(s) = n => SumOf(f, s) \in Int}
<1>1. \A s \in SUBSET S : IsFiniteSet(s) /\ Cardinality(s) \in Nat
  BY FS_Subset, FS_CardinalityType
<1>2. 0 \in T BY <1>1, FS_EmptySet, SumEmpty
<1>3. ASSUME NEW n \in Nat, n \in T PROVE n + 1 \in T
  <2> SUFFICES ASSUME NEW s \in SUBSET S, Cardinality(s) = n + 1 PROVE SumOf(f, s) \in Int OBVIOUS
  <2>1. s # {} /\ \A x \in s : Cardinality(s \ {x}) = n BY <1>1, OneFewer
  <2>2. Element(s) \in s /\ SumOf(f, s) = f[Element(s)] + SumOf(f, s \ {Element(s)})
    BY <1>1, <2>1, SumChosen
  <2>3. Cardinality(s \ {Element(s)}) = n BY <2>1, <2>2
  <2>4. SumOf(f, s \ {Element(s)}) \in Int BY <1>3, <2>3
  <2> QED BY <2>2, <2>4
<1>4. Nat \subseteq T
  <2> HIDE DEF T
  <2> QED BY <1>2, <1>3, Summing!Induction
<1>5. Cardinality(S) \in T BY <1>1, <1>4
<1> QED BY <1>5

\* A sum can be taken in any order.
LEMMA SumRemove ==
  ASSUME NEW S, IsFiniteSet(S), NEW f, \A x \in S : f[x] \in Int, NEW x \in S
  PROVE  SumOf(f, S) = f[x] + SumOf(f, S \ {x})
<1> DEFINE Moves(s) == \A y \in s : SumOf(f, s) = f[y] + SumOf(f, s \ {y})
           T == {n \in Nat : \A s \in SUBSET S : Cardinality(s) = n => Moves(s)}
<1>1. \A s \in SUBSET S : IsFiniteSet(s) /\ Cardinality(s) \in Nat
  BY FS_Subset, FS_CardinalityType
<1>a. \A s \in SUBSET S : SumOf(f, s) \in Int BY <1>1, SumIsInt
<1>2. 0 \in T BY <1>1, FS_EmptySet
<1>3. ASSUME NEW n \in Nat, n \in T PROVE n + 1 \in T
  <2> SUFFICES ASSUME NEW s \in SUBSET S, Cardinality(s) = n + 1, NEW y \in s
               PROVE  SumOf(f, s) = f[y] + SumOf(f, s \ {y}) OBVIOUS
  <2> DEFINE c == Element(s)
  <2>1. s # {} /\ \A x1 \in s : Cardinality(s \ {x1}) = n BY <1>1, OneFewer
  <2>2. c \in s /\ SumOf(f, s) = f[c] + SumOf(f, s \ {c})
    BY <1>1, <2>1, SumChosen
  <2> HIDE DEF c
  <2>3. CASE c = y BY <2>2, <2>3
  <2>4. CASE c # y
    <3>1. Cardinality(s \ {c}) = n /\ Cardinality(s \ {y}) = n BY <2>1, <2>2
    <3>2. y \in s \ {c} /\ c \in s \ {y} BY <2>2, <2>4
    <3>3. SumOf(f, s \ {c}) = f[y] + SumOf(f, (s \ {c}) \ {y}) BY <1>3, <3>1, <3>2
    <3>5. (s \ {y}) \ {c} = (s \ {c}) \ {y} OBVIOUS
    <3>4. SumOf(f, s \ {y}) = f[c] + SumOf(f, (s \ {c}) \ {y}) BY <1>3, <3>1, <3>2, <3>5
    <3>6. SumOf(f, (s \ {c}) \ {y}) \in Int /\ f[c] \in Int /\ f[y] \in Int BY <1>a, <2>2
    <3>7. SumOf(f, s) = f[c] + (f[y] + SumOf(f, (s \ {c}) \ {y})) BY <2>2, <3>3
    <3> QED BY <3>4, <3>6, <3>7
  <2> QED BY <2>3, <2>4
<1>4. Nat \subseteq T
  <2> HIDE DEF T
  <2> QED BY <1>2, <1>3, Summing!Induction
<1>5. Cardinality(S) \in T BY <1>1, <1>4
<1> QED BY <1>5

LEMMA SumAdd ==
  ASSUME NEW S, IsFiniteSet(S), NEW f, NEW x, x \notin S, \A y \in S \cup {x} : f[y] \in Int
  PROVE  SumOf(f, S \cup {x}) = f[x] + SumOf(f, S)
<1>1. IsFiniteSet(S \cup {x}) BY FS_AddElement
<1>2. (S \cup {x}) \ {x} = S /\ x \in S \cup {x} OBVIOUS
<1> QED BY <1>1, <1>2, SumRemove

\* Only the values matter.
LEMMA SumAgrees ==
  ASSUME NEW S, IsFiniteSet(S), NEW f, NEW g, \A x \in S : f[x] = g[x] /\ f[x] \in Int
  PROVE  SumOf(f, S) = SumOf(g, S)
<1> DEFINE P == {s \in SUBSET S : SumOf(f, s) = SumOf(g, s)}
<1>1. {} \in P BY SumEmpty
<1>2. ASSUME NEW s \in SUBSET S, NEW x \in S \ s, s \in P PROVE s \cup {x} \in P
  <2>1. IsFiniteSet(s) /\ \A y \in s \cup {x} : f[y] \in Int /\ g[y] \in Int BY FS_Subset
  <2> QED BY <1>2, <2>1, SumAdd
<1>3. S \in P
  <2> HIDE DEF P
  <2> QED BY <1>1, <1>2, FiniteIsListed, Summing!SubsetInduction
<1> QED BY <1>3

\* A sum over a set that another is injected into, with values at least as great.
LEMMA SumInjected ==
  ASSUME NEW S, IsFiniteSet(S), NEW T, IsFiniteSet(T), NEW f, NEW g, NEW h \in [S -> T],
         \A x, y \in S : h[x] = h[y] => x = y,
         \A x \in S : f[x] \in Nat /\ f[x] <= g[h[x]],
         \A y \in T : g[y] \in Nat
  PROVE  SumOf(f, S) <= SumOf(g, T)
<1> DEFINE Im(s) == {h[x] : x \in s}
           P == {s \in SUBSET S : SumOf(f, s) <= SumOf(g, Im(s))}
<1>0. \A s \in SUBSET S : IsFiniteSet(s) /\ IsFiniteSet(Im(s)) /\ Im(s) \in SUBSET T
  <2> TAKE s \in SUBSET S
  <2>1. Im(s) \in SUBSET T OBVIOUS
  <2> QED BY <2>1, FS_Subset
<1>a. \A s \in SUBSET S : SumOf(f, s) \in Int
  <2>1. \A s \in SUBSET S : IsFiniteSet(s) BY <1>0
  <2>2. \A s \in SUBSET S : \A x \in s : f[x] \in Int OBVIOUS
  <2> HIDE DEF Im
  <2> QED BY <2>1, <2>2, SumIsInt
<1>b. \A t \in SUBSET T : SumOf(g, t) \in Int BY FS_Subset, SumIsInt
<1>1. {} \in P
  <2>1. Im({}) = {} OBVIOUS
  <2> QED BY <2>1, SumEmpty
<1>2. ASSUME NEW s \in SUBSET S, NEW x \in S \ s, s \in P PROVE s \cup {x} \in P
  <2>1. Im(s \cup {x}) = Im(s) \cup {h[x]} /\ h[x] \notin Im(s) OBVIOUS
  <2>2. SumOf(f, s \cup {x}) = f[x] + SumOf(f, s)
    <3>1. \A y \in s \cup {x} : f[y] \in Int OBVIOUS
    <3> QED BY <3>1, <1>0, SumAdd
  <2>3. SumOf(g, Im(s) \cup {h[x]}) = g[h[x]] + SumOf(g, Im(s))
    <3>1. h[x] \in T /\ Im(s) \in SUBSET T BY <1>0
    <3>2. \A y \in Im(s) \cup {h[x]} : g[y] \in Int BY <3>1
    <3> HIDE DEF Im
    <3> QED BY <2>1, <3>2, <1>0, SumAdd
  <2>4. /\ f[x] \in Int /\ g[h[x]] \in Int /\ f[x] <= g[h[x]]
        /\ SumOf(f, s) \in Int /\ SumOf(g, Im(s)) \in Int /\ SumOf(f, s) <= SumOf(g, Im(s))
    BY <1>0, <1>a, <1>b, <1>2
  <2> HIDE DEF Im
  <2>5. f[x] + SumOf(f, s) <= g[h[x]] + SumOf(g, Im(s)) BY <2>4
  <2>6. s \cup {x} \in SUBSET S OBVIOUS
  <2> QED BY <2>1, <2>2, <2>3, <2>5, <2>6
<1>3. S \in P
  <2> HIDE DEF P
  <2> QED BY <1>1, <1>2, FiniteIsListed, Summing!SubsetInduction
<1> DEFINE Q == {t \in SUBSET (T \ Im(S)) : SumOf(g, Im(S)) <= SumOf(g, Im(S) \cup t)}
<1>4. {} \in Q
  <2>1. SumOf(g, Im(S)) \in Int BY <1>0, <1>b
  <2>2. Im(S) \cup {} = Im(S) OBVIOUS
  <2> HIDE DEF Im
  <2> QED BY <2>1, <2>2
<1>5. ASSUME NEW t \in SUBSET (T \ Im(S)), NEW y \in (T \ Im(S)) \ t, t \in Q PROVE t \cup {y} \in Q
  <2>1. Im(S) \cup t \in SUBSET T /\ Im(S) \in SUBSET T BY <1>0
  <2> HIDE DEF Im
  <2>2. IsFiniteSet(Im(S) \cup t) /\ y \notin Im(S) \cup t BY <2>1, FS_Subset
  <2>3. SumOf(g, (Im(S) \cup t) \cup {y}) = g[y] + SumOf(g, Im(S) \cup t)
    <3>1. \A z \in (Im(S) \cup t) \cup {y} : g[z] \in Int BY <2>1
    <3> QED BY <3>1, <2>2, SumAdd
  <2>4. g[y] \in Nat /\ SumOf(g, Im(S) \cup t) \in Int /\ SumOf(g, Im(S)) \in Int BY <1>b, <2>1
  <2>5. (Im(S) \cup t) \cup {y} = Im(S) \cup (t \cup {y}) OBVIOUS
  <2>6. SumOf(g, Im(S)) <= SumOf(g, Im(S) \cup t) BY <1>5
  <2>7. SumOf(g, Im(S) \cup t) <= SumOf(g, (Im(S) \cup t) \cup {y}) BY <2>3, <2>4
  <2>8. SumOf(g, Im(S)) <= SumOf(g, (Im(S) \cup t) \cup {y})
    <3> DEFINE a == SumOf(g, Im(S))
               b == SumOf(g, Im(S) \cup t)
               c == SumOf(g, (Im(S) \cup t) \cup {y})
    <3>1. a \in Int /\ b \in Int /\ c \in Int BY <2>3, <2>4
    <3>2. a <= b /\ b <= c BY <2>6, <2>7
    <3> HIDE DEF a, b, c
    <3>3. a <= c BY <3>1, <3>2
    <3> QED BY <3>3 DEF a, c
  <2>9. t \cup {y} \in SUBSET (T \ Im(S)) OBVIOUS
  <2> QED BY <2>5, <2>8, <2>9
<1>6. T \ Im(S) \in Q
  <2>1. IsFiniteSet(T \ Im(S)) BY FS_Subset
  <2> HIDE DEF Q
  <2> QED BY <1>4, <1>5, <2>1, FiniteIsListed, Summing!SubsetInduction
<1>7. Im(S) \cup (T \ Im(S)) = T BY <1>0
<1>8. SumOf(f, S) \in Int /\ SumOf(g, Im(S)) \in Int /\ SumOf(g, T) \in Int BY <1>0, <1>a, <1>b
<1> HIDE DEF Im
<1>9. SumOf(f, S) <= SumOf(g, Im(S)) BY <1>3
<1>10. SumOf(g, Im(S)) <= SumOf(g, T) BY <1>6, <1>7
<1> QED BY <1>8, <1>9, <1>10

-----------------------------------------------------------------------------
(* The CPU counter.  What the sampler knows is what the table showed at    *)
(* its samples: of a process that still runs it knows no more CPU time     *)
(* than that process has by now (KnownInv), and the last sample is the sum *)
(* of what is known (CountInv).                                            *)

Processes == [start : Nat, parent : Nat, cpu : Nat]
KnownCpus == [id : Pids \X Nat, cpu : Nat]
CpuOf(s) == SumFunction([k \in s |-> k.cpu])

\* No two processes have the same start.
TableInv ==
  /\ table \in [Pids -> Processes] /\ past.forks \in Nat
  /\ past = [forks |-> past.forks, sampled |-> past.sampled]
  /\ \A p \in Pids : table[p].start <= past.forks /\ (table[p].start = 0 => table[p] = NoProcess)
  /\ \A p, q \in Pids : table[p].start = table[q].start /\ table[p].start # 0 => p = q

KnownInv ==
  /\ sampler.known \in SUBSET KnownCpus /\ IsFiniteSet(sampler.known)
  /\ \A k \in sampler.known : k.id[2] \in 1..past.forks
  /\ \A k, l \in sampler.known : k.id[2] = l.id[2] => k = l
  /\ \A k \in sampler.known, p \in Pids :
       table[p].start = k.id[2] => p = k.id[1] /\ k.cpu <= table[p].cpu

CountInv ==
  /\ past.sampled = {[start |-> k.id[2], cpu |-> k.cpu] : k \in sampler.known}
  /\ sampler.samples \in Seq(Nat)
  /\ \A i \in 1..(Len(sampler.samples) - 1) : sampler.samples[i] <= sampler.samples[i + 1]
  /\ sampler.samples # <<>> => Last(sampler.samples) = CpuOf(sampler.known)

TreeInv == TableInv /\ KnownInv /\ CountInv

LEMMA LiveStarts ==
  ASSUME TableInv PROVE \A p \in Pids : p \in Live <=> table[p].start # 0
BY DEF TableInv, Live, NoProcess

LEMMA CpuIsSum ==
  ASSUME NEW S, IsFiniteSet(S), \A k \in S : k.cpu \in Nat
  PROVE  CpuOf(S) = SumOf([k \in S |-> k.cpu], S) /\ CpuOf(S) \in Nat
<1> DEFINE f == [k \in S |-> k.cpu]
<1>1. CpuOf(S) = SumOf(f, S) BY DEF CpuOf, SumFunction, SumOf
<1>2. \A k \in S : f[k] \in Int OBVIOUS
<1>3. SumOf(f, S) \in Int BY <1>2, SumIsInt
<1>4. 0 <= SumOf(f, S)
  <2>1. SumOf(f, {}) = 0 BY SumEmpty
  <2>2. SumOf(f, {}) <= SumOf(f, S)
    <3>1. \A k \in S : f[k] \in Nat OBVIOUS
    <3>2. IsFiniteSet({}) BY FS_EmptySet
    <3>3. [x \in {} |-> x] \in [{} -> S] OBVIOUS
    <3> HIDE DEF f
    <3> QED BY <3>1, <3>2, <3>3, SumInjected
  <2> QED BY <2>1, <2>2
<1> QED BY <1>1, <1>3, <1>4

LEMMA CpuGrows ==
  ASSUME NEW S, IsFiniteSet(S), NEW T, IsFiniteSet(T), NEW h \in [S -> T],
         \A k \in S : k.cpu \in Nat, \A k \in T : k.cpu \in Nat,
         \A k, l \in S : h[k] = h[l] => k = l, \A k \in S : k.cpu <= h[k].cpu
  PROVE  CpuOf(S) <= CpuOf(T)
<1> DEFINE f == [k \in S |-> k.cpu]
           g == [k \in T |-> k.cpu]
<1>1. \A k \in S : f[k] \in Nat /\ f[k] <= g[h[k]] OBVIOUS
<1>2. \A k \in T : g[k] \in Nat OBVIOUS
<1>3. SumOf(f, S) <= SumOf(g, T)
  <2> HIDE DEF f, g
  <2> QED BY <1>1, <1>2, SumInjected
<1> QED BY <1>3, CpuIsSum

\* The entries of a sample: those of the processes it saw, and the old ones of the others.
Seen == {[id |-> <<p, table[p].start>>, cpu |-> table[p].cpu] : p \in Selected}
Unseen == {k \in sampler.known : \A l \in Seen : l.id # k.id}

LEMMA KnownIsNowAndRest ==
  ASSUME TableInv, KnownInv PROVE Known = Seen \cup Unseen
<1>1. ASSUME NEW p \in Pids
      PROVE  table[p].cpu \in Nat /\ Prior(Identity(p)) \in Nat /\ Prior(Identity(p)) <= table[p].cpu
  <2> DEFINE old == {l \in sampler.known : l.id = Identity(p)}
  <2>1. table[p].cpu \in Nat BY DEF TableInv, Processes
  <2>2. CASE old = {} BY <2>1, <2>2 DEF Prior
  <2>3. CASE old # {}
    <3> DEFINE l == CHOOSE l \in old : TRUE
    <3>1. l \in old BY <2>3
    <3>2. Prior(Identity(p)) = l.cpu BY <2>3 DEF Prior
    <3> HIDE DEF l
    <3>3. l \in sampler.known /\ l.id[2] = table[p].start BY <3>1 DEF Identity
    <3>4. l.cpu <= table[p].cpu BY <3>3 DEF KnownInv
    <3>5. l.cpu \in Nat BY <3>3 DEF KnownInv, KnownCpus
    <3> QED BY <2>1, <3>2, <3>4, <3>5
  <2> QED BY <2>2, <2>3
<1>2. Selected \subseteq Pids BY DEF Selected, Live
<1>3. \A p \in Selected :
        (IF table[p].cpu > Prior(Identity(p)) THEN table[p].cpu ELSE Prior(Identity(p)))
          = table[p].cpu
  BY <1>1, <1>2
<1>4. {[id |-> Identity(p),
        cpu |-> IF table[p].cpu > Prior(Identity(p)) THEN table[p].cpu
                ELSE Prior(Identity(p))] : p \in Selected} = Seen
  BY <1>3 DEF Seen, Identity
<1> QED BY <1>4 DEF Known, Unseen

LEMMA NowIsTyped ==
  ASSUME TableInv
  PROVE  /\ Seen \in SUBSET KnownCpus /\ IsFiniteSet(Seen)
         /\ \A k \in Seen : \E p \in Selected : /\ k.id = <<p, table[p].start>> /\ k.cpu = table[p].cpu
                                               /\ p \in Pids /\ table[p].start \in 1..past.forks
                                               /\ k.id[1] = p /\ k.id[2] = table[p].start
<1>1. IsFiniteSet(Pids) BY ProcessTreeAssumption
<1>2. Selected \subseteq Pids /\ \A p \in Selected : p \in Live BY DEF Selected, Live
<1>3. IsFiniteSet(Selected) BY <1>1, <1>2, FS_Subset
<1>4. IsFiniteSet(Seen)
  <2> DEFINE Entry(p) == [id |-> <<p, table[p].start>>, cpu |-> table[p].cpu]
             f == [p \in Selected |-> Entry(p)]
  <2>1. f \in Surjection(Selected, Seen) BY DEF Seen, Surjection
  <2> QED BY <1>3, <2>1, FS_Surjection
<1>5. \A p \in Selected : table[p] \in Processes /\ table[p].start \in 1..past.forks
  <2> TAKE p \in Selected
  <2>1. table[p] \in Processes /\ table[p].start # 0 /\ table[p].start <= past.forks /\ past.forks \in Nat
    BY <1>2, LiveStarts DEF TableInv
  <2>2. table[p].start \in Nat BY <2>1 DEF Processes
  <2> QED BY <2>1, <2>2
<1>6. ASSUME NEW k \in Seen
      PROVE  /\ k \in KnownCpus
             /\ \E p \in Selected : /\ k.id = <<p, table[p].start>> /\ k.cpu = table[p].cpu
                                    /\ p \in Pids /\ table[p].start \in 1..past.forks
                                    /\ k.id[1] = p /\ k.id[2] = table[p].start
  <2>1. PICK p \in Selected : k = [id |-> <<p, table[p].start>>, cpu |-> table[p].cpu] BY DEF Seen
  <2>2. p \in Pids /\ table[p].start \in Nat /\ table[p].cpu \in Nat /\ table[p].start \in 1..past.forks
    BY <1>2, <1>5 DEF Processes
  <2>3. <<p, table[p].start>> \in Pids \X Nat BY <2>2
  <2>4. k \in KnownCpus BY <2>1, <2>2, <2>3 DEF KnownCpus
  <2> QED BY <2>1, <2>2, <2>4
<1> QED BY <1>4, <1>6

LEMMA KnownTyped ==
  ASSUME KnownInv, NEW k \in sampler.known
  PROVE  k.id = <<k.id[1], k.id[2]>> /\ k.id[1] \in Pids /\ k.id[2] \in Nat /\ k.cpu \in Nat
BY DEF KnownInv, KnownCpus

LEMMA SampleKeepsKnown ==
  ASSUME TreeInv, Sample PROVE KnownInv' /\ CountInv'
<1>1. TableInv /\ KnownInv /\ CountInv BY DEF TreeInv
<1>2. /\ table' = table /\ sampler'.known = Seen \cup Unseen /\ past'.forks = past.forks
      /\ sampler'.samples = Append(sampler.samples, CpuOf(Seen \cup Unseen))
  BY <1>1, KnownIsNowAndRest DEF Sample, CpuOf
<1>3. Unseen \subseteq sampler.known BY DEF Unseen
<1>4. /\ Seen \cup Unseen \in SUBSET KnownCpus /\ IsFiniteSet(Seen \cup Unseen)
  BY <1>1, <1>3, NowIsTyped, FS_Union, FS_Subset DEF KnownInv
<1>5. \A k \in Seen \cup Unseen : k.id[2] \in 1..past.forks
  BY <1>1, <1>3, NowIsTyped DEF KnownInv
<1>6. ASSUME NEW k \in Seen, NEW l \in sampler.known, k.id[2] = l.id[2]
      PROVE  k.id = l.id /\ l.cpu <= k.cpu
  <2>1. PICK p \in Selected : /\ k.id = <<p, table[p].start>> /\ k.cpu = table[p].cpu
                              /\ p \in Pids /\ k.id[2] = table[p].start
    BY <1>1, NowIsTyped
  <2>2. p = l.id[1] /\ l.cpu <= table[p].cpu BY <1>1, <1>6, <2>1 DEF KnownInv
  <2>3. l.id = <<l.id[1], l.id[2]>> BY <1>1, KnownTyped
  <2> QED BY <1>6, <2>1, <2>2, <2>3
<1>7. ASSUME NEW k \in Seen, NEW l \in Seen, k.id[2] = l.id[2] PROVE k = l
  <2>1. PICK p \in Selected : k = [id |-> <<p, table[p].start>>, cpu |-> table[p].cpu] BY DEF Seen
  <2>2. PICK q \in Selected : l = [id |-> <<q, table[q].start>>, cpu |-> table[q].cpu] BY DEF Seen
  <2>3. p \in Pids /\ q \in Pids /\ table[p].start # 0
    BY <1>1, LiveStarts DEF Selected, Live
  <2>4. table[p].start = table[q].start BY <1>7, <2>1, <2>2
  <2>5. p = q BY <1>1, <2>3, <2>4 DEF TableInv
  <2> QED BY <2>1, <2>2, <2>5
<1>8. \A k, l \in Seen \cup Unseen : k.id[2] = l.id[2] => k = l
  <2> TAKE k, l \in Seen \cup Unseen
  <2>1. CASE k \in Seen /\ l \in Seen BY <2>1, <1>7
  <2>2. CASE k \in Seen /\ l \in Unseen BY <2>2, <1>3, <1>6 DEF Unseen
  <2>3. CASE k \in Unseen /\ l \in Seen
    <3>1. l.id[2] = k.id[2] => l.id = k.id BY <2>3, <1>3, <1>6
    <3> QED BY <3>1, <2>3 DEF Unseen
  <2>4. CASE k \in Unseen /\ l \in Unseen BY <2>4, <1>1, <1>3 DEF KnownInv
  <2> QED BY <2>1, <2>2, <2>3, <2>4
<1>9. \A k \in Seen \cup Unseen, p \in Pids :
        table[p].start = k.id[2] => p = k.id[1] /\ k.cpu <= table[p].cpu
  <2> TAKE k \in Seen \cup Unseen, p \in Pids
  <2>1. CASE k \in Seen
    <3>1. PICK q \in Selected : /\ k.cpu = table[q].cpu /\ q \in Pids /\ k.id[1] = q
                                /\ k.id[2] = table[q].start
      BY <1>1, <2>1, NowIsTyped
    <3>2. table[q].start # 0 BY <1>1, <3>1, LiveStarts DEF Selected
    <3>3. table[q].cpu \in Nat BY <1>1, <3>1 DEF TableInv, Processes
    <3>4. table[p].start = k.id[2] => p = q BY <1>1, <3>1, <3>2 DEF TableInv
    <3> QED BY <3>1, <3>3, <3>4
  <2>2. CASE k \in Unseen BY <2>2, <1>1, <1>3 DEF KnownInv
  <2> QED BY <2>1, <2>2
<1>10. KnownInv' BY <1>2, <1>4, <1>5, <1>8, <1>9 DEF KnownInv
<1>11. CpuOf(sampler.known) <= CpuOf(Seen \cup Unseen) /\ CpuOf(Seen \cup Unseen) \in Nat
  <2>1. \A k \in sampler.known : \E l \in Seen \cup Unseen : l.id = k.id /\ k.cpu <= l.cpu
    <3> TAKE k \in sampler.known
    <3>1. CASE k \in Unseen BY <1>1, <3>1, KnownTyped
    <3>2. CASE k \notin Unseen
      <4>1. PICK l \in Seen : l.id = k.id BY <3>2 DEF Unseen
      <4> QED BY <4>1, <1>6
    <3> QED BY <3>1, <3>2
  <2> DEFINE h == [k \in sampler.known |-> CHOOSE l \in Seen \cup Unseen : l.id = k.id /\ k.cpu <= l.cpu]
  <2>2. \A k \in sampler.known : h[k] \in Seen \cup Unseen /\ h[k].id = k.id /\ k.cpu <= h[k].cpu
    BY <2>1
  <2>3. h \in [sampler.known -> Seen \cup Unseen] BY <2>2
  <2> HIDE DEF h
  <2>4. \A k, l \in sampler.known : h[k] = h[l] => k = l
    <3>1. \A k, l \in sampler.known : h[k] = h[l] => k.id = l.id BY <2>2
    <3> QED BY <3>1, <1>1 DEF KnownInv
  <2>5. \A k \in sampler.known : k.cpu \in Nat BY <1>1, KnownTyped
  <2>6. \A k \in Seen \cup Unseen : k.cpu \in Nat BY <1>4 DEF KnownCpus
  <2>7. IsFiniteSet(sampler.known) BY <1>1 DEF KnownInv
  <2>8. CpuOf(sampler.known) <= CpuOf(Seen \cup Unseen) BY <1>4, <2>2, <2>3, <2>4, <2>5, <2>6, <2>7, CpuGrows
  <2> QED BY <2>8, <1>4, <2>6, CpuIsSum
<1>12. past'.sampled = {[start |-> k.id[2], cpu |-> k.cpu] : k \in Seen \cup Unseen}
  <2> DEFINE now == {[start |-> table[p].start, cpu |-> table[p].cpu] : p \in Selected}
             later == {s \in past.sampled : \A t \in now : t.start # s.start}
             Im(S) == {[start |-> k.id[2], cpu |-> k.cpu] : k \in S}
  <2>1. past'.sampled = now \cup later
    BY DEF Sample, CountInv
  <2>2. Im(Seen) = now
    <3>1. ASSUME NEW k \in Seen PROVE [start |-> k.id[2], cpu |-> k.cpu] \in now
      <4>1. PICK p \in Selected : k = [id |-> <<p, table[p].start>>, cpu |-> table[p].cpu] BY DEF Seen
      <4>2. k.id[2] = table[p].start /\ k.cpu = table[p].cpu BY <4>1
      <4> QED BY <4>2
    <3>2. ASSUME NEW p \in Selected
          PROVE  [start |-> table[p].start, cpu |-> table[p].cpu] \in Im(Seen)
      <4> DEFINE k == [id |-> <<p, table[p].start>>, cpu |-> table[p].cpu]
      <4>1. k \in Seen /\ k.id[2] = table[p].start /\ k.cpu = table[p].cpu BY DEF Seen
      <4> HIDE DEF k
      <4>2. [start |-> k.id[2], cpu |-> k.cpu] = [start |-> table[p].start, cpu |-> table[p].cpu]
        BY <4>1
      <4> QED BY <4>1, <4>2
    <3> QED BY <3>1, <3>2
  <2>3. ASSUME NEW k \in sampler.known
        PROVE  (\A l \in Seen : l.id # k.id) <=> (\A t \in now : t.start # k.id[2])
    <3>1. ASSUME NEW l \in Seen, l.id = k.id PROVE \E t \in now : t.start = k.id[2]
      <4>1. PICK p \in Selected : l = [id |-> <<p, table[p].start>>, cpu |-> table[p].cpu] BY DEF Seen
      <4>2. k.id[2] = table[p].start BY <3>1, <4>1
      <4>3. [start |-> table[p].start, cpu |-> table[p].cpu] \in now OBVIOUS
      <4> QED BY <4>2, <4>3
    <3>2. ASSUME NEW t \in now, t.start = k.id[2] PROVE \E l \in Seen : l.id = k.id
      <4>1. PICK p \in Selected : t = [start |-> table[p].start, cpu |-> table[p].cpu] OBVIOUS
      <4> DEFINE l == [id |-> <<p, table[p].start>>, cpu |-> table[p].cpu]
      <4>2. l \in Seen BY DEF Seen
      <4>3. l.id[2] = k.id[2] BY <3>2, <4>1
      <4> HIDE DEF l
      <4> QED BY <4>2, <4>3, <1>6
    <3> QED BY <3>1, <3>2
  <2>4. Im(Unseen) = later
    <3>1. past.sampled = Im(sampler.known) BY <1>1 DEF CountInv
    <3>2. ASSUME NEW k \in Unseen PROVE [start |-> k.id[2], cpu |-> k.cpu] \in later
      <4>1. k \in sampler.known /\ \A l \in Seen : l.id # k.id BY DEF Unseen
      <4>2. \A t \in now : t.start # k.id[2] BY <2>3, <4>1
      <4> HIDE DEF now
      <4> QED BY <3>1, <4>1, <4>2
    <3>3. ASSUME NEW s \in later PROVE s \in Im(Unseen)
      <4>1. PICK k \in sampler.known : s = [start |-> k.id[2], cpu |-> k.cpu] BY <3>1
      <4>2. \A t \in now : t.start # k.id[2] BY <4>1
      <4>3. k \in Unseen BY <2>3, <4>2 DEF Unseen
      <4> QED BY <4>1, <4>3
    <3> HIDE DEF later
    <3> QED BY <3>2, <3>3
  <2>5. Im(Seen \cup Unseen) = Im(Seen) \cup Im(Unseen) OBVIOUS
  <2> HIDE DEF now, later
  <2> QED BY <2>1, <2>2, <2>4, <2>5
<1>13. /\ sampler'.samples \in Seq(Nat)
       /\ \A i \in 1..(Len(sampler'.samples) - 1) : sampler'.samples[i] <= sampler'.samples[i + 1]
       /\ sampler'.samples # <<>> /\ Last(sampler'.samples) = CpuOf(Seen \cup Unseen)
  <2> DEFINE s == sampler.samples
             c == CpuOf(Seen \cup Unseen)
             n == Len(s)
  <2>1. /\ s \in Seq(Nat) /\ n \in Nat /\ sampler'.samples = Append(s, c) /\ c \in Nat
        /\ \A i \in 1..(n - 1) : s[i] <= s[i + 1]
        /\ s # <<>> => Last(s) = CpuOf(sampler.known)
        /\ CpuOf(sampler.known) <= c
    BY <1>1, <1>2, <1>11 DEF CountInv
  <2> HIDE DEF s, c
  <2>2. /\ Append(s, c) \in Seq(Nat) /\ Len(Append(s, c)) = n + 1 /\ Append(s, c)[n + 1] = c
        /\ \A i \in 1..n : Append(s, c)[i] = s[i]
    BY <2>1
  <2>3. Append(s, c) # <<>> /\ Last(Append(s, c)) = c BY <2>1, <2>2 DEF Last
  <2>4. ASSUME NEW i \in 1..n PROVE Append(s, c)[i] <= Append(s, c)[i + 1]
    <3>1. CASE i < n BY <3>1, <2>1, <2>2
    <3>2. CASE i = n
      <4>1. s # <<>> /\ Last(s) = s[n] BY <3>2, <2>1 DEF Last
      <4> QED BY <3>2, <4>1, <2>1, <2>2
    <3> QED BY <3>1, <3>2, <2>1
  <2>5. Len(Append(s, c)) - 1 = n BY <2>1, <2>2
  <2>6. \A i \in 1..(Len(Append(s, c)) - 1) : Append(s, c)[i] <= Append(s, c)[i + 1]
    BY <2>4, <2>5
  <2>7. sampler'.samples = Append(s, c) BY <2>1
  <2> QED BY <2>2, <2>3, <2>6, <2>7 DEF c
<1>14. CountInv' BY <1>2, <1>12, <1>13 DEF CountInv, CpuOf
<1> QED BY <1>10, <1>14

\* A process that forks, works or exits, between two samples.
LEMMA TreeMoves ==
  ASSUME TreeInv, TableInv', sampler' = sampler, past'.sampled = past.sampled,
         past'.forks >= past.forks,
         \A p \in Pids : \/ table'[p].start = 0
                         \/ table'[p].start > past.forks
                         \/ table'[p].start = table[p].start /\ table'[p].cpu >= table[p].cpu
  PROVE  TreeInv'
<1>1. TableInv /\ KnownInv /\ CountInv BY DEF TreeInv
<1>2. CountInv' BY <1>1 DEF CountInv
<1>3. past.forks \in Nat /\ past'.forks \in Nat /\ past.forks <= past'.forks
  BY <1>1 DEF TableInv
<1>4. \A k \in sampler.known, p \in Pids :
       table'[p].start = k.id[2] => p = k.id[1] /\ k.cpu <= table'[p].cpu
  <2> SUFFICES ASSUME NEW k \in sampler.known, NEW p \in Pids, table'[p].start = k.id[2]
               PROVE  p = k.id[1] /\ k.cpu <= table'[p].cpu
    OBVIOUS
  <2>1. k.id[2] \in 1..past.forks /\ k.cpu \in Nat BY <1>1, KnownTyped DEF KnownInv
  <2>2. table'[p].start = table[p].start /\ table'[p].cpu >= table[p].cpu BY <1>3, <2>1
  <2>3. p = k.id[1] /\ k.cpu <= table[p].cpu BY <1>1, <2>2 DEF KnownInv
  <2>4. table[p].cpu \in Nat /\ table'[p].cpu \in Nat BY <1>1 DEF TableInv, Processes
  <2> QED BY <2>1, <2>2, <2>3, <2>4
<1>5. \A k \in sampler.known : k.id[2] \in 1..past'.forks BY <1>1, <1>3 DEF KnownInv
<1>6. KnownInv' BY <1>1, <1>4, <1>5 DEF KnownInv
<1> QED BY <1>2, <1>6 DEF TreeInv

LEMMA TreeInvInit == ProcessTreeInit => TreeInv
<1> SUFFICES ASSUME ProcessTreeInit PROVE TreeInv OBVIOUS
<1>1. RootPid \in Pids BY ProcessTreeAssumption
<1>2. past.forks = 1 /\ past.sampled = {} /\ sampler.known = {} /\ sampler.samples = <<>>
  BY DEF ProcessTreeInit
<1>3. \A p \in Pids : table[p] = IF p = RootPid THEN [start |-> 1, parent |-> 0, cpu |-> 0]
                                 ELSE [start |-> 0, parent |-> 0, cpu |-> 0]
  BY DEF ProcessTreeInit, NoProcess
<1>4. table \in [Pids -> Processes]
  <2>1. table = [p \in Pids |-> table[p]] BY DEF ProcessTreeInit
  <2>2. \A p \in Pids : table[p] \in Processes BY <1>3 DEF Processes
  <2> QED BY <2>1, <2>2
<1>5. TableInv
  <2>1. past = [forks |-> past.forks, sampled |-> past.sampled] BY DEF ProcessTreeInit
  <2>2. \A p \in Pids : table[p].start <= past.forks /\ (table[p].start = 0 => table[p] = NoProcess)
    BY <1>2, <1>3 DEF NoProcess
  <2>3. \A p, q \in Pids : table[p].start = table[q].start /\ table[p].start # 0 => p = q
    BY <1>3
  <2> QED BY <1>2, <1>4, <2>1, <2>2, <2>3 DEF TableInv
<1>6. KnownInv BY <1>2, FS_EmptySet DEF KnownInv
<1>7. CountInv BY <1>2 DEF CountInv
<1> QED BY <1>5, <1>6, <1>7 DEF TreeInv

LEMMA TreeInvNext == TreeInv /\ [ProcessTreeNext]_treeVars => TreeInv'
<1> SUFFICES ASSUME TreeInv, [ProcessTreeNext]_treeVars PROVE TreeInv' OBVIOUS
<1>1. /\ TableInv /\ KnownInv /\ CountInv BY DEF TreeInv
<1>2. /\ table \in [Pids -> Processes] /\ past.forks \in Nat
      /\ \A p \in Pids : /\ table[p].start \in Nat /\ table[p].parent \in Nat /\ table[p].cpu \in Nat
                         /\ table[p].start <= past.forks
                         /\ table[p] = [start |-> table[p].start, parent |-> table[p].parent,
                                        cpu |-> table[p].cpu]
  BY <1>1 DEF TableInv, Processes
<1>3. ASSUME NEW parent \in Pids, NEW q \in Pids, Fork(parent, q) PROVE TreeInv'
  <2> DEFINE new == [start |-> past.forks + 1, parent |-> parent, cpu |-> 0]
  <2>1. /\ table' = [table EXCEPT ![q] = new] /\ sampler' = sampler
        /\ past' = [past EXCEPT !.forks = @ + 1]
    BY <1>3 DEF Fork
  <2>2. new \in Processes
    <3>1. parent \in Nat BY ProcessTreeAssumption
    <3> QED BY <1>2, <3>1 DEF Processes
  <2>3. /\ past'.forks = past.forks + 1 /\ past'.sampled = past.sampled
        /\ past' = [forks |-> past'.forks, sampled |-> past'.sampled]
    BY <1>1, <2>1 DEF TableInv
  <2>4. table' \in [Pids -> Processes] BY <1>2, <2>1, <2>2
  <2>5. /\ table'[q] = new /\ \A p \in Pids \ {q} : table'[p] = table[p] BY <1>2, <2>1
  <2>6. new.start = past.forks + 1 OBVIOUS
  <2> HIDE DEF new
  <2>7. \A p \in Pids : table'[p].start <= past'.forks /\ (table'[p].start = 0 => table'[p] = NoProcess)
    BY <1>1, <1>2, <2>3, <2>5, <2>6 DEF TableInv
  <2>8. \A p, r \in Pids : table'[p].start = table'[r].start /\ table'[p].start # 0 => p = r
    <3> SUFFICES ASSUME NEW p \in Pids, NEW r \in Pids, table'[p].start = table'[r].start,
                        table'[p].start # 0
                 PROVE  p = r
      OBVIOUS
    <3>1. CASE p = q /\ r # q BY <1>2, <2>5, <2>6, <3>1
    <3>2. CASE p # q /\ r = q BY <1>2, <2>5, <2>6, <3>2
    <3>3. CASE p # q /\ r # q BY <1>1, <2>5, <3>3 DEF TableInv
    <3> QED BY <3>1, <3>2, <3>3
  <2>9. TableInv'
    <3>1. past'.forks \in Nat BY <1>2, <2>3
    <3> QED BY <2>3, <2>4, <2>7, <2>8, <3>1 DEF TableInv, NoProcess
  <2>10. \A p \in Pids : \/ table'[p].start = 0 \/ table'[p].start > past.forks
                         \/ table'[p].start = table[p].start /\ table'[p].cpu >= table[p].cpu
    BY <1>2, <2>5, <2>6
  <2>11. past'.forks >= past.forks BY <1>2, <2>3
  <2> QED BY <2>1, <2>3, <2>9, <2>10, <2>11, TreeMoves
<1>4. ASSUME NEW q \in Pids, Works(q) PROVE TreeInv'
  <2> DEFINE new == [table[q] EXCEPT !.cpu = @ + 1]
  <2>1. table' = [table EXCEPT ![q] = new] /\ UNCHANGED <<sampler, past>> BY <1>4 DEF Works
  <2>2. new \in Processes /\ new.start = table[q].start /\ new.cpu = table[q].cpu + 1
    <3>1. table[q] = [start |-> table[q].start, parent |-> table[q].parent, cpu |-> table[q].cpu]
      BY <1>2
    <3>2. new = [start |-> table[q].start, parent |-> table[q].parent, cpu |-> table[q].cpu + 1]
      BY <3>1
    <3> QED BY <1>2, <3>2 DEF Processes
  <2> HIDE DEF new
  <2>3. table' \in [Pids -> Processes] BY <1>2, <2>1, <2>2
  <2>4. /\ table'[q] = new /\ \A p \in Pids \ {q} : table'[p] = table[p] BY <1>2, <2>1
  <2>5. \A p \in Pids : table'[p].start = table[p].start /\ table'[p].cpu >= table[p].cpu
    BY <1>2, <2>2, <2>4
  <2>6. table[q].start # 0 BY <1>1, <1>4, LiveStarts DEF Works
  <2>7. TableInv'
    <3>1. \A p \in Pids : table'[p].start = 0 => table'[p] = NoProcess
      BY <1>1, <2>2, <2>4, <2>6 DEF TableInv, NoProcess
    <3> QED BY <1>1, <2>1, <2>3, <2>5, <3>1 DEF TableInv, NoProcess
  <2>8. past.forks >= past.forks BY <1>2
  <2> QED BY <2>1, <2>5, <2>7, <2>8, TreeMoves
<1>5. ASSUME NEW q \in Pids, Exits(q) PROVE TreeInv'
  <2>1. /\ table' = [r \in Pids |-> CASE r = q -> NoProcess
                                      [] table[r].parent = q /\ r # q -> [table[r] EXCEPT !.parent = 0]
                                      [] OTHER -> table[r]]
        /\ UNCHANGED <<sampler, past>>
    BY <1>5 DEF Exits
  <2>2. ASSUME NEW p \in Pids
        PROVE  /\ table'[p] \in Processes
               /\ \/ table'[p] = NoProcess
                  \/ table'[p].start = table[p].start /\ table'[p].cpu = table[p].cpu
               /\ table'[p].start = 0 => table'[p] = NoProcess
    <3>1. CASE p = q
      <4>1. table'[p] = NoProcess BY <2>1, <3>1
      <4> QED BY <4>1 DEF NoProcess, Processes
    <3>2. CASE table[p].parent = q /\ p # q
      <4>1. table'[p] = [table[p] EXCEPT !.parent = 0] BY <2>1, <3>2
      <4>2. table'[p] = [start |-> table[p].start, parent |-> 0, cpu |-> table[p].cpu]
        <5>1. table[p] = [start |-> table[p].start, parent |-> table[p].parent, cpu |-> table[p].cpu]
          BY <1>2
        <5> QED BY <4>1, <5>1
      <4>3. table[p].start # 0
        <5>1. q # 0 BY ProcessTreeAssumption
        <5>2. table[p] # NoProcess BY <3>2, <5>1 DEF NoProcess
        <5> QED BY <5>2, <1>1 DEF TableInv
      <4> QED BY <1>2, <4>2, <4>3 DEF Processes
    <3>3. CASE ~(table[p].parent = q /\ p # q) /\ p # q
      <4>1. table'[p] = table[p] BY <2>1, <3>3
      <4>2. table[p] \in Processes BY <1>2
      <4>3. table[p].start = 0 => table[p] = NoProcess BY <1>1 DEF TableInv
      <4> QED BY <4>1, <4>2, <4>3
    <3> QED BY <3>1, <3>2, <3>3
  <2>3. table' \in [Pids -> Processes]
    <3>1. table' = [r \in Pids |-> table'[r]] BY <2>1
    <3> QED BY <2>2, <3>1
  <2>4. \A p \in Pids : \/ table'[p].start = 0
                        \/ table'[p].start = table[p].start /\ table'[p].cpu = table[p].cpu
    BY <2>2 DEF NoProcess
  <2>5. TableInv'
    <3>1. \A p \in Pids : table'[p].start <= past.forks BY <1>1, <1>2, <2>4 DEF TableInv
    <3>2. \A p, r \in Pids : table'[p].start = table'[r].start /\ table'[p].start # 0 => p = r
      BY <1>1, <2>4 DEF TableInv
    <3>3. \A p \in Pids : table'[p].start = 0 => table'[p] = NoProcess BY <2>2
    <3> QED BY <1>1, <2>1, <2>3, <3>1, <3>2, <3>3 DEF TableInv, NoProcess
  <2>6. \A p \in Pids : \/ table'[p].start = 0 \/ table'[p].start > past.forks
                        \/ table'[p].start = table[p].start /\ table'[p].cpu >= table[p].cpu
    BY <1>2, <2>4
  <2>7. past.forks >= past.forks BY <1>2
  <2> QED BY <2>1, <2>5, <2>6, <2>7, TreeMoves
<1>6. ASSUME Sample PROVE TreeInv'
  <2>1. KnownInv' /\ CountInv' BY <1>6, SampleKeepsKnown
  <2>2. /\ table' = table /\ past'.forks = past.forks
        /\ past' = [forks |-> past'.forks, sampled |-> past'.sampled]
    BY <1>1, <1>6 DEF Sample, TableInv
  <2>3. TableInv' BY <1>1, <2>2 DEF TableInv, NoProcess
  <2> QED BY <2>1, <2>3 DEF TreeInv
<1>7. CASE UNCHANGED treeVars
  <2>1. table' = table /\ sampler' = sampler /\ past' = past BY <1>7 DEF treeVars
  <2> QED BY <2>1, <1>1 DEF TreeInv, TableInv, KnownInv, CountInv, CpuOf, NoProcess
<1> QED BY <1>3, <1>4, <1>5, <1>6, <1>7 DEF ProcessTreeNext

\* The known entries and the sampled processes are one and the same.
LEMMA TreeInvCountsAll == ASSUME TreeInv PROVE TreeCounterIsExact
<1>1. KnownInv /\ CountInv BY DEF TreeInv
<1> DEFINE K == sampler.known
           P == past.sampled
           Counted(k) == [start |-> k.id[2], cpu |-> k.cpu]
           f == [k \in K |-> Counted(k)]
           g == [s \in P |-> CHOOSE k \in K : s = Counted(k)]
<1>2. P = {Counted(k) : k \in K} /\ IsFiniteSet(K) BY <1>1 DEF KnownInv, CountInv
<1>3. \A k \in K : Counted(k).cpu = k.cpu /\ Counted(k).start = k.id[2] /\ k.cpu \in Nat
  BY <1>1, KnownTyped
<1>4. f \in [K -> P] /\ \A k \in K : f[k] = Counted(k) BY <1>2
<1>5. \A s \in P : g[s] \in K /\ s = Counted(g[s]) BY <1>2
<1>6. g \in [P -> K] BY <1>5
<1>7. \A s \in P : s.cpu = g[s].cpu /\ s.cpu \in Nat BY <1>3, <1>5
<1>8. IsFiniteSet(P)
  <2>1. f \in Surjection(K, P) BY <1>2, <1>4 DEF Surjection
  <2> HIDE DEF f
  <2> QED BY <1>2, <2>1, FS_Surjection
<1>9. \A k, l \in K : f[k] = f[l] => k = l
  <2>1. \A k, l \in K : f[k] = f[l] => k.id[2] = l.id[2] BY <1>3, <1>4
  <2> QED BY <2>1, <1>1 DEF KnownInv
<1>10. \A s, t \in P : g[s] = g[t] => s = t BY <1>5
<1>11. \A k \in K : k.cpu <= f[k].cpu /\ f[k].cpu \in Nat BY <1>3, <1>4
<1>12. \A s \in P : s.cpu <= g[s].cpu
  <2> HIDE DEF g, P
  <2> TAKE s \in P
  <2>1. s.cpu = g[s].cpu /\ s.cpu \in Nat BY <1>7
  <2> QED BY <2>1
<1>13. CpuOf(K) <= CpuOf(P) /\ CpuOf(P) <= CpuOf(K) /\ CpuOf(K) \in Nat /\ CpuOf(P) \in Nat
  <2> HIDE DEF f, g, P, K
  <2>1. CpuOf(K) <= CpuOf(P) BY <1>2, <1>3, <1>4, <1>7, <1>8, <1>9, <1>11, CpuGrows
  <2>2. CpuOf(P) <= CpuOf(K) BY <1>2, <1>3, <1>6, <1>7, <1>8, <1>10, <1>12, CpuGrows
  <2> QED BY <2>1, <2>2, <1>2, <1>3, <1>7, <1>8, CpuIsSum
<1>14. CpuOf(K) = CpuOf(P) BY <1>13
<1> QED BY <1>1, <1>14 DEF TreeCounterIsExact, CountInv, CpuOf

(* A sample of the tree's CPU time counts every process that was ever seen  *)
(* once, with the most that was seen of it, and never falls, whatever       *)
(* forks, exits and takes over a pid in between (process_tree_cpu).         *)
THEOREM TreeCounterStaysExact == TreeSpec => []TreeCounterIsExact
<1>1. TreeInv => TreeCounterIsExact BY TreeInvCountsAll
<1> QED BY <1>1, TreeInvInit, TreeInvNext, PTL DEF TreeSpec

-----------------------------------------------------------------------------
(* The report.  Emissions never move backwards and samples have increasing *)
(* times: that is all the report needs of a run, the rest is arithmetic.   *)

Samples == [t : Nat, throttled : Nat, queue : Nat, rss : Nat]

EmissionInv ==
  /\ emission \in Seq(Int) /\ Len(emission) <= MaxNotes
  /\ \A i, j \in DOMAIN emission : i <= j => emission[i] <= emission[j]

RowsInv ==
  /\ rows \in Seq(Samples)
  /\ \A i, j \in DOMAIN rows : i < j => rows[i].t < rows[j].t

MetricsInv == EmissionInv /\ RowsInv

LEMMA DivisionBounds ==
  ASSUME NEW a \in Int, NEW d \in Nat \ {0}
  PROVE  a \div d \in Int /\ d * (a \div d) <= a /\ a < d * (a \div d) + d
OBVIOUS

LEMMA MultipleOfPositive ==
  ASSUME NEW a \in Int, NEW b \in Int, NEW c \in Nat, c # 0
  PROVE  (c * a < c * b => a < b) /\ (c * a <= c * b => a <= b)
<1>1. a >= b => c * a >= c * b OBVIOUS
<1>2. a > b => c * a > c * b OBVIOUS
<1>3. c * a \in Int /\ c * b \in Int OBVIOUS
<1> QED BY <1>1, <1>2, <1>3

LEMMA NearestIsNear ==
  ASSUME NEW num \in Nat, NEW den \in Nat \ {0}
  PROVE  LET r == NearestInteger(num, den)
         IN r \in Nat /\ den * r \in Nat /\ 2 * (den * r) <= 2 * num + den /\ 2 * num < 2 * (den * r) + den
<1> DEFINE r == (2 * num + den) \div (2 * den)
<1>1. 2 * num + den \in Int /\ 2 * den \in Nat \ {0} OBVIOUS
<1>2. r \in Int /\ (2 * den) * r <= 2 * num + den /\ 2 * num + den < (2 * den) * r + 2 * den
  BY <1>1, DivisionBounds
<1>3. (2 * den) * r = 2 * (den * r) /\ den * r \in Int BY <1>2
<1>4. r >= 0
  <2>1. den * 0 = 0 OBVIOUS
  <2>3. (den * (r + 1) > den * 0) => r + 1 > 0 BY <1>2, MultipleOfPositive
  <2>4. den * (r + 1) = den * r + den BY <1>2
  <2> HIDE DEF r
  <2>5. den * r + den > 0 BY <1>2, <1>3
  <2>6. r + 1 > 0 BY <2>1, <2>3, <2>4, <2>5
  <2> QED BY <1>2, <2>6
<1>5. den * r \in Nat
  <2> HIDE DEF r
  <2> QED BY <1>2, <1>4
<1> QED BY <1>2, <1>3, <1>4, <1>5 DEF NearestInteger

-----------------------------------------------------------------------------
(* A percentile is the least value that its share of the values is at or   *)
(* below; the highest one is above all.                                    *)

Under(values, v) == {i \in DOMAIN values : values[i] <= v}
Strictly(values, v) == {i \in DOMAIN values : values[i] < v}

LEMMA ValuesAreBounded ==
  ASSUME NEW n \in Nat, NEW values \in [1..n -> Nat]
  PROVE  \E u \in Nat : \A i \in 1..n : values[i] <= u
<1> DEFINE S == {m \in Nat : m <= n => \E u \in Nat : \A i \in 1..m : values[i] <= u}
<1>1. 0 \in S OBVIOUS
<1>2. ASSUME NEW m \in Nat, m \in S PROVE m + 1 \in S
  <2> SUFFICES ASSUME m + 1 <= n PROVE \E u \in Nat : \A i \in 1..(m + 1) : values[i] <= u OBVIOUS
  <2>1. PICK u \in Nat : \A i \in 1..m : values[i] <= u BY <1>2
  <2>2. values[m + 1] \in Nat OBVIOUS
  <2>3. u + values[m + 1] \in Nat BY <2>2
  <2>4. \A i \in 1..(m + 1) : i \in 1..m \/ i = m + 1 OBVIOUS
  <2>5. \A i \in 1..m : values[i] \in Nat OBVIOUS
  <2>6. \A i \in 1..(m + 1) : values[i] <= u + values[m + 1] BY <2>1, <2>2, <2>4, <2>5
  <2> QED BY <2>3, <2>6
<1>3. Nat \subseteq S
  <2> HIDE DEF S
  <2> QED BY <1>1, <1>2, Summing!Induction
<1>4. n \in S BY <1>3
<1> QED BY <1>4

LEMMA CountsOf ==
  ASSUME NEW n \in Nat, NEW values \in [1..n -> Nat], NEW s \in SUBSET (1..n)
  PROVE  /\ IsFiniteSet(s) /\ Cardinality(s) \in 0..n
         /\ \A r \in SUBSET s : Cardinality(r) <= Cardinality(s)
         /\ Cardinality(s) = n => s = 1..n
         /\ Cardinality((1..n) \ s) = n - Cardinality(s)
<1>1. IsFiniteSet(1..n) /\ Cardinality(1..n) = n BY FS_Interval
<1>2. IsFiniteSet(s) /\ Cardinality(s) <= Cardinality(1..n) BY <1>1, FS_Subset
<1>3. Cardinality(s) = Cardinality(1..n) => s = 1..n BY <1>1, FS_Subset
<1>4. Cardinality(s) \in Nat BY <1>2, FS_CardinalityType
<1>5. \A r \in SUBSET s : Cardinality(r) <= Cardinality(s) BY <1>2, FS_Subset
<1>6. Cardinality((1..n) \ s) = Cardinality(1..n) - Cardinality((1..n) \cap s)
  BY <1>1, FS_Difference
<1>7. (1..n) \cap s = s OBVIOUS
<1>8. Cardinality(s) \in 0..n BY <1>1, <1>2, <1>4
<1>9. Cardinality((1..n) \ s) = n - Cardinality(s) BY <1>1, <1>6, <1>7
<1> QED BY <1>1, <1>2, <1>3, <1>5, <1>8, <1>9

LEMMA RankIsTaken ==
  ASSUME NEW n \in Nat, NEW values \in [1..n -> Nat], NEW k \in 1..n
  PROVE  LET r == Ranked(values, k)
         IN /\ r \in Nat
            /\ Cardinality(Strictly(values, r)) < k /\ k <= Cardinality(Under(values, r))
<1> DEFINE T == {v \in Nat : k <= Cardinality(Under(values, v))}
           Is(v) == Cardinality(Strictly(values, v)) < k /\ k <= Cardinality(Under(values, v))
<1>1. \A v : Under(values, v) \in SUBSET (1..n) /\ Strictly(values, v) \in SUBSET (1..n)
  BY DEF Under, Strictly
<1>2. \E v \in Nat : v \in T
  <2>1. PICK u \in Nat : \A i \in 1..n : values[i] <= u BY ValuesAreBounded
  <2>2. Under(values, u) = 1..n BY <2>1 DEF Under
  <2>3. Cardinality(1..n) = n BY FS_Interval
  <2>4. u \in T BY <2>2, <2>3
  <2> QED BY <2>4
<1>3. PICK v \in T : \A w \in T : v <= w
  <2>1. T \in SUBSET Nat /\ T # {} BY <1>2
  <2> HIDE DEF T
  <2> QED BY <2>1, Summing!LeastNumber
<1>4. v \in Nat /\ k <= Cardinality(Under(values, v)) BY <1>3
<1>5. ASSUME NEW w \in Nat, v = w + 1 PROVE Cardinality(Under(values, w)) < k
  <2>1. w \notin T BY <1>3, <1>5
  <2>2. Cardinality(Under(values, w)) \in 0..n BY <1>1, CountsOf
  <2> QED BY <2>1, <2>2
<1>6. Cardinality(Strictly(values, v)) < k
  <2>1. CASE v = 0
    <3>1. Strictly(values, v) = {} BY <2>1 DEF Strictly
    <3> QED BY <3>1, FS_EmptySet
  <2>2. CASE v # 0
    <3>1. v - 1 \in Nat /\ v = (v - 1) + 1 BY <1>4, <2>2
    <3>2. Strictly(values, v) = Under(values, v - 1) BY <3>1, <1>4 DEF Strictly, Under
    <3> QED BY <3>1, <3>2, <1>5
  <2> QED BY <2>1, <2>2
<1>7. v \in ToSet(values)
  <2> SUFFICES ASSUME \A i \in 1..n : values[i] # v PROVE FALSE BY DEF ToSet
  <2>1. Under(values, v) = Strictly(values, v) BY <1>4 DEF Under, Strictly
  <2>2. Cardinality(Under(values, v)) \in 0..n BY <1>1, CountsOf
  <2> QED BY <1>4, <1>6, <2>1, <2>2
<1>8. Ranked(values, k) = CHOOSE x \in ToSet(values) : Is(x) BY DEF Ranked, Under, Strictly
<1>9. \A x \in ToSet(values) : x \in Nat BY DEF ToSet
<1> HIDE DEF Is
<1>10. Ranked(values, k) \in ToSet(values) /\ Is(Ranked(values, k))
  <2>1. Is(v) BY <1>4, <1>6 DEF Is
  <2> QED BY <1>7, <1>8, <2>1
<1> QED BY <1>9, <1>10 DEF Is

LEMMA NearestRankIs ==
  ASSUME NEW n \in Nat \ {0}, NEW values \in [1..n -> Nat], NEW percent \in 1..100
  PROVE  LET r == NearestRank(values, percent)
         IN /\ r \in Nat
            /\ 100 * Cardinality(Under(values, r)) >= percent * n
            /\ \A v \in 0..(r - 1) : 100 * Cardinality(Under(values, v)) < percent * n
<1> DEFINE m == percent * n
           k == (m + 99) \div 100
<1>1. Len(values) = n BY LenProperties
<1>2. m \in Nat /\ m >= 1 /\ m <= 100 * n
  <2>1. percent * n <= 100 * n /\ 1 * n <= percent * n OBVIOUS
  <2>2. percent * n \in Int OBVIOUS
  <2> QED BY <2>1, <2>2
<1> HIDE DEF m
<1>3. k \in 1..n /\ 100 * k >= m /\ 100 * (k - 1) < m BY <1>2
<1> HIDE DEF k
<1>4. NearestRank(values, percent) = Ranked(values, k) BY <1>1 DEF NearestRank, k, m
<1> DEFINE r == Ranked(values, k)
<1>5. r \in Nat /\ Cardinality(Strictly(values, r)) < k /\ k <= Cardinality(Under(values, r))
  BY <1>3, RankIsTaken
<1> HIDE DEF r
<1>6. \A v : Under(values, v) \in SUBSET (1..n) /\ Strictly(values, v) \in SUBSET (1..n)
  BY DEF Under, Strictly
<1>7. \A v : Cardinality(Under(values, v)) \in 0..n /\ Cardinality(Strictly(values, v)) \in 0..n
  BY <1>6, CountsOf
<1>8. 100 * Cardinality(Under(values, r)) >= m BY <1>2, <1>3, <1>5, <1>7
<1>9. ASSUME NEW v \in 0..(r - 1) PROVE 100 * Cardinality(Under(values, v)) < m
  <2>1. Under(values, v) \in SUBSET Strictly(values, r) BY <1>5 DEF Under, Strictly
  <2>2. Cardinality(Under(values, v)) <= Cardinality(Strictly(values, r)) BY <2>1, <1>6, CountsOf
  <2> QED BY <2>2, <1>2, <1>3, <1>5, <1>7
<1> QED BY <1>4, <1>5, <1>8, <1>9 DEF r, m

LEMMA HighestRank ==
  ASSUME NEW n \in Nat \ {0}, NEW values \in [1..n -> Nat]
  PROVE  NearestRank(values, 100) \in Nat /\ \A i \in 1..n : values[i] <= NearestRank(values, 100)
<1> DEFINE r == NearestRank(values, 100)
<1>1. r \in Nat /\ 100 * Cardinality(Under(values, r)) >= 100 * n BY NearestRankIs
<1> HIDE DEF r
<1>2. Under(values, r) \in SUBSET (1..n) BY DEF Under
<1>3. Cardinality(Under(values, r)) \in 0..n BY <1>2, CountsOf
<1>4. Cardinality(Under(values, r)) = n BY <1>1, <1>3
<1>5. Under(values, r) = 1..n BY <1>2, <1>4, CountsOf
<1> QED BY <1>1, <1>5 DEF Under, r

-----------------------------------------------------------------------------
(* The plan of the clock probe: each deadline is rounded on its own, so it *)
(* is within half a tick of its pulse however late in the plan.            *)

LEMMA PlanTypes ==
  /\ Minute \in Nat /\ PulseDen \in Nat \ {0} /\ Width \in Nat \ {0} /\ MaximumLimit \in Nat
  /\ MaxNotes \in Nat
<1>1. Bpm \in Nat \ {0} /\ PulsesPerBeat \in Nat \ {0} BY RunMetricsAssumption
<1>2. \A a, b \in Nat \ {0} : a * b \in Nat \ {0} OBVIOUS
<1>3. Bpm * PulsesPerBeat \in Nat \ {0} BY <1>1, <1>2
<1> QED BY <1>3, RunMetricsAssumption DEF PulseDen, Width

LEMMA DeadlineIsNear ==
  ASSUME NEW k \in Nat
  PROVE  /\ Deadline(k) \in Nat /\ PulseDen * Deadline(k) \in Nat /\ k * Minute \in Nat
         /\ 2 * (PulseDen * Deadline(k)) <= 2 * (k * Minute) + PulseDen
         /\ 2 * (k * Minute) < 2 * (PulseDen * Deadline(k)) + PulseDen
<1>1. k * Minute \in Nat
  <2>1. \A a, b \in Nat : a * b \in Nat OBVIOUS
  <2> QED BY <2>1, PlanTypes
<1> QED BY <1>1, PlanTypes, NearestIsNear DEF Deadline

LEMMA PulseIsFirst == Pulse = Deadline(1)
<1>1. 1 * Minute = Minute BY PlanTypes
<1> QED BY <1>1 DEF Pulse, Deadline

LEMMA PulsesDoNotDrift ==
  ASSUME NEW k \in Nat
  PROVE  Pulse \in Nat /\ Pulse + Deadline(k) <= Deadline(k + 1) + 1
<1> DEFINE D == PulseDen
           a == Deadline(1)
           b == Deadline(k)
           c == Deadline(k + 1)
<1>1. a \in Nat /\ b \in Nat /\ c \in Nat /\ D \in Nat \ {0} /\ Minute \in Nat
  BY DeadlineIsNear, PlanTypes, 1 \in Nat, k + 1 \in Nat
<1>2. /\ 2 * (D * a) <= 2 * (1 * Minute) + D /\ D * a \in Nat /\ 1 * Minute \in Nat
      /\ 2 * (D * b) <= 2 * (k * Minute) + D /\ D * b \in Nat /\ k * Minute \in Nat
      /\ 2 * ((k + 1) * Minute) < 2 * (D * c) + D /\ D * c \in Nat /\ (k + 1) * Minute \in Nat
  BY DeadlineIsNear, 1 \in Nat, k + 1 \in Nat
<1> HIDE DEF D, a, b, c
<1>3. (k + 1) * Minute = k * Minute + 1 * Minute BY <1>1
<1>4. 2 * (D * a) + 2 * (D * b) < 2 * (D * c) + 3 * D BY <1>1, <1>2, <1>3
<1>5. D * (2 * (a + b)) = 2 * (D * a) + 2 * (D * b) /\ D * (2 * c + 3) = 2 * (D * c) + 3 * D
  BY <1>1
<1>6. 2 * (a + b) \in Int /\ 2 * c + 3 \in Int BY <1>1
<1>7. D * (2 * (a + b)) < D * (2 * c + 3) BY <1>4, <1>5
<1>8. 2 * (a + b) < 2 * c + 3 BY <1>1, <1>6, <1>7, MultipleOfPositive
<1>9. a + b <= c + 1 BY <1>8, <1>1
<1> QED BY <1>1, <1>9, PulseIsFirst DEF a, b, c

LEMMA BurstsOf ==
  /\ \A i \in Nat \ {0} : BurstOf(i) \in Nat
  /\ \A k \in Nat \ {0} : BurstOf((k - 1) * Width + 1) = k
<1>1. \A i \in Nat \ {0} : BurstOf(i) \in Nat
  <2> SUFFICES ASSUME NEW i \in Nat \ {0} PROVE BurstOf(i) \in Nat OBVIOUS
  <2>1. i + Width - 1 \in Nat BY PlanTypes
  <2>2. \A a \in Nat, d \in Nat \ {0} : a \div d \in Nat OBVIOUS
  <2> QED BY <2>1, <2>2, PlanTypes DEF BurstOf
<1>2. ASSUME NEW k \in Nat \ {0} PROVE BurstOf((k - 1) * Width + 1) = k
  <2>0. Width \in Nat \ {0} BY PlanTypes
  <2>1. (k - 1) * Width = k * Width - Width /\ k * Width \in Int BY <2>0
  <2>2. (k - 1) * Width + 1 + Width - 1 = k * Width BY <2>0, <2>1
  <2>3. \A a \in Nat, d \in Nat \ {0} : (a * d) \div d = a
    <3> SUFFICES ASSUME NEW a \in Nat, NEW d \in Nat \ {0} PROVE (a * d) \div d = a OBVIOUS
    <3> DEFINE q == (a * d) \div d
    <3>1. a * d \in Int /\ a * d = d * a OBVIOUS
    <3>2. q \in Int /\ d * q <= a * d /\ a * d < d * q + d BY <3>1, DivisionBounds
    <3> HIDE DEF q
    <3>3. d * q <= d * a /\ d * a < d * (q + 1)
      <4>1. d * (q + 1) = d * q + d BY <3>2
      <4> QED BY <3>1, <3>2, <4>1
    <3>4. q <= a /\ a < q + 1 BY <3>2, <3>3, MultipleOfPositive
    <3>5. q = a BY <3>2, <3>4
    <3> QED BY <3>5 DEF q
  <2>4. (k * Width) \div Width = k BY <2>0, <2>3
  <2> QED BY <2>2, <2>4 DEF BurstOf
<1> QED BY <1>1, <1>2

LEMMA AbsBounds ==
  ASSUME NEW n \in Int, NEW u \in Int
  PROVE  Abs(n) \in Nat /\ (Abs(n) <= u <=> n <= u /\ -n <= u)
BY DEF Abs

LEMMA ErrorsOf ==
  ASSUME EmissionInv
  PROVE  LET n == Len(emission)
         IN /\ n \in Nat /\ DOMAIN emission = 1..n /\ emission \in [1..n -> Int]
            /\ Errors \in [1..n -> Int] /\ AbsoluteErrors \in [1..n -> Nat]
            /\ \A i \in 1..n : /\ BurstOf(i) \in Nat /\ Deadline(BurstOf(i)) \in Nat
                               /\ emission[i] = Deadline(BurstOf(i)) + Errors[i]
                               /\ AbsoluteErrors[i] = Abs(Errors[i])
<1> DEFINE n == Len(emission)
<1>1. n \in Nat /\ DOMAIN emission = 1..n /\ emission \in [1..n -> Int] /\ n <= MaxNotes
  BY LenProperties DEF EmissionInv
<1>2. \A i \in 1..n : BurstOf(i) \in Nat /\ Deadline(BurstOf(i)) \in Nat
  <2> TAKE i \in 1..n
  <2>1. i \in Nat \ {0} BY <1>1
  <2> QED BY <2>1, BurstsOf, DeadlineIsNear
<1> HIDE DEF n
<1>3. \A i \in 1..n : i \in 1..MaxNotes /\ Plan[i] = Deadline(BurstOf(i))
  BY <1>1, PlanTypes DEF Plan
<1>4. Errors = [i \in 1..n |-> emission[i] - Plan[i]] BY <1>1 DEF Errors
<1>5. \A i \in 1..n : Errors[i] = emission[i] - Deadline(BurstOf(i)) /\ emission[i] \in Int
  BY <1>1, <1>3, <1>4
<1>6. \A i \in 1..n : Errors[i] \in Int /\ emission[i] = Deadline(BurstOf(i)) + Errors[i]
  BY <1>2, <1>5
<1>7. Errors \in [1..n -> Int] BY <1>4, <1>6
<1>8. AbsoluteErrors = [i \in 1..n |-> Abs(Errors[i])] BY <1>1 DEF AbsoluteErrors
<1>9. AbsoluteErrors \in [1..n -> Nat] BY <1>6, <1>8, AbsBounds
<1> QED BY <1>1, <1>2, <1>6, <1>7, <1>8, <1>9 DEF n

LEMMA ProfileMeansNear ==
  ASSUME EmissionInv, WithinProfile, NEW i \in DOMAIN emission
  PROVE  2 * Abs(emission[i] * PulseDen - BurstOf(i) * Minute) <= (2 * MaximumLimit + 1) * PulseDen
<1> DEFINE n == Len(emission)
           D == PulseDen
           e == Errors[i]
           p == Deadline(BurstOf(i))
           q == BurstOf(i) * Minute
           L == MaximumLimit
<1>1. /\ n \in Nat /\ i \in 1..n /\ e \in Int /\ p \in Nat /\ BurstOf(i) \in Nat
      /\ emission[i] = p + e /\ AbsoluteErrors[i] = Abs(e) /\ AbsoluteErrors \in [1..n -> Nat]
  BY ErrorsOf
<1>2. D \in Nat \ {0} /\ L \in Nat BY PlanTypes
<1>3. Abs(e) <= L
  <2>1. n \in Nat \ {0} BY <1>1
  <2>2. Abs(e) <= NearestRank(AbsoluteErrors, 100) /\ NearestRank(AbsoluteErrors, 100) \in Nat
    BY <1>1, <2>1, HighestRank
  <2>3. NearestRank(AbsoluteErrors, 100) <= L BY DEF WithinProfile
  <2>4. Abs(e) \in Nat BY <1>1, AbsBounds
  <2> QED BY <1>2, <2>2, <2>3, <2>4
<1>4. e <= L /\ -e <= L BY <1>1, <1>2, <1>3, AbsBounds
<1>5. q \in Nat /\ D * p \in Nat /\ 2 * (D * p) <= 2 * q + D /\ 2 * q < 2 * (D * p) + D
  BY <1>1, DeadlineIsNear
<1> HIDE DEF n, D, e, p, q, L
<1>6. D * e <= D * L /\ -(D * e) <= D * L /\ D * e \in Int /\ D * L \in Int
  <2>1. -(D * e) = D * (-e) BY <1>1, <1>2
  <2>2. D * e <= D * L /\ D * (-e) <= D * L BY <1>1, <1>2, <1>4
  <2> QED BY <1>1, <1>2, <2>1, <2>2
<1>7. (p + e) * D = D * p + D * e /\ (2 * L + 1) * D = 2 * (D * L) + D BY <1>1, <1>2
<1> DEFINE u == D * p + D * e - q
<1>8. u \in Int /\ 2 * u <= 2 * (D * L) + D /\ 2 * (-u) <= 2 * (D * L) + D BY <1>2, <1>5, <1>6
<1>9. 2 * Abs(u) <= 2 * (D * L) + D
  <2> HIDE DEF u
  <2> QED BY <1>8 DEF Abs
<1>10. (p + e) * D - q = u BY <1>1, <1>2, <1>5, <1>6, <1>7
<1> HIDE DEF u
<1>11. 2 * Abs((p + e) * D - q) <= (2 * L + 1) * D BY <1>7, <1>9, <1>10
<1> QED BY <1>1, <1>11 DEF D, q, L

LEMMA ServicesOf ==
  ASSUME EmissionInv
  PROVE  LET n == Len(emission) \div Width
         IN /\ n \in Nat /\ DOMAIN ServiceTimes = 1..n /\ ServiceTimes \in [1..n -> Nat]
            /\ (ServiceTimes # <<>> => n # 0)
            /\ \A k \in 1..n : /\ (k - 1) * Width + 1 \in DOMAIN emission
                               /\ k * Width \in DOMAIN emission
                               /\ ServiceTimes[k] = emission[k * Width]
                                                    - emission[(k - 1) * Width + 1]
<1> DEFINE n == Len(emission) \div Width
<1>1. Len(emission) \in Nat /\ DOMAIN emission = 1..Len(emission)
      /\ emission \in [1..Len(emission) -> Int]
  BY ErrorsOf
<1>2. Width \in Nat \ {0} BY PlanTypes
<1>3. n \in Nat /\ Width * n <= Len(emission)
  <2>1. \A a \in Nat, d \in Nat \ {0} : a \div d \in Nat OBVIOUS
  <2> QED BY <1>1, <1>2, <2>1, DivisionBounds
<1>4. ServiceTimes = [k \in 1..n |-> emission[k * Width] - emission[(k - 1) * Width + 1]]
  BY DEF ServiceTimes
<1> HIDE DEF n
<1>5. ASSUME NEW k \in 1..n
      PROVE  /\ (k - 1) * Width + 1 \in DOMAIN emission /\ k * Width \in DOMAIN emission
             /\ emission[k * Width] - emission[(k - 1) * Width + 1] \in Nat
  <2>1. Width * k <= Width * n /\ Width * n \in Int /\ Width * k \in Int /\ Width * (k - 1) \in Nat
    <3>1. k \in Nat /\ n - k \in Nat /\ k - 1 \in Nat BY <1>3
    <3>2. \A a, b \in Nat : a * b \in Nat OBVIOUS
    <3>3. Width * n = Width * k + Width * (n - k) BY <1>2, <1>3, <3>1
    <3>4. Width * k \in Nat /\ Width * (n - k) \in Nat /\ Width * (k - 1) \in Nat
      BY <1>2, <3>1, <3>2
    <3> QED BY <3>3, <3>4
  <2>2. /\ (k - 1) * Width = Width * (k - 1) /\ k * Width = Width * k
        /\ Width * (k - 1) = Width * k - Width
    BY <1>2, <1>3
  <2>3. /\ (k - 1) * Width + 1 \in 1..Len(emission) /\ k * Width \in 1..Len(emission)
        /\ (k - 1) * Width + 1 <= k * Width
    BY <1>1, <1>2, <1>3, <2>1, <2>2
  <2>4. emission[(k - 1) * Width + 1] <= emission[k * Width] BY <1>1, <2>3 DEF EmissionInv
  <2>5. emission[k * Width] \in Int /\ emission[(k - 1) * Width + 1] \in Int BY <1>1, <2>3
  <2> QED BY <1>1, <2>3, <2>4, <2>5
<1>6. DOMAIN ServiceTimes = 1..n /\ ServiceTimes \in [1..n -> Nat] BY <1>4, <1>5
<1>7. n = 0 => ServiceTimes = <<>>
  <2> SUFFICES ASSUME n = 0 PROVE ServiceTimes = <<>> OBVIOUS
  <2>1. ServiceTimes \in Seq(Nat) /\ Len(ServiceTimes) = 0 BY <1>3, <1>6, LenProperties, SeqDef
  <2> QED BY <2>1, EmptySeq
<1> QED BY <1>3, <1>4, <1>5, <1>6, <1>7 DEF n

LEMMA HardServiceMeansInTime ==
  ASSUME EmissionInv, HardService, ServiceTimes # <<>>, NEW k \in DOMAIN ServiceTimes
  PROVE  emission[k * Width] <= Deadline(k + 1) + 1 + Errors[(k - 1) * Width + 1]
<1> DEFINE n == Len(emission) \div Width
           a == (k - 1) * Width + 1
<1>1. /\ n \in Nat \ {0} /\ k \in 1..n /\ ServiceTimes \in [1..n -> Nat]
      /\ a \in DOMAIN emission /\ k * Width \in DOMAIN emission
      /\ ServiceTimes[k] = emission[k * Width] - emission[a]
  BY ServicesOf
<1>2. k \in Nat \ {0} BY <1>1
<1>3. Pulse \in Nat /\ Pulse + Deadline(k) <= Deadline(k + 1) + 1 BY <1>2, PulsesDoNotDrift
<1>4. Deadline(k) \in Nat /\ Deadline(k + 1) \in Nat BY <1>2, k + 1 \in Nat, DeadlineIsNear
<1>5. BurstOf(a) = k BY <1>2, BurstsOf
<1>6. emission[a] = Deadline(k) + Errors[a] /\ Errors[a] \in Int /\ emission[k * Width] \in Int
  BY <1>1, <1>5, ErrorsOf
<1>7. ServiceTimes[k] <= Pulse
  <2>1. ServiceTimes[k] <= NearestRank(ServiceTimes, 100) /\ NearestRank(ServiceTimes, 100) \in Nat
    BY <1>1, HighestRank
  <2>2. ServiceTimes[k] \in Nat BY <1>1
  <2> QED BY <1>3, <2>1, <2>2 DEF HardService
<1> HIDE DEF a
<1>8. emission[k * Width] - emission[a] <= Pulse BY <1>1, <1>7
<1>9. emission[k * Width] - (Deadline(k) + Errors[a]) <= Pulse BY <1>6, <1>8
<1>10. emission[k * Width] <= Deadline(k + 1) + 1 + Errors[a] BY <1>3, <1>4, <1>6, <1>9
<1> QED BY <1>10 DEF a

LEMMA SustainedServiceMeansMost ==
  ASSUME EmissionInv, SustainedService, ServiceTimes # <<>>
  PROVE  100 * Cardinality({k \in DOMAIN ServiceTimes : 2 * ServiceTimes[k] > Pulse})
           <= Len(ServiceTimes)
<1> DEFINE n == Len(emission) \div Width
           r == NearestRank(ServiceTimes, 99)
           late == {k \in DOMAIN ServiceTimes : 2 * ServiceTimes[k] > Pulse}
<1>1. n \in Nat \ {0} /\ DOMAIN ServiceTimes = 1..n /\ ServiceTimes \in [1..n -> Nat]
  BY ServicesOf
<1>2. Len(ServiceTimes) = n BY <1>1, LenProperties
<1>3. r \in Nat /\ 100 * Cardinality(Under(ServiceTimes, r)) >= 99 * n BY <1>1, NearestRankIs
<1>4. Pulse \in Nat BY PulsesDoNotDrift, 0 \in Nat
<1>5. 2 * r <= Pulse BY DEF SustainedService
<1> HIDE DEF n, r
<1>6. Under(ServiceTimes, r) \in SUBSET (1..n) BY <1>1 DEF Under
<1>7. late \in SUBSET ((1..n) \ Under(ServiceTimes, r))
  <2> SUFFICES ASSUME NEW k \in 1..n, 2 * ServiceTimes[k] > Pulse
               PROVE  k \notin Under(ServiceTimes, r)
    BY <1>1
  <2>1. ServiceTimes[k] \in Nat BY <1>1
  <2> QED BY <1>3, <1>4, <1>5, <2>1 DEF Under
<1>8. /\ Cardinality(Under(ServiceTimes, r)) \in 0..n
      /\ Cardinality((1..n) \ Under(ServiceTimes, r)) = n - Cardinality(Under(ServiceTimes, r))
  BY <1>1, <1>6, CountsOf
<1> HIDE DEF late
<1>9. /\ (1..n) \ Under(ServiceTimes, r) \in SUBSET (1..n) /\ late \in SUBSET (1..n)
  BY <1>7
<1>10. Cardinality(late) <= Cardinality((1..n) \ Under(ServiceTimes, r)) BY <1>1, <1>7, <1>9, CountsOf
<1>11. Cardinality(late) \in 0..n BY <1>1, <1>9, CountsOf
<1> QED BY <1>1, <1>2, <1>3, <1>8, <1>10, <1>11 DEF late

LEMMA TimeIsKept == ASSUME EmissionInv PROVE PassedRunsKeepTime
<1> SUFFICES ASSUME emission # <<>>
             PROVE  /\ WithinProfile =>
                         \A i \in DOMAIN emission :
                           2 * Abs(emission[i] * PulseDen - BurstOf(i) * Minute)
                             <= (2 * MaximumLimit + 1) * PulseDen
                    /\ \A percent \in {50, 95, 99, 100} :
                         LET below(v) == Cardinality({i \in DOMAIN emission : AbsoluteErrors[i] <= v})
                             r == NearestRank(AbsoluteErrors, percent)
                         IN /\ 100 * below(r) >= percent * Len(emission)
                            /\ \A v \in 0..(r - 1) : 100 * below(v) < percent * Len(emission)
                    /\ ServiceTimes # <<>> =>
                         /\ HardService =>
                              \A k \in DOMAIN ServiceTimes :
                                emission[k * Width]
                                  <= Deadline(k + 1) + 1 + Errors[(k - 1) * Width + 1]
                         /\ SustainedService =>
                              100 * Cardinality({k \in DOMAIN ServiceTimes :
                                                   2 * ServiceTimes[k] > Pulse})
                                <= Len(ServiceTimes)
  BY Zenon DEF PassedRunsKeepTime
<1>1. ASSUME NEW percent \in {50, 95, 99, 100}
      PROVE  LET below(v) == Cardinality({i \in DOMAIN emission : AbsoluteErrors[i] <= v})
                 r == NearestRank(AbsoluteErrors, percent)
             IN /\ 100 * below(r) >= percent * Len(emission)
                /\ \A v \in 0..(r - 1) : 100 * below(v) < percent * Len(emission)
  <2> DEFINE n == Len(emission)
  <2>1. n \in Nat /\ DOMAIN emission = 1..n /\ AbsoluteErrors \in [1..n -> Nat] BY ErrorsOf
  <2>2. n # 0 BY EmptySeq DEF EmissionInv
  <2>3. percent \in 1..100 OBVIOUS
  <2>4. \A v : Under(AbsoluteErrors, v) = {i \in DOMAIN emission : AbsoluteErrors[i] <= v}
    BY <2>1 DEF Under
  <2> HIDE DEF n
  <2>5. LET r == NearestRank(AbsoluteErrors, percent)
        IN /\ 100 * Cardinality(Under(AbsoluteErrors, r)) >= percent * n
           /\ \A v \in 0..(r - 1) : 100 * Cardinality(Under(AbsoluteErrors, v)) < percent * n
    BY <2>1, <2>2, <2>3, NearestRankIs
  <2> QED BY <2>4, <2>5 DEF n
<1>2. WithinProfile =>
        \A i \in DOMAIN emission :
          2 * Abs(emission[i] * PulseDen - BurstOf(i) * Minute) <= (2 * MaximumLimit + 1) * PulseDen
  BY ProfileMeansNear, Zenon
<1>3. ServiceTimes # <<>> /\ HardService =>
        \A k \in DOMAIN ServiceTimes :
          emission[k * Width] <= Deadline(k + 1) + 1 + Errors[(k - 1) * Width + 1]
  BY HardServiceMeansInTime, Zenon
<1>4. ServiceTimes # <<>> /\ SustainedService =>
        100 * Cardinality({k \in DOMAIN ServiceTimes : 2 * ServiceTimes[k] > Pulse})
          <= Len(ServiceTimes)
  BY SustainedServiceMeansMost, Zenon
<1> QED BY <1>1, <1>2, <1>3, <1>4, Zenon

-----------------------------------------------------------------------------
(* The resource samples: windows, and the throttling in them.              *)

LEMMA RowsOf ==
  ASSUME RowsInv
  PROVE  LET n == Len(rows)
         IN /\ n \in Nat /\ DOMAIN rows = 1..n
            /\ \A i \in 1..n : /\ rows[i] \in Samples /\ rows[i].t \in Nat /\ rows[i].queue \in Nat
                               /\ rows[i].throttled \in Nat /\ rows[i].rss \in Nat
            /\ \A i, j \in 1..n : i < j => rows[i].t < rows[j].t
            /\ \A i, j \in 1..n : i <= j => rows[i].t <= rows[j].t
            /\ (n # 0 => Last(rows) = rows[n])
<1> DEFINE n == Len(rows)
<1>1. n \in Nat /\ DOMAIN rows = 1..n /\ rows \in [1..n -> Samples] BY LenProperties DEF RowsInv
<1>2. \A i \in 1..n : /\ rows[i] \in Samples /\ rows[i].t \in Nat /\ rows[i].queue \in Nat
                      /\ rows[i].throttled \in Nat /\ rows[i].rss \in Nat
  <2> TAKE i \in 1..n
  <2>1. rows[i] \in Samples BY <1>1
  <2> QED BY <2>1 DEF Samples
<1>3. \A i, j \in 1..n : i < j => rows[i].t < rows[j].t BY <1>1 DEF RowsInv
<1>4. \A i, j \in 1..n : i <= j => rows[i].t <= rows[j].t
  <2> TAKE i, j \in 1..n
  <2>1. CASE i = j BY <2>1, <1>2
  <2>2. CASE i < j BY <2>2, <1>2, <1>3
  <2>3. i \in Nat /\ j \in Nat BY <1>1
  <2> QED BY <2>1, <2>2, <2>3
<1>5. n # 0 => Last(rows) = rows[n] BY DEF Last
<1> QED BY <1>1, <1>2, <1>3, <1>4, <1>5

LEMMA EndsOf ==
  ASSUME NEW n \in Nat, NEW s \in SUBSET (1..n), s # {}
  PROVE  /\ Min(s) \in s /\ \A i \in s : Min(s) <= i
         /\ Max(s) \in s /\ \A i \in s : i <= Max(s)
<1>1. \E x \in s : \A y \in s : x <= y
  <2>1. s \in SUBSET Nat OBVIOUS
  <2> QED BY <2>1, Summing!LeastNumber
<1>2. \E x \in s : \A y \in s : x >= y
  <2> DEFINE T == {m \in Nat : \E x \in s : m = n - x}
  <2>1. PICK z \in s : TRUE OBVIOUS
  <2>2. n - z \in T OBVIOUS
  <2>3. PICK m \in T : \A k \in T : m <= k
    <3>1. T \in SUBSET Nat /\ T # {} BY <2>2
    <3> HIDE DEF T
    <3> QED BY <3>1, Summing!LeastNumber
  <2>4. PICK x \in s : m = n - x BY <2>3
  <2>5. \A y \in s : n - y \in T OBVIOUS
  <2>6. \A y \in s : n - x <= n - y /\ y \in Nat /\ x \in Nat BY <2>3, <2>4, <2>5
  <2> QED BY <2>6
<1>3. Min(s) \in s /\ \A y \in s : Min(s) <= y BY <1>1 DEF Min
<1>4. Max(s) \in s /\ \A y \in s : Max(s) >= y BY <1>2 DEF Max
<1>5. \A y \in s : y \in Nat OBVIOUS
<1>6. \A y \in s : y <= Max(s) BY <1>4, <1>5
<1> QED BY <1>3, <1>4, <1>6

LEMMA BracketEncloses ==
  ASSUME RowsInv, Len(rows) >= 2, NEW start \in Nat, NEW end \in Nat, start <= end
  PROVE  LET b == Bracket(start, end)
         IN /\ b[1] \in 1..Len(rows) /\ b[2] \in 1..Len(rows) /\ b[1] < b[2]
            /\ rows[1].t <= start => rows[b[1]].t <= start
            /\ Last(rows).t >= end => rows[b[2]].t >= end
<1> DEFINE n == Len(rows)
           early == {i \in DOMAIN rows : rows[i].t <= start} \cup {1}
           late == {i \in DOMAIN rows : rows[i].t >= end} \cup {n}
           f == FirstOf(start)
           l == LastOf(end)
           m == Min({f + 1, n})
<1>1. /\ n \in Nat /\ n >= 2 /\ DOMAIN rows = 1..n /\ Last(rows) = rows[n]
      /\ \A i \in 1..n : rows[i].t \in Nat
      /\ \A i, j \in 1..n : i < j => rows[i].t < rows[j].t
      /\ \A i, j \in 1..n : i <= j => rows[i].t <= rows[j].t
  BY RowsOf
<1>2. f \in early
  <2>1. early \in SUBSET (1..n) /\ early # {} BY <1>1
  <2>2. Max(early) \in early BY <1>1, <2>1, EndsOf
  <2> QED BY <2>2 DEF FirstOf
<1>3. l \in late
  <2>1. late \in SUBSET (1..n) /\ late # {} BY <1>1
  <2>2. Min(late) \in late BY <1>1, <2>1, EndsOf
  <2> QED BY <2>2 DEF LastOf
<1>4. f \in 1..n /\ (f = 1 \/ rows[f].t <= start) BY <1>1, <1>2
<1>5. l \in 1..n /\ (l = n \/ rows[l].t >= end) BY <1>1, <1>3
<1>6. Bracket(start, end) = IF f # l THEN <<f, l>> ELSE <<m - 1, m>> BY DEF Bracket
<1> HIDE DEF f, l, m, n, early, late
<1>7. f <= l
  <2> SUFFICES ASSUME f > l PROVE FALSE BY <1>1, <1>4, <1>5
  <2>1. rows[f].t <= start /\ rows[l].t >= end BY <1>1, <1>4, <1>5
  <2>2. rows[l].t < rows[f].t /\ rows[f].t \in Nat /\ rows[l].t \in Nat BY <1>1, <1>4, <1>5
  <2> QED BY <2>1, <2>2
<1>8. rows[1].t <= start => rows[f].t <= start BY <1>4
<1>9. rows[n].t >= end => rows[l].t >= end BY <1>5
<1>10. CASE f # l
  <2>1. Bracket(start, end) = <<f, l>> BY <1>6, <1>10
  <2>2. f < l BY <1>1, <1>4, <1>5, <1>7, <1>10
  <2>3. <<f, l>>[1] = f /\ <<f, l>>[2] = l OBVIOUS
  <2> QED BY <1>1, <1>4, <1>5, <1>8, <1>9, <2>1, <2>2, <2>3 DEF n
<1>11. CASE f = l
  <2>1. Bracket(start, end) = <<m - 1, m>> BY <1>6, <1>11
  <2>2. m = IF f < n THEN f + 1 ELSE n
    <3>1. f < n => Min({f + 1, n}) = f + 1 BY <1>1, <1>4 DEF Min
    <3>2. f = n => Min({f + 1, n}) = n BY <1>1, <1>4 DEF Min
    <3> QED BY <1>1, <1>4, <3>1, <3>2 DEF m
  <2>3. m - 1 \in 1..n /\ m \in 1..n /\ m - 1 < m /\ m - 1 <= f /\ l <= m
    BY <1>1, <1>4, <1>11, <2>2
  <2>4. /\ rows[m - 1].t <= rows[f].t /\ rows[l].t <= rows[m].t
        /\ rows[m - 1].t \in Nat /\ rows[f].t \in Nat /\ rows[l].t \in Nat /\ rows[m].t \in Nat
    BY <1>1, <1>4, <1>5, <2>3
  <2> HIDE DEF m
  <2>5. /\ rows[1].t <= start => rows[m - 1].t <= start
        /\ rows[n].t >= end => rows[m].t >= end
    <3>1. \A a, b, c \in Nat : a <= b /\ b <= c => a <= c OBVIOUS
    <3>2. rows[f].t <= start => rows[m - 1].t <= start BY <2>4, <3>1
    <3>3. rows[l].t >= end => rows[m].t >= end BY <2>4, <3>1
    <3> QED BY <1>8, <1>9, <3>2, <3>3
  <2> QED BY <1>1, <2>1, <2>3, <2>5 DEF n
<1> QED BY <1>10, <1>11

\* The changes of a counter between two samples add up to its change.
Interval(i) == [from |-> rows[i].t, to |-> rows[i + 1].t,
                by |-> rows[i + 1].throttled - rows[i].throttled]
Changed(first, m) == {i \in first..(m - 1) : rows[i + 1].throttled # rows[i].throttled}
Intervals(first, m) == {Interval(i) : i \in Changed(first, m)}
ByOf(s) == SumFunction([i \in s |-> i.by])

LEMMA ByAdds ==
  ASSUME NEW s, IsFiniteSet(s), \A i \in s : i.by \in Int
  PROVE  /\ ByOf(s) \in Int
         /\ \A x : x.by \in Int /\ x \notin s => ByOf(s \cup {x}) = x.by + ByOf(s)
<1>1. \A r : ByOf(r) = SumOf([i \in r |-> i.by], r) BY DEF ByOf, SumFunction, SumOf
<1>2. ByOf(s) \in Int
  <2> DEFINE f == [i \in s |-> i.by]
  <2>1. \A i \in s : f[i] \in Int OBVIOUS
  <2>2. SumOf(f, s) \in Int BY <2>1, SumIsInt
  <2> QED BY <1>1, <2>2
<1>3. ASSUME NEW x, x.by \in Int, x \notin s PROVE ByOf(s \cup {x}) = x.by + ByOf(s)
  <2> DEFINE f == [i \in s |-> i.by]
             g == [i \in s \cup {x} |-> i.by]
  <2>1. \A i \in s \cup {x} : g[i] \in Int BY <1>3
  <2>2. \A i \in s : f[i] = g[i] /\ f[i] \in Int OBVIOUS
  <2>3. g[x] = x.by OBVIOUS
  <2>4. ByOf(s) = SumOf(f, s) /\ ByOf(s \cup {x}) = SumOf(g, s \cup {x}) BY <1>1
  <2> HIDE DEF f, g
  <2>5. SumOf(g, s \cup {x}) = g[x] + SumOf(g, s) BY <1>3, <2>1, SumAdd
  <2>6. SumOf(f, s) = SumOf(g, s) BY <2>2, SumAgrees
  <2> QED BY <2>3, <2>4, <2>5, <2>6
<1> QED BY <1>2, <1>3

LEMMA ChangesAddUp ==
  ASSUME RowsInv, NEW first \in 1..Len(rows), NEW last \in 1..Len(rows), first <= last
  PROVE  ByOf(Intervals(first, last)) = rows[last].throttled - rows[first].throttled
<1> DEFINE n == Len(rows)
           Is(m) == /\ IsFiniteSet(Intervals(first, first + m))
                    /\ ByOf(Intervals(first, first + m))
                         = rows[first + m].throttled - rows[first].throttled
           S == {m \in Nat : first + m <= n => Is(m)}
<1>1. /\ n \in Nat /\ DOMAIN rows = 1..n
      /\ \A i \in 1..n : rows[i].t \in Nat /\ rows[i].throttled \in Nat
      /\ \A i, j \in 1..n : i < j => rows[i].t < rows[j].t
  BY RowsOf
<1> HIDE DEF n
<1>0. first \in 1..n /\ last \in 1..n BY DEF n
<1>2. 0 \in S
  <2>1. first + 0 = first BY <1>0
  <2>2. Intervals(first, first) = {} BY <1>0 DEF Intervals, Changed
  <2>3. ByOf({}) = 0 BY SumEmpty DEF ByOf, SumFunction, SumOf
  <2>4. rows[first].throttled - rows[first].throttled = 0 BY <1>0, <1>1
  <2>5. IsFiniteSet({}) BY FS_EmptySet
  <2> QED BY <2>1, <2>2, <2>3, <2>4, <2>5
<1>3. ASSUME NEW m \in Nat, m \in S PROVE m + 1 \in S
  <2> SUFFICES ASSUME first + (m + 1) <= n PROVE Is(m + 1) OBVIOUS
  <2> DEFINE k == first + m
             x == Interval(k)
             I == Intervals(first, k)
  <2>1. k \in 1..n /\ k + 1 \in 1..n /\ first + (m + 1) = k + 1 /\ first <= k BY <1>0, <1>1
  <2>2. Is(m) BY <1>0, <1>1, <1>3
  <2>3. IsFiniteSet(I) /\ ByOf(I) = rows[k].throttled - rows[first].throttled BY <2>2
  <2>4. /\ x.by = rows[k + 1].throttled - rows[k].throttled /\ x.from = rows[k].t
        /\ rows[k].throttled \in Nat /\ rows[k + 1].throttled \in Nat
        /\ rows[first].throttled \in Nat
    BY <1>0, <1>1, <2>1 DEF Interval
  <2> HIDE DEF k
  <2>5. ASSUME NEW y \in I PROVE y # x /\ y.by \in Int
    <3>1. PICK i \in first..(k - 1) : y = Interval(i) BY DEF Intervals, Changed
    <3>2. i \in 1..n /\ i + 1 \in 1..n /\ i < k BY <1>0, <1>1, <2>1, <3>1
    <3>3. rows[i].t < rows[k].t /\ rows[i].t \in Nat /\ rows[k].t \in Nat BY <1>1, <2>1, <3>2
    <3>4. y.from = rows[i].t /\ y.by = rows[i + 1].throttled - rows[i].throttled
      BY <3>1 DEF Interval
    <3>5. y.by \in Int BY <1>1, <3>2, <3>4
    <3>6. y.from # x.from BY <2>4, <3>3, <3>4
    <3> QED BY <3>5, <3>6
  <2>6. CASE rows[k + 1].throttled = rows[k].throttled
    <3>1. Changed(first, k + 1) = Changed(first, k) BY <1>0, <2>1, <2>6 DEF Changed
    <3>2. Intervals(first, k + 1) = I BY <3>1 DEF Intervals
    <3> QED BY <2>1, <2>3, <2>4, <2>6, <3>2
  <2>7. CASE rows[k + 1].throttled # rows[k].throttled
    <3>1. Changed(first, k + 1) = Changed(first, k) \cup {k} BY <1>0, <2>1, <2>7 DEF Changed
    <3>2. Intervals(first, k + 1) = I \cup {x} BY <3>1 DEF Intervals
    <3>3. x \notin I /\ x.by \in Int BY <2>4, <2>5
    <3> HIDE DEF I, x
    <3>4. ByOf(I \cup {x}) = x.by + ByOf(I) BY <2>3, <2>5, <3>3, ByAdds
    <3>5. IsFiniteSet(I \cup {x}) BY <2>3, FS_AddElement
    <3>6. x.by + ByOf(I) = rows[k + 1].throttled - rows[first].throttled BY <2>3, <2>4
    <3> QED BY <2>1, <3>2, <3>4, <3>5, <3>6
  <2> QED BY <2>6, <2>7
<1>4. last - first \in S
  <2>1. Nat \subseteq S
    <3> HIDE DEF S
    <3> QED BY <1>2, <1>3, Summing!Induction
  <2>2. last - first \in Nat BY <1>0, <1>1
  <2> QED BY <2>1, <2>2
<1>5. first + (last - first) = last /\ last <= n BY <1>0, <1>1
<1> QED BY <1>4, <1>5

LEMMA WindowsHold == ASSUME RowsInv PROVE WindowsAreEnclosed
<1> SUFFICES ASSUME Len(rows) >= 2, NEW start \in 0..(Last(rows).t + 1),
                    NEW end \in 0..(Last(rows).t + 1), start <= end
             PROVE  LET b == Bracket(start, end)
                        t == Throttled(b[1], b[2])
                    IN /\ b[1] < b[2]
                       /\ rows[1].t <= start => rows[b[1]].t <= start
                       /\ Last(rows).t >= end => rows[b[2]].t >= end
                       /\ SumFunction([i \in t.intervals |-> i.by]) = t.delta
  BY Zenon DEF WindowsAreEnclosed
<1> DEFINE b == Bracket(start, end)
           t == Throttled(b[1], b[2])
<1>1. start \in Nat /\ end \in Nat OBVIOUS
<1>2. /\ b[1] \in 1..Len(rows) /\ b[2] \in 1..Len(rows) /\ b[1] < b[2]
      /\ rows[1].t <= start => rows[b[1]].t <= start
      /\ Last(rows).t >= end => rows[b[2]].t >= end
  BY <1>1, BracketEncloses
<1> HIDE DEF b
<1>3. /\ t.delta = rows[b[2]].throttled - rows[b[1]].throttled
      /\ t.intervals = Intervals(b[1], b[2])
  BY DEF Throttled, Intervals, Changed, Interval
<1>4. ByOf(Intervals(b[1], b[2])) = rows[b[2]].throttled - rows[b[1]].throttled
  BY <1>2, ChangesAddUp
<1> HIDE DEF t
<1>5. SumFunction([i \in t.intervals |-> i.by]) = t.delta BY <1>3, <1>4 DEF ByOf
<1> QED BY <1>2, <1>5 DEF b, t

-----------------------------------------------------------------------------
(* Growth and recovery.  The slope's denominator is the spread of the      *)
(* times, which each further sample makes larger; samples on a line have   *)
(* the line's growth times that spread as numerator.                       *)

LEMMA RecoveryIsSeen ==
  ASSUME RowsInv, NEW end \in Nat, NEW bar \in Nat
  PROVE  RecoveryPassed(end, bar)
           <=> \E i \in DOMAIN rows : rows[i].t \in end..(end + bar) /\ rows[i].queue = 0
<1> DEFINE n == Len(rows)
           quiet == {i \in DOMAIN rows : rows[i].t >= end /\ rows[i].queue = 0}
<1>1. /\ n \in Nat /\ DOMAIN rows = 1..n
      /\ \A i \in 1..n : rows[i].t \in Nat
      /\ \A i, j \in 1..n : i <= j => rows[i].t <= rows[j].t
  BY RowsOf
<1>2. RecoveryPassed(end, bar) <=> quiet # {} /\ rows[Min(quiet)].t - end <= bar
  BY DEF RecoveryPassed
<1> HIDE DEF n
<1>3. quiet \in SUBSET (1..n) BY <1>1
<1>4. quiet # {} => Min(quiet) \in quiet /\ \A i \in quiet : Min(quiet) <= i
  <2> HIDE DEF quiet
  <2> QED BY <1>1, <1>3, EndsOf
<1>5. ASSUME RecoveryPassed(end, bar)
      PROVE  \E i \in DOMAIN rows : rows[i].t \in end..(end + bar) /\ rows[i].queue = 0
  <2>1. Min(quiet) \in 1..n /\ rows[Min(quiet)].t \in Nat BY <1>1, <1>2, <1>3, <1>4, <1>5
  <2>2. rows[Min(quiet)].t >= end /\ rows[Min(quiet)].queue = 0 BY <1>2, <1>4, <1>5
  <2>3. rows[Min(quiet)].t - end <= bar BY <1>2, <1>5
  <2> HIDE DEF quiet
  <2>4. rows[Min(quiet)].t \in end..(end + bar) BY <2>1, <2>2, <2>3
  <2> QED BY <1>1, <2>1, <2>2, <2>4
<1>6. ASSUME NEW i \in DOMAIN rows, rows[i].t \in end..(end + bar), rows[i].queue = 0
      PROVE  RecoveryPassed(end, bar)
  <2>1. i \in 1..n /\ rows[i].t \in Nat BY <1>1
  <2>2. i \in quiet BY <1>6, <2>1
  <2>3. Min(quiet) \in 1..n /\ Min(quiet) <= i BY <1>3, <1>4, <2>2
  <2>4. quiet # {} BY <2>2
  <2> HIDE DEF quiet
  <2>5. rows[Min(quiet)].t <= rows[i].t /\ rows[Min(quiet)].t \in Nat BY <1>1, <2>1, <2>3
  <2>6. rows[Min(quiet)].t - end <= bar BY <1>6, <2>1, <2>5
  <2> QED BY <1>2, <2>4, <2>6
<1> QED BY <1>5, <1>6

\* What the slope of a set of samples is made of.
Times(s) == SumFunctionOnSet([i \in DOMAIN rows |-> rows[i].t], s)
Squares(s) == SumFunctionOnSet([i \in DOMAIN rows |-> rows[i].t * rows[i].t], s)
Sizes(s) == SumFunctionOnSet([i \in DOMAIN rows |-> rows[i].rss], s)
Products(s) == SumFunctionOnSet([i \in DOMAIN rows |-> rows[i].t * rows[i].rss], s)

LEMMA SumsOfSamples ==
  ASSUME RowsInv, NEW s \in SUBSET DOMAIN rows
  PROVE  /\ IsFiniteSet(s) /\ Cardinality(s) \in Nat
         /\ Times(s) \in Int /\ Squares(s) \in Int /\ Sizes(s) \in Int /\ Products(s) \in Int
         /\ \A x \in DOMAIN rows \ s :
              /\ Cardinality(s \cup {x}) = Cardinality(s) + 1
              /\ Times(s \cup {x}) = rows[x].t + Times(s)
              /\ Squares(s \cup {x}) = rows[x].t * rows[x].t + Squares(s)
              /\ Sizes(s \cup {x}) = rows[x].rss + Sizes(s)
              /\ Products(s \cup {x}) = rows[x].t * rows[x].rss + Products(s)
<1> DEFINE a == [i \in DOMAIN rows |-> rows[i].t]
           b == [i \in DOMAIN rows |-> rows[i].t * rows[i].t]
           c == [i \in DOMAIN rows |-> rows[i].rss]
           d == [i \in DOMAIN rows |-> rows[i].t * rows[i].rss]
<1>1. Len(rows) \in Nat /\ DOMAIN rows = 1..Len(rows)
      /\ \A i \in DOMAIN rows : rows[i].t \in Nat /\ rows[i].rss \in Nat
  BY RowsOf
<1>2. \A i \in DOMAIN rows : a[i] = rows[i].t /\ b[i] = rows[i].t * rows[i].t
                             /\ c[i] = rows[i].rss /\ d[i] = rows[i].t * rows[i].rss
  OBVIOUS
<1>3. \A i \in DOMAIN rows : a[i] \in Int /\ b[i] \in Int /\ c[i] \in Int /\ d[i] \in Int
  <2>1. \A x, y \in Nat : x * y \in Int OBVIOUS
  <2> QED BY <1>1, <1>2, <2>1
<1>4. /\ Times(s) = SumOf(a, s) /\ Squares(s) = SumOf(b, s) /\ Sizes(s) = SumOf(c, s)
      /\ Products(s) = SumOf(d, s)
      /\ \A x : /\ Times(s \cup {x}) = SumOf(a, s \cup {x})
                /\ Squares(s \cup {x}) = SumOf(b, s \cup {x})
                /\ Sizes(s \cup {x}) = SumOf(c, s \cup {x})
                /\ Products(s \cup {x}) = SumOf(d, s \cup {x})
  BY DEF Times, Squares, Sizes, Products, SumOf
<1> HIDE DEF a, b, c, d
<1>5. IsFiniteSet(s) /\ Cardinality(s) \in Nat
  <2>1. IsFiniteSet(DOMAIN rows) BY <1>1, FS_Interval
  <2> QED BY <2>1, FS_Subset, FS_CardinalityType
<1>6. \A i \in s : a[i] \in Int /\ b[i] \in Int /\ c[i] \in Int /\ d[i] \in Int BY <1>3
<1>7. SumOf(a, s) \in Int /\ SumOf(b, s) \in Int /\ SumOf(c, s) \in Int /\ SumOf(d, s) \in Int
  BY <1>5, <1>6, SumIsInt
<1>8. ASSUME NEW x \in DOMAIN rows \ s
      PROVE  /\ Cardinality(s \cup {x}) = Cardinality(s) + 1
             /\ SumOf(a, s \cup {x}) = a[x] + SumOf(a, s)
             /\ SumOf(b, s \cup {x}) = b[x] + SumOf(b, s)
             /\ SumOf(c, s \cup {x}) = c[x] + SumOf(c, s)
             /\ SumOf(d, s \cup {x}) = d[x] + SumOf(d, s)
  <2>1. \A i \in s \cup {x} : a[i] \in Int /\ b[i] \in Int /\ c[i] \in Int /\ d[i] \in Int BY <1>3
  <2>2. Cardinality(s \cup {x}) = Cardinality(s) + 1 BY <1>5, FS_AddElement
  <2>3. /\ SumOf(a, s \cup {x}) = a[x] + SumOf(a, s)
        /\ SumOf(b, s \cup {x}) = b[x] + SumOf(b, s)
        /\ SumOf(c, s \cup {x}) = c[x] + SumOf(c, s)
        /\ SumOf(d, s \cup {x}) = d[x] + SumOf(d, s)
    BY <1>5, <2>1, SumAdd
  <2> QED BY <2>2, <2>3
<1>9. \A x \in DOMAIN rows \ s :
        /\ Cardinality(s \cup {x}) = Cardinality(s) + 1
        /\ Times(s \cup {x}) = rows[x].t + Times(s)
        /\ Squares(s \cup {x}) = rows[x].t * rows[x].t + Squares(s)
        /\ Sizes(s \cup {x}) = rows[x].rss + Sizes(s)
        /\ Products(s \cup {x}) = rows[x].t * rows[x].rss + Products(s)
  BY <1>2, <1>4, <1>8
<1> QED BY <1>4, <1>5, <1>7, <1>9

LEMMA NoSamples ==
  Times({}) = 0 /\ Squares({}) = 0 /\ Sizes({}) = 0 /\ Products({}) = 0 /\ Cardinality({}) = 0
<1>1. \A f : SumFunctionOnSet(f, {}) = 0 BY SumEmpty DEF SumOf
<1> QED BY <1>1, FS_EmptySet DEF Times, Squares, Sizes, Products

\* The sum of the squared distances of samples from another one.
LEMMA SamplesAreApart ==
  ASSUME RowsInv, NEW S \in SUBSET DOMAIN rows, NEW x \in DOMAIN rows \ S
  PROVE  Cardinality(S) <= Squares(S) - 2 * (rows[x].t * Times(S)) + Cardinality(S) * (rows[x].t * rows[x].t)
<1> DEFINE T == rows[x].t
           Apart(s) == Cardinality(s) <= Squares(s) - 2 * (T * Times(s)) + Cardinality(s) * (T * T)
           P == {s \in SUBSET S : Apart(s)}
<1>1. /\ \A i \in DOMAIN rows : rows[i].t \in Nat
      /\ \A i, j \in DOMAIN rows : i # j => rows[i].t # rows[j].t
  <2>1. /\ Len(rows) \in Nat /\ DOMAIN rows = 1..Len(rows)
        /\ \A i \in DOMAIN rows : rows[i].t \in Nat
        /\ \A i, j \in DOMAIN rows : i < j => rows[i].t < rows[j].t
    BY RowsOf
  <2>2. \A i, j \in DOMAIN rows : i # j => i < j \/ j < i BY <2>1
  <2> QED BY <2>1, <2>2
<1>2. T \in Nat BY <1>1
<1> HIDE DEF T
<1>3. {} \in P
  <2>1. T * 0 = 0 /\ T * T \in Nat BY <1>2
  <2>2. 0 * (T * T) = 0 BY <2>1
  <2> QED BY <2>1, <2>2, NoSamples
<1>4. ASSUME NEW s \in SUBSET S, NEW y \in S \ s, s \in P PROVE s \cup {y} \in P
  <2> DEFINE t == rows[y].t
             n == Cardinality(s)
             a == Times(s)
             q == Squares(s)
  <2>1. t \in Nat /\ t # T BY <1>1 DEF T
  <2>2. n \in Nat /\ a \in Int /\ q \in Int /\ Cardinality(s \cup {y}) = n + 1
        /\ Times(s \cup {y}) = t + a /\ Squares(s \cup {y}) = t * t + q
    <3>1. s \in SUBSET DOMAIN rows /\ y \in DOMAIN rows \ s OBVIOUS
    <3> QED BY <3>1, SumsOfSamples
  <2>3. n <= q - 2 * (T * a) + n * (T * T) BY <1>4
  <2> HIDE DEF t, n, a, q
  <2>4. (t * t + q) - 2 * (T * (t + a)) + (n + 1) * (T * T)
          = (q - 2 * (T * a) + n * (T * T)) + (t - T) * (t - T)
    BY <1>2, <2>1, <2>2
  <2>5. (t - T) * (t - T) >= 1
    <3>1. \A d \in Int : d # 0 => d * d >= 1 /\ d * d \in Int OBVIOUS
    <3> QED BY <1>2, <2>1, <3>1
  <2>6. q - 2 * (T * a) + n * (T * T) \in Int /\ (t - T) * (t - T) \in Int BY <1>2, <2>1, <2>2
  <2>7. n + 1 <= (t * t + q) - 2 * (T * (t + a)) + (n + 1) * (T * T) BY <2>2, <2>3, <2>4, <2>5, <2>6
  <2>8. Apart(s \cup {y}) BY <2>2, <2>7
  <2>9. s \cup {y} \in SUBSET S OBVIOUS
  <2> QED BY <2>8, <2>9
<1>5. IsFiniteSet(S) BY SumsOfSamples
<1>6. S \in P
  <2> HIDE DEF P
  <2> QED BY <1>3, <1>4, <1>5, FiniteIsListed, Summing!SubsetInduction
<1> QED BY <1>6 DEF T

Spread(s) == Cardinality(s) * Squares(s) - Times(s) * Times(s)

LEMMA SpreadGrows ==
  ASSUME RowsInv, NEW s \in SUBSET DOMAIN rows, NEW x \in DOMAIN rows \ s
  PROVE  Spread(s) \in Int /\ Spread(s \cup {x}) >= Spread(s) + Cardinality(s)
<1> DEFINE t == rows[x].t
           n == Cardinality(s)
           a == Times(s)
           q == Squares(s)
<1>1. t \in Nat BY RowsOf
<1>2. n \in Nat /\ a \in Int /\ q \in Int /\ Cardinality(s \cup {x}) = n + 1
      /\ Times(s \cup {x}) = t + a /\ Squares(s \cup {x}) = t * t + q
  BY SumsOfSamples
<1>3. n <= q - 2 * (t * a) + n * (t * t) BY SamplesAreApart
<1>4. Spread(s) = n * q - a * a BY DEF Spread
<1>5. Spread(s \cup {x}) = (n + 1) * (t * t + q) - (t + a) * (t + a) BY <1>2 DEF Spread
<1> HIDE DEF t, n, a, q
<1>6. (n + 1) * (t * t + q) - (t + a) * (t + a) = (n * q - a * a) + (q - 2 * (t * a) + n * (t * t))
  BY <1>1, <1>2
<1>7. n * q - a * a \in Int /\ q - 2 * (t * a) + n * (t * t) \in Int BY <1>1, <1>2
<1>8. Spread(s \cup {x}) >= Spread(s) + n BY <1>2, <1>3, <1>4, <1>5, <1>6, <1>7
<1> QED BY <1>4, <1>7, <1>8 DEF n

LEMMA SpreadIsPositive ==
  ASSUME RowsInv, NEW S \in SUBSET DOMAIN rows, Cardinality(S) >= 2
  PROVE  Spread(S) \in Int /\ Spread(S) > 0
<1> DEFINE P == {s \in SUBSET S : Spread(s) \in Int /\ Spread(s) >= 0
                                  /\ (Cardinality(s) >= 2 => Spread(s) > 0)}
<1>1. {} \in P
  <2>1. Spread({}) = 0 BY NoSamples DEF Spread
  <2> QED BY <2>1, NoSamples
<1>2. ASSUME NEW s \in SUBSET S, NEW x \in S \ s, s \in P PROVE s \cup {x} \in P
  <2>1. s \in SUBSET DOMAIN rows /\ x \in DOMAIN rows \ s /\ s \cup {x} \in SUBSET DOMAIN rows
    OBVIOUS
  <2>2. Spread(s) \in Int /\ Spread(s \cup {x}) >= Spread(s) + Cardinality(s)
    BY <2>1, SpreadGrows
  <2>3. Cardinality(s) \in Nat /\ Cardinality(s \cup {x}) = Cardinality(s) + 1
    BY <2>1, SumsOfSamples
  <2>4. Spread(s \cup {x}) \in Int
    <3> DEFINE u == s \cup {x}
    <3>1. Cardinality(u) \in Int /\ Squares(u) \in Int /\ Times(u) \in Int BY <2>1, SumsOfSamples
    <3> HIDE DEF u
    <3>2. Spread(u) \in Int BY <3>1 DEF Spread
    <3> QED BY <3>2 DEF u
  <2>5. Spread(s) >= 0 BY <1>2
  <2>6. Spread(s \cup {x}) >= 0 /\ (Cardinality(s \cup {x}) >= 2 => Spread(s \cup {x}) > 0)
    BY <2>2, <2>3, <2>4, <2>5
  <2>7. s \cup {x} \in SUBSET S OBVIOUS
  <2> QED BY <2>4, <2>6, <2>7
<1>3. IsFiniteSet(S) BY SumsOfSamples
<1>4. S \in P
  <2> HIDE DEF P
  <2> QED BY <1>1, <1>2, <1>3, FiniteIsListed, Summing!SubsetInduction
<1> QED BY <1>4

\* The sums of samples that lie on a line.
LEMMA SamplesOnALine ==
  ASSUME RowsInv, NEW S \in SUBSET DOMAIN rows, NEW g \in Nat, NEW c \in Int,
         \A i \in S : rows[i].rss = c + g * rows[i].t
  PROVE  /\ Sizes(S) = Cardinality(S) * c + g * Times(S)
         /\ Products(S) = c * Times(S) + g * Squares(S)
<1> DEFINE Line(s) == /\ Sizes(s) = Cardinality(s) * c + g * Times(s)
                      /\ Products(s) = c * Times(s) + g * Squares(s)
           P == {s \in SUBSET S : Line(s)}
<1>1. {} \in P
  <2>1. 0 * c = 0 /\ g * 0 = 0 /\ c * 0 = 0 OBVIOUS
  <2> QED BY <2>1, NoSamples
<1>2. ASSUME NEW s \in SUBSET S, NEW x \in S \ s, s \in P PROVE s \cup {x} \in P
  <2> DEFINE t == rows[x].t
             r == rows[x].rss
             n == Cardinality(s)
             a == Times(s)
             q == Squares(s)
             y == Sizes(s)
             z == Products(s)
  <2>1. t \in Nat /\ r = c + g * t BY RowsOf
  <2>2. /\ n \in Nat /\ a \in Int /\ q \in Int /\ y \in Int /\ z \in Int
        /\ Cardinality(s \cup {x}) = n + 1 /\ Times(s \cup {x}) = t + a
        /\ Squares(s \cup {x}) = t * t + q /\ Sizes(s \cup {x}) = r + y
        /\ Products(s \cup {x}) = t * r + z
    <3>1. s \in SUBSET DOMAIN rows /\ x \in DOMAIN rows \ s OBVIOUS
    <3> QED BY <3>1, SumsOfSamples
  <2>3. y = n * c + g * a /\ z = c * a + g * q BY <1>2
  <2> HIDE DEF t, r, n, a, q, y, z
  <2>4. (c + g * t) + (n * c + g * a) = (n + 1) * c + g * (t + a) BY <2>1, <2>2
  <2>5. t * (c + g * t) + (c * a + g * q) = c * (t + a) + g * (t * t + q) BY <2>1, <2>2
  <2>6. Line(s \cup {x}) BY <2>1, <2>2, <2>3, <2>4, <2>5
  <2>7. s \cup {x} \in SUBSET S OBVIOUS
  <2> QED BY <2>6, <2>7
<1>3. IsFiniteSet(S) BY SumsOfSamples
<1>4. S \in P
  <2> HIDE DEF P
  <2> QED BY <1>1, <1>2, <1>3, FiniteIsListed, Summing!SubsetInduction
<1> QED BY <1>4

LEMMA SlopeIs ==
  ASSUME RowsInv, Len(rows) # 0
  PROVE  /\ InSlope \in SUBSET DOMAIN rows
         /\ Slope[1] = Cardinality(InSlope) * Products(InSlope) - Times(InSlope) * Sizes(InSlope)
         /\ Slope[2] = Spread(InSlope)
<1> DEFINE S == InSlope
           n == Cardinality(S)
           f == [i \in S |-> rows[i].t]
           g == [i \in S |-> rows[i].rss]
           p == [i \in S |-> rows[i].t * rows[i].rss]
           q == [i \in S |-> rows[i].t * rows[i].t]
<1>1. S \in SUBSET DOMAIN rows BY DEF InSlope
<1> HIDE DEF S
<1>2. IsFiniteSet(S) BY <1>1, SumsOfSamples
<1>3. \A i \in DOMAIN rows : rows[i].t \in Nat /\ rows[i].rss \in Nat BY RowsOf
<1>4. \A i \in S : f[i] \in Int /\ g[i] \in Int /\ p[i] \in Int /\ q[i] \in Int
  <2>1. \A x, y \in Nat : x * y \in Int OBVIOUS
  <2> QED BY <1>1, <1>3, <2>1
<1>5. SumFunction(f) = Times(S)
  <2> DEFINE h == [i \in DOMAIN rows |-> rows[i].t]
  <2>1. \A i \in S : f[i] = h[i] BY <1>1
  <2>2. SumFunction(f) = SumOf(f, S) /\ Times(S) = SumOf(h, S) BY DEF SumFunction, SumOf, Times
  <2> HIDE DEF f, h
  <2> QED BY <1>2, <1>4, <2>1, <2>2, SumAgrees
<1>6. SumFunction(g) = Sizes(S)
  <2> DEFINE h == [i \in DOMAIN rows |-> rows[i].rss]
  <2>1. \A i \in S : g[i] = h[i] BY <1>1
  <2>2. SumFunction(g) = SumOf(g, S) /\ Sizes(S) = SumOf(h, S) BY DEF SumFunction, SumOf, Sizes
  <2> HIDE DEF g, h
  <2> QED BY <1>2, <1>4, <2>1, <2>2, SumAgrees
<1>7. SumFunction(p) = Products(S)
  <2> DEFINE h == [i \in DOMAIN rows |-> rows[i].t * rows[i].rss]
  <2>1. \A i \in S : p[i] = h[i] BY <1>1
  <2>2. SumFunction(p) = SumOf(p, S) /\ Products(S) = SumOf(h, S)
    BY DEF SumFunction, SumOf, Products
  <2> HIDE DEF p, h
  <2> QED BY <1>2, <1>4, <2>1, <2>2, SumAgrees
<1>8. SumFunction(q) = Squares(S)
  <2> DEFINE h == [i \in DOMAIN rows |-> rows[i].t * rows[i].t]
  <2>1. \A i \in S : q[i] = h[i] BY <1>1
  <2>2. SumFunction(q) = SumOf(q, S) /\ Squares(S) = SumOf(h, S)
    BY DEF SumFunction, SumOf, Squares
  <2> HIDE DEF q, h
  <2> QED BY <1>2, <1>4, <2>1, <2>2, SumAgrees
<1>9. Slope = <<n * SumFunction(p) - SumFunction(f) * SumFunction(g),
                n * SumFunction(q) - SumFunction(f) * SumFunction(f)>>
  BY DEF Slope, S
<1> HIDE DEF f, g, p, q
<1>10. /\ Slope[1] = n * Products(S) - Times(S) * Sizes(S)
       /\ Slope[2] = n * Squares(S) - Times(S) * Times(S)
  BY <1>5, <1>6, <1>7, <1>8, <1>9
<1> QED BY <1>1, <1>10 DEF S, Spread

LEMMA GrowthIsTheSlope ==
  ASSUME RowsInv, Len(rows) # 0, HasSlope, NEW g \in Nat,
         \A i, j \in InSlope : rows[j].rss - rows[i].rss = g * (rows[j].t - rows[i].t)
  PROVE  Slope[2] > 0 /\ Slope[1] = g * Slope[2]
<1> DEFINE S == InSlope
           n == Cardinality(S)
           a == Times(S)
           q == Squares(S)
           y == Sizes(S)
           z == Products(S)
<1>1. S \in SUBSET DOMAIN rows /\ Slope[1] = n * z - a * y /\ Slope[2] = Spread(S) BY SlopeIs
<1>2. n >= 2 BY DEF HasSlope
<1> HIDE DEF S
<1>3. Spread(S) > 0 BY <1>1, <1>2, SpreadIsPositive
<1>4. n \in Nat /\ a \in Int /\ q \in Int /\ IsFiniteSet(S) BY <1>1, SumsOfSamples
<1>5. PICK j \in S : TRUE
  <2>1. ASSUME S = {} PROVE FALSE
    <3>1. n = 0 BY <2>1, FS_EmptySet
    <3> QED BY <1>2, <3>1
  <2> QED BY <2>1
<1>6. \A i \in DOMAIN rows : rows[i].t \in Nat /\ rows[i].rss \in Nat BY RowsOf
<1> DEFINE c == rows[j].rss - g * rows[j].t
<1>7. c \in Int BY <1>1, <1>5, <1>6
<1>8. \A i \in S : rows[i].rss = c + g * rows[i].t
  <2> TAKE i \in S
  <2>1. rows[i].rss - rows[j].rss = g * (rows[i].t - rows[j].t) BY <1>5 DEF S
  <2>2. \A u, v \in Nat : g * (u - v) = g * u - g * v /\ g * u \in Int /\ g * v \in Int OBVIOUS
  <2>3. rows[i].t \in Nat /\ rows[j].t \in Nat /\ rows[i].rss \in Nat /\ rows[j].rss \in Nat
    BY <1>1, <1>5, <1>6
  <2>4. g * (rows[i].t - rows[j].t) = g * rows[i].t - g * rows[j].t BY <2>2, <2>3
  <2>5. g * rows[i].t \in Int /\ g * rows[j].t \in Int BY <2>2, <2>3
  <2>6. rows[i].rss - rows[j].rss = g * rows[i].t - g * rows[j].t BY <2>1, <2>4
  <2> DEFINE u == g * rows[i].t
             v == g * rows[j].t
  <2>7. u \in Int /\ v \in Int /\ rows[i].rss - rows[j].rss = u - v BY <2>5, <2>6
  <2> HIDE DEF u, v
  <2>8. rows[i].rss = (rows[j].rss - v) + u BY <2>3, <2>7
  <2> QED BY <2>8 DEF u, v
<1> HIDE DEF c
<1>9. y = n * c + g * a /\ z = c * a + g * q BY <1>1, <1>7, <1>8, SamplesOnALine
<1>10. Spread(S) = n * q - a * a BY DEF Spread
<1> HIDE DEF n, a, q, y, z
<1>11. n * (c * a + g * q) - a * (n * c + g * a) = g * (n * q - a * a) BY <1>4, <1>7
<1> QED BY <1>1, <1>3, <1>9, <1>10, <1>11

LEMMA RowsAreTrue == ASSUME RowsInv PROVE GrowthAndRecoveryAreSeen
<1> SUFFICES ASSUME Len(rows) >= 2
             PROVE  /\ HasSlope =>
                         \A growth \in {0, 1, 2} :
                           (\A i, j \in InSlope :
                              rows[j].rss - rows[i].rss = growth * (rows[j].t - rows[i].t))
                             => Slope[2] > 0 /\ Slope[1] = growth * Slope[2]
                    /\ \A end \in 0..Last(rows).t, bar \in 1..3 :
                         RecoveryPassed(end, bar)
                           <=> \E i \in DOMAIN rows :
                                 rows[i].t \in end..(end + bar) /\ rows[i].queue = 0
  BY Zenon DEF GrowthAndRecoveryAreSeen
<1>1. Len(rows) # 0 OBVIOUS
<1>2. ASSUME HasSlope, NEW growth \in {0, 1, 2},
             \A i, j \in InSlope : rows[j].rss - rows[i].rss = growth * (rows[j].t - rows[i].t)
      PROVE  Slope[2] > 0 /\ Slope[1] = growth * Slope[2]
  <2>1. growth \in Nat OBVIOUS
  <2> QED BY <1>1, <1>2, <2>1, GrowthIsTheSlope
<1>3. ASSUME NEW end \in 0..Last(rows).t, NEW bar \in 1..3
      PROVE  RecoveryPassed(end, bar)
               <=> \E i \in DOMAIN rows : rows[i].t \in end..(end + bar) /\ rows[i].queue = 0
  <2>1. end \in Nat /\ bar \in Nat OBVIOUS
  <2> QED BY <2>1, RecoveryIsSeen
<1> QED BY <1>2, <1>3, Zenon

-----------------------------------------------------------------------------
(* Every step keeps both invariants. *)

LEMMA EmitKeeps ==
  ASSUME MetricsInv, NEW delay \in Delays, Emit(delay) PROVE MetricsInv'
<1> DEFINE n == Len(emission)
           at == Plan[n + 1] + delay
<1>1. /\ n \in Nat /\ DOMAIN emission = 1..n /\ emission \in [1..n -> Int] /\ n < MaxNotes
      /\ emission' = Append(emission, at) /\ emission \in Seq(Int)
      /\ emission # <<>> => at >= Last(emission)
  BY LenProperties DEF MetricsInv, EmissionInv, Emit
<1>2. at \in Int
  <2>1. n + 1 \in 1..MaxNotes /\ n + 1 \in Nat \ {0} BY <1>1, PlanTypes
  <2>2. Plan[n + 1] = Deadline(BurstOf(n + 1)) BY <2>1 DEF Plan
  <2>3. Deadline(BurstOf(n + 1)) \in Nat BY <2>1, BurstsOf, DeadlineIsNear
  <2>4. delay \in Int BY RunMetricsAssumption
  <2> HIDE DEF n
  <2> QED BY <2>2, <2>3, <2>4
<1>3. n # 0 => Last(emission) = emission[n] BY DEF Last
<1>4. n # 0 => emission # <<>> BY EmptySeq
<1> HIDE DEF at, n
<1>5. /\ Len(emission') = n + 1 /\ DOMAIN emission' = 1..(n + 1) /\ emission' \in Seq(Int)
      /\ \A i \in 1..n : emission'[i] = emission[i]
      /\ emission'[n + 1] = at
  BY <1>1, <1>2, AppendProperties, LenProperties DEF n
<1>6. \A i \in 1..n : emission[i] <= at
  <2> TAKE i \in 1..n
  <2>1. n # 0 /\ i <= n /\ n \in 1..n BY <1>1
  <2>2. emission[i] <= emission[n] /\ emission[i] \in Int /\ emission[n] \in Int
    BY <1>1, <2>1 DEF MetricsInv, EmissionInv
  <2>3. at >= emission[n] BY <1>1, <1>3, <1>4, <2>1
  <2> QED BY <1>2, <2>2, <2>3
<1>7. \A i, j \in DOMAIN emission' : i <= j => emission'[i] <= emission'[j]
  <2> SUFFICES ASSUME NEW i \in 1..(n + 1), NEW j \in 1..(n + 1), i <= j
               PROVE  emission'[i] <= emission'[j]
    BY <1>5
  <2>1. CASE j \in 1..n
    <3>1. i \in 1..n BY <1>1, <2>1
    <3>2. emission[i] <= emission[j] BY <1>1, <2>1, <3>1 DEF MetricsInv, EmissionInv
    <3> QED BY <1>5, <2>1, <3>1, <3>2
  <2>2. CASE j = n + 1 /\ i \in 1..n BY <1>5, <1>6, <2>2
  <2>3. CASE j = n + 1 /\ i = n + 1 BY <1>2, <1>5, <2>3
  <2> QED BY <1>1, <2>1, <2>2, <2>3
<1>8. Len(emission') <= MaxNotes BY <1>1, <1>5, PlanTypes
<1>9. EmissionInv' BY <1>5, <1>7, <1>8 DEF EmissionInv
<1>10. UNCHANGED rows BY DEF Emit
<1>11. RowsInv' BY <1>10 DEF MetricsInv, RowsInv
<1> QED BY <1>9, <1>11 DEF MetricsInv

LEMMA TakeRowKeeps ==
  ASSUME MetricsInv, NEW elapsed \in 1..2, NEW load \in Loads, TakeRow(elapsed, load)
  PROVE  MetricsInv'
<1> DEFINE n == Len(rows)
           last == IF rows = <<>> THEN [t |-> 0, throttled |-> 0] ELSE Last(rows)
           row == [t |-> last.t + elapsed, throttled |-> last.throttled + load.throttled,
                   queue |-> load.queue, rss |-> load.rss]
<1>1. rows' = Append(rows, row) /\ rows \in Seq(Samples) BY DEF TakeRow, MetricsInv, RowsInv
<1>2. /\ n \in Nat /\ DOMAIN rows = 1..n /\ (n # 0 => Last(rows) = rows[n])
      /\ \A i \in 1..n : rows[i].t \in Nat /\ rows[i].throttled \in Nat
      /\ \A i, j \in 1..n : i < j => rows[i].t < rows[j].t
      /\ \A i, j \in 1..n : i <= j => rows[i].t <= rows[j].t
  BY RowsOf DEF MetricsInv
<1>3. (rows = <<>>) <=> (n = 0) BY <1>1, EmptySeq
<1>4. last.t \in Nat /\ last.throttled \in Nat /\ (n # 0 => last = rows[n])
  <2>1. CASE n = 0 BY <1>3, <2>1
  <2>2. CASE n # 0
    <3>1. last = rows[n] /\ n \in 1..n BY <1>2, <1>3, <2>2
    <3> QED BY <1>2, <3>1
  <2> QED BY <2>1, <2>2
<1>5. load.throttled \in Nat /\ load.queue \in Nat /\ load.rss \in Nat /\ elapsed \in Nat
      /\ elapsed >= 1
  BY RunMetricsAssumption
<1> HIDE DEF last, n
<1>6. row \in Samples /\ row.t = last.t + elapsed BY <1>4, <1>5 DEF Samples
<1> HIDE DEF row
<1>7. /\ Len(rows') = n + 1 /\ DOMAIN rows' = 1..(n + 1) /\ rows' \in Seq(Samples)
      /\ \A i \in 1..n : rows'[i] = rows[i]
      /\ rows'[n + 1] = row
  BY <1>1, <1>6, AppendProperties, LenProperties DEF n
<1>8. \A i \in 1..n : rows[i].t < row.t
  <2> TAKE i \in 1..n
  <2>1. n # 0 /\ i <= n /\ n \in 1..n BY <1>2
  <2>2. rows[i].t <= rows[n].t /\ rows[i].t \in Nat /\ rows[n].t \in Nat BY <1>2, <2>1
  <2> QED BY <1>4, <1>5, <1>6, <2>1, <2>2
<1>9. \A i, j \in DOMAIN rows' : i < j => rows'[i].t < rows'[j].t
  <2> SUFFICES ASSUME NEW i \in 1..(n + 1), NEW j \in 1..(n + 1), i < j
               PROVE  rows'[i].t < rows'[j].t
    BY <1>7
  <2>1. i \in 1..n BY <1>2
  <2>2. CASE j \in 1..n BY <1>2, <1>7, <2>1, <2>2
  <2>3. CASE j = n + 1 BY <1>7, <1>8, <2>1, <2>3
  <2> QED BY <1>2, <2>2, <2>3
<1>10. RowsInv' BY <1>7, <1>9 DEF RowsInv
<1>11. UNCHANGED emission BY DEF TakeRow
<1>12. EmissionInv' BY <1>11 DEF MetricsInv, EmissionInv
<1> QED BY <1>10, <1>12 DEF MetricsInv

LEMMA MetricsInvHolds == MetricsSpec => []MetricsInv
<1>1. MetricsInit => MetricsInv
  <2> SUFFICES ASSUME MetricsInit PROVE MetricsInv OBVIOUS
  <2>1. emission = <<>> /\ rows = <<>> BY DEF MetricsInit
  <2>2. <<>> \in Seq(Int) /\ <<>> \in Seq(Samples) /\ DOMAIN <<>> = {} /\ Len(<<>>) = 0
    BY EmptySeq
  <2> QED BY <2>1, <2>2, PlanTypes DEF MetricsInv, EmissionInv, RowsInv
<1>2. MetricsInv /\ [MetricsNext]_metricsVars => MetricsInv'
  <2> SUFFICES ASSUME MetricsInv, [MetricsNext]_metricsVars PROVE MetricsInv' OBVIOUS
  <2>1. CASE MetricsNext BY <2>1, EmitKeeps, TakeRowKeeps DEF MetricsNext
  <2>2. CASE UNCHANGED metricsVars
    BY <2>2 DEF metricsVars, MetricsInv, EmissionInv, RowsInv
  <2> QED BY <2>1, <2>2
<1> QED BY <1>1, <1>2, PTL DEF MetricsSpec

(* A report tells the truth about its run (performance_clock.py,            *)
(* scheduling_metrics.py, performance.py): a run within the profile kept    *)
(* time to its end, a percentile is what it says, a window is enclosed with *)
(* all its throttling, steady growth is seen as its slope and a recovery    *)
(* exactly when there was one.                                              *)
THEOREM ReportStaysExact ==
  MetricsSpec => [](PassedRunsKeepTime /\ WindowsAreEnclosed /\ GrowthAndRecoveryAreSeen)
<1>1. MetricsInv => PassedRunsKeepTime /\ WindowsAreEnclosed /\ GrowthAndRecoveryAreSeen
  BY TimeIsKept, WindowsHold, RowsAreTrue DEF MetricsInv
<1> QED BY <1>1, MetricsInvHolds, PTL

-----------------------------------------------------------------------------
(* The record of MIDI output.  A decoder that is fed a stream in pieces     *)
(* decodes what it decodes of the whole (FedAlike), and each message it     *)
(* decoded is one that a new decoder reads from the message's own bytes:    *)
(* what it keeps of a message that is not complete is what a new one keeps  *)
(* of these bytes (DecoderInv).  A stream with Cuts is heard as its spans    *)
(* are, one after the other (Heard), which a decoder replaced at each Cut    *)
(* keeps up with.                                                           *)

FeedOne(p, d, byte) == Feed(d, byte)
HearOne(p, d, item) == Overhear(d, item)
NotesOne(p, notes, m) == NotesAfter(notes, m)
Second(q) == q[2]
Greatest(s) == Max(s)
FeedNext(q, i, v) == FeedOne(q[1], v, q[3][i])
HearNext(q, i, v) == HearOne(q[1], v, q[3][i])
NotesNext(q, i, v) == NotesOne(q[1], v, q[3][i])
LogNext(q, i, v) == OfPort(q[1], v, q[3][i])
Feeding  == INSTANCE Folding WITH
              Base <- Second, Pick <- Greatest, Step <- FeedNext, Op <- FeedOne
Hearing  == INSTANCE Folding WITH
              Base <- Second, Pick <- Greatest, Step <- HearNext, Op <- HearOne
Sounding == INSTANCE Folding WITH
              Base <- Second, Pick <- Greatest, Step <- NotesNext, Op <- NotesOne
Logging  == INSTANCE Folding WITH
              Base <- Second, Pick <- Greatest, Step <- LogNext, Op <- OfPort

LEMMA FoldsAll ==
  /\ Feeding!FoldsSequences /\ Hearing!FoldsSequences
  /\ Sounding!FoldsSequences /\ Logging!FoldsSequences
<1>1. Feeding!FoldsSequences
  BY DEF Feeding!FoldsSequences, Second, Greatest, FeedNext, Max, Feeding!Max
<1>2. Sounding!FoldsSequences
  BY DEF Sounding!FoldsSequences, Second, Greatest, NotesNext, Max, Sounding!Max
<1>3. Logging!FoldsSequences
  BY DEF Logging!FoldsSequences, Second, Greatest, LogNext, Max, Logging!Max
<1>4. Hearing!FoldsSequences
  BY DEF Hearing!FoldsSequences, Second, Greatest, HearNext, Max, Hearing!Max
<1> QED BY <1>1, <1>2, <1>3, <1>4

Bytes == 0..255
Messages == Seq(Bytes)
Decoders == [status : Bytes, pending : Seq(Bytes), sysex : Seq(Bytes),
             messages : Seq(Messages), raised : BOOLEAN]

\* A decoder that has decoded nothing yet.
Half(status, pending, sysex) ==
  [status |-> status, pending |-> pending, sysex |-> sysex, messages |-> <<>>, raised |-> FALSE]

Fed(d, data) == FoldLeft(Feed, d, data)
StandsAlone(m) == Fed(NewDecoder, m).messages = <<m>>

\* The statuses that data bytes may follow.
StatusBytes == 128..239 \cup 241..243

DecoderInv(d) ==
  /\ d \in Decoders
  /\ d.status # 0 =>
       /\ d.status \in StatusBytes
       /\ Fed(NewDecoder, <<d.status>> \o d.pending) = Half(d.status, d.pending, <<>>)
  /\ d.sysex # <<>> => Fed(NewDecoder, d.sysex) = Half(0, <<>>, d.sysex)
  /\ \A i \in 1..Len(d.messages) : StandsAlone(d.messages[i])

LEMMA FedIsFold == ASSUME NEW d, NEW data PROVE Fed(d, data) = Feeding!Fold(0, d, data)
BY DEF Fed, FeedOne, FoldLeft, MapThenFoldSet, Max,
       Feeding!Fold, Feeding!FoldLeft, Feeding!MapThenFoldSet, Feeding!Max

LEMMA FedEmpty == ASSUME NEW d PROVE Fed(d, <<>>) = d
BY FedIsFold, FoldsAll, Feeding!FoldEmpty

LEMMA FedAppend ==
  ASSUME NEW d, NEW data \in Seq(Bytes), NEW byte \in Bytes
  PROVE  Fed(d, Append(data, byte)) = Feed(Fed(d, data), byte)
BY FedIsFold, FoldsAll, Feeding!FoldAppend DEF FeedOne

LEMMA FedConcat ==
  ASSUME NEW d, NEW data \in Seq(Bytes), NEW more \in Seq(Bytes)
  PROVE  Fed(d, data \o more) = Fed(Fed(d, data), more)
BY FedIsFold, FoldsAll, Feeding!FoldConcat

LEMMA FedOne == ASSUME NEW d, NEW byte \in Bytes PROVE Fed(d, <<byte>>) = Feed(d, byte)
<1>1. <<byte>> = Append(<<>>, byte) /\ <<>> \in Seq(Bytes) OBVIOUS
<1>2. Fed(d, Append(<<>>, byte)) = Feed(Fed(d, <<>>), byte) BY <1>1, FedAppend
<1> QED BY <1>1, <1>2, FedEmpty

-----------------------------------------------------------------------------
(* A step of a decoder in a flat form. *)

LEMMA DecoderTypes ==
  ASSUME NEW d \in Decoders
  PROVE  /\ d.status \in Bytes /\ d.pending \in Seq(Bytes) /\ d.sysex \in Seq(Bytes)
         /\ d.messages \in Seq(Messages) /\ d.raised \in BOOLEAN
BY DEF Decoders

LEMMA Empties == <<>> \in Seq(Bytes) /\ 0 \in Bytes /\ <<>> \in Seq(Messages) /\ FALSE \in BOOLEAN
BY DEF Bytes

LEMMA ByteFacts ==
  /\ \A byte \in Bytes : byte \in Int /\ 0 <= byte /\ byte <= 255
  /\ \A byte \in 0..127 : byte \in Bytes /\ byte < 128
  /\ \A byte \in 128..247 : byte >= 128 /\ byte < 248
  /\ \A byte \in StatusBytes : byte \notin {240, 244, 245, 246, 247}
<1>1. \A byte \in Bytes : byte \in Int /\ 0 <= byte /\ byte <= 255 BY DEF Bytes
<1>2. \A byte \in 0..127 : byte \in Bytes /\ byte < 128 BY DEF Bytes
<1>3. \A byte \in 128..247 : byte >= 128 /\ byte < 248 OBVIOUS
<1>4. \A byte \in StatusBytes : byte \notin {240, 244, 245, 246, 247} BY DEF StatusBytes
<1> QED BY <1>1, <1>2, <1>3, <1>4

LEMMA HalfIs ==
  ASSUME NEW s \in Bytes, NEW p \in Seq(Bytes), NEW x \in Seq(Bytes)
  PROVE  /\ Half(s, p, x) \in Decoders
         /\ Half(s, p, x).status = s /\ Half(s, p, x).pending = p
         /\ Half(s, p, x).sysex = x /\ Half(s, p, x).messages = <<>>
         /\ Half(s, p, x).raised = FALSE
<1>1. Half(s, p, x) \in Decoders BY Empties DEF Half, Decoders
<1>2. /\ Half(s, p, x).status = s /\ Half(s, p, x).pending = p
      /\ Half(s, p, x).sysex = x /\ Half(s, p, x).messages = <<>>
      /\ Half(s, p, x).raised = FALSE
  BY DEF Half
<1> QED BY <1>1, <1>2

LEMMA IsHalf ==
  ASSUME NEW d \in Decoders, d.messages = <<>>, d.raised = FALSE
  PROVE  d = Half(d.status, d.pending, d.sysex)
BY DEF Half, Decoders

LEMMA NewIs ==
  /\ NewDecoder \in Decoders /\ NewDecoder.status = 0 /\ NewDecoder.pending = <<>>
  /\ NewDecoder.sysex = <<>> /\ NewDecoder.messages = <<>> /\ NewDecoder.raised = FALSE
BY Empties DEF NewDecoder, Decoders

LEMMA DecodedIs ==
  ASSUME NEW d \in Decoders, NEW m \in Messages
  PROVE  /\ Decoded(d, m) \in Decoders /\ Decoded(d, m).status = d.status
         /\ Decoded(d, m).pending = d.pending /\ Decoded(d, m).sysex = d.sysex
         /\ Decoded(d, m).messages = Append(d.messages, m) /\ Decoded(d, m).raised = d.raised
<1> DEFINE ms == Append(d.messages, m)
<1>1. ms \in Seq(Messages) BY DecoderTypes
<1>2. Decoded(d, m) = [d EXCEPT !.messages = ms] BY DEF Decoded
<1> HIDE DEF ms
<1>3. Decoded(d, m) \in Decoders BY <1>1, <1>2 DEF Decoders
<1>4. /\ Decoded(d, m).status = d.status
      /\ Decoded(d, m).pending = d.pending /\ Decoded(d, m).sysex = d.sysex
      /\ Decoded(d, m).messages = ms /\ Decoded(d, m).raised = d.raised
  BY <1>1, <1>2 DEF Decoders
<1> QED BY <1>3, <1>4 DEF ms

LEMMA RaiseIs ==
  ASSUME NEW d \in Decoders
  PROVE  /\ Raise(d) \in Decoders /\ Raise(d).status = d.status /\ Raise(d).pending = d.pending
         /\ Raise(d).sysex = d.sysex /\ Raise(d).messages = d.messages /\ Raise(d).raised = TRUE
BY DEF Decoders, Raise

LEMMA FeedIs ==
  ASSUME NEW d, NEW byte \in Bytes, d.raised = FALSE
  PROVE  /\ byte >= 248 => Feed(d, byte) = RealTime(d, byte)
         /\ byte < 248 /\ d.sysex # <<>> => Feed(d, byte) = InSysex(d, byte)
         /\ byte >= 128 /\ byte < 248 /\ d.sysex = <<>> => Feed(d, byte) = NewStatus(d, byte)
         /\ byte < 128 /\ d.sysex = <<>> => Feed(d, byte) = DataByte(d, byte)
<1>1. byte \in Int BY DEF Bytes
<1>2. byte < 248 /\ d.sysex # <<>> => Feed(d, byte) = InSysex(d, byte) BY <1>1 DEF Feed
<1>3. byte >= 248 => Feed(d, byte) = RealTime(d, byte) BY <1>1 DEF Feed
<1>4. byte >= 128 /\ byte < 248 /\ d.sysex = <<>> => Feed(d, byte) = NewStatus(d, byte)
  BY <1>1 DEF Feed
<1>5. byte < 128 /\ d.sysex = <<>> => Feed(d, byte) = DataByte(d, byte) BY <1>1 DEF Feed
<1> QED BY <1>2, <1>3, <1>4, <1>5

-----------------------------------------------------------------------------
(* What a decoder keeps of a message is what a new one keeps of its bytes.  *)

LEMMA NewDecoderInv == DecoderInv(NewDecoder)
BY NewIs DEF DecoderInv

\* A decoder that has raised is of no more use, and what it decoded stands.
LEMMA RaiseKeeps == ASSUME NEW d, DecoderInv(d) PROVE DecoderInv(Raise(d))
<1>1. d \in Decoders BY DEF DecoderInv
<1>2. /\ Raise(d) \in Decoders /\ Raise(d).status = d.status /\ Raise(d).pending = d.pending
      /\ Raise(d).sysex = d.sysex /\ Raise(d).messages = d.messages
  BY <1>1, RaiseIs
<1> QED BY <1>2 DEF DecoderInv

\* A message that is complete is added to those decoded.
LEMMA DecodedKeeps ==
  ASSUME NEW d, DecoderInv(d), NEW m \in Messages, StandsAlone(m) PROVE DecoderInv(Decoded(d, m))
<1> DEFINE e == Decoded(d, m)
           ms == Append(d.messages, m)
<1>1. d \in Decoders BY DEF DecoderInv
<1>2. ms \in Seq(Messages) /\ d.messages \in Seq(Messages) BY <1>1, DecoderTypes
<1>4. /\ e \in Decoders /\ e.status = d.status /\ e.pending = d.pending /\ e.sysex = d.sysex
      /\ e.messages = ms
  BY <1>1, DecodedIs
<1> HIDE DEF e
<1>5. ASSUME NEW i \in 1..Len(ms) PROVE StandsAlone(ms[i])
  <2>1. CASE i = Len(d.messages) + 1
    <3>1. ms[i] = m BY <1>2, <2>1
    <3> QED BY <3>1
  <2>2. CASE i # Len(d.messages) + 1
    <3>1. i \in 1..Len(d.messages) /\ ms[i] = d.messages[i] BY <1>2, <2>2
    <3> QED BY <3>1 DEF DecoderInv
  <2> QED BY <2>1, <2>2
<1>6. DecoderInv(e)
  <2> HIDE DEF ms
  <2> QED BY <1>4, <1>5 DEF DecoderInv
<1> QED BY <1>6 DEF e

\* What a decoder of nothing yet has after its first message.
LEMMA FirstDecoded ==
  ASSUME NEW d \in Decoders, d.messages = <<>>, NEW m \in Messages
  PROVE  Decoded(d, m).messages = <<m>>
<1>1. Append(<<>>, m) = <<m>> OBVIOUS
<1> QED BY <1>1, DecodedIs

LEMMA RealTimeKeeps ==
  ASSUME NEW d, DecoderInv(d), NEW byte \in Bytes, byte >= 248 PROVE DecoderInv(RealTime(d, byte))
<1>1. CASE byte \in {249, 253} BY <1>1, RaiseKeeps DEF RealTime
<1>2. CASE byte \notin {249, 253}
  <2>1. <<byte>> \in Messages BY DEF Messages
  <2>2. Fed(NewDecoder, <<byte>>) = Decoded(NewDecoder, <<byte>>)
    <3>1. Feed(NewDecoder, byte) = RealTime(NewDecoder, byte)
      BY NewIs, FeedIs
    <3> QED BY <1>2, <3>1, FedOne DEF RealTime
  <2>3. StandsAlone(<<byte>>) BY <2>1, <2>2, NewIs, FirstDecoded DEF StandsAlone
  <2> QED BY <1>2, <2>1, <2>3, DecodedKeeps DEF RealTime
<1> QED BY <1>1, <1>2

LEMMA InSysexKeeps ==
  ASSUME NEW d, DecoderInv(d), NEW byte \in Bytes, byte < 248, d.sysex # <<>>
  PROVE  DecoderInv(InSysex(d, byte))
<1> DEFINE s == Append(d.sysex, byte)
           alone == Half(0, <<>>, d.sysex)
<1>1. /\ d \in Decoders /\ d.sysex \in Seq(Bytes) /\ s \in Seq(Bytes) /\ s # <<>>
      /\ byte \in Int
  BY DecoderTypes DEF DecoderInv, Bytes
<1>2. /\ alone \in Decoders /\ alone.sysex = d.sysex /\ alone.status = 0
      /\ alone.pending = <<>> /\ alone.messages = <<>> /\ alone.raised = FALSE
  <2>1. alone \in Decoders BY <1>1, HalfIs, Empties
  <2> QED BY <2>1 DEF Half
<1> HIDE DEF s
<1>3. Fed(NewDecoder, s) = InSysex(alone, byte)
  <2>1. Fed(NewDecoder, d.sysex) = alone BY DEF DecoderInv
  <2>2. Feed(alone, byte) = InSysex(alone, byte)
    <3> HIDE DEF alone
    <3> QED BY <1>2, FeedIs
  <2> HIDE DEF alone
  <2> QED BY <1>1, <2>1, <2>2, FedAppend DEF s
<1>4. CASE byte = 247
  <2> DEFINE e == [d EXCEPT !.sysex = <<>>]
             rest == [alone EXCEPT !.sysex = <<>>]
  <2>1. InSysex(d, byte) = Decoded(e, s) /\ InSysex(alone, byte) = Decoded(rest, s)
    <3>1. alone.sysex = d.sysex BY <1>2
    <3> HIDE DEF alone
    <3> QED BY <1>4, <3>1 DEF InSysex, s
  <2>2. rest \in Decoders /\ rest.messages = <<>>
    <3> HIDE DEF alone
    <3> QED BY <1>2, Empties DEF Decoders
  <2>3. /\ e \in Decoders /\ e.status = d.status /\ e.pending = d.pending /\ e.sysex = <<>>
        /\ e.messages = d.messages
    BY <1>1, Empties DEF Decoders
  <2> HIDE DEF e, rest, alone
  <2>4. DecoderInv(e) BY <2>3 DEF DecoderInv
  <2>5. s \in Messages BY <1>1 DEF Messages
  <2>6. StandsAlone(s) BY <1>3, <2>1, <2>2, <2>5, FirstDecoded DEF StandsAlone
  <2> QED BY <2>1, <2>4, <2>5, <2>6, DecodedKeeps
<1>5. CASE byte # 247 /\ byte >= 128
  <2>1. InSysex(d, byte) = Raise(d) BY <1>5 DEF InSysex
  <2> QED BY <2>1, RaiseKeeps
<1>6. CASE byte < 128
  <2> DEFINE e == [d EXCEPT !.sysex = s]
             rest == [alone EXCEPT !.sysex = s]
  <2>1. InSysex(d, byte) = e /\ InSysex(alone, byte) = rest
    <3>1. alone.sysex = d.sysex BY <1>2
    <3> HIDE DEF alone
    <3> QED BY <1>1, <1>6, <3>1 DEF InSysex, s
  <2>2. /\ rest \in Decoders /\ rest.status = 0 /\ rest.pending = <<>> /\ rest.sysex = s
        /\ rest.messages = <<>> /\ rest.raised = FALSE
    <3> HIDE DEF alone
    <3> QED BY <1>1, <1>2 DEF Decoders
  <2>4. /\ e \in Decoders /\ e.status = d.status /\ e.pending = d.pending /\ e.sysex = s
        /\ e.messages = d.messages
    BY <1>1 DEF Decoders
  <2> HIDE DEF e, rest, alone
  <2>3. rest = Half(0, <<>>, s) BY <2>2, IsHalf
  <2>5. DecoderInv(e) BY <1>3, <2>1, <2>3, <2>4 DEF DecoderInv
  <2> QED BY <2>1, <2>5
<1> QED BY <1>1, <1>4, <1>5, <1>6

LEMMA StatusAlone ==
  ASSUME NEW status \in StatusBytes PROVE Fed(NewDecoder, <<status>>) = Half(status, <<>>, <<>>)
<1>1. /\ status \in Bytes /\ status \in Int /\ status >= 128 /\ status < 248
      /\ status \notin {240, 244, 245, 246, 247}
  BY DEF StatusBytes, Bytes
<1>2. /\ NewDecoder \in Decoders /\ NewDecoder.sysex = <<>>
      /\ NewDecoder.pending = <<>> /\ NewDecoder.messages = <<>> /\ NewDecoder.raised = FALSE
  BY NewIs
<1>3. Feed(NewDecoder, status) = NewStatus(NewDecoder, status) BY <1>1, <1>2, FeedIs
<1>4. NewStatus(NewDecoder, status) = [NewDecoder EXCEPT !.status = status]
  BY <1>1, <1>2 DEF NewStatus
<1> DEFINE alone == [NewDecoder EXCEPT !.status = status]
<1>5. /\ alone \in Decoders /\ alone.status = status /\ alone.pending = <<>>
      /\ alone.sysex = <<>> /\ alone.messages = <<>> /\ alone.raised = FALSE
  BY <1>1, <1>2 DEF Decoders
<1>6. Fed(NewDecoder, <<status>>) = Feed(NewDecoder, status) BY <1>1, FedOne
<1>7. Fed(NewDecoder, <<status>>) = alone BY <1>3, <1>4, <1>6
<1> HIDE DEF alone
<1> QED BY <1>5, <1>7, IsHalf

LEMMA NewStatusKeeps ==
  ASSUME NEW d, DecoderInv(d), NEW byte \in 128..247, d.sysex = <<>>
  PROVE  DecoderInv(NewStatus(d, byte))
<1>1. byte \in Bytes /\ byte \in Int /\ d \in Decoders /\ <<byte>> \in Seq(Bytes)
  BY DEF Bytes, DecoderInv
<1>2. /\ NewDecoder \in Decoders /\ NewDecoder.sysex = <<>>
      /\ NewDecoder.status = 0 /\ NewDecoder.pending = <<>> /\ NewDecoder.messages = <<>>
      /\ NewDecoder.raised = FALSE
  BY NewIs
<1>3. Fed(NewDecoder, <<byte>>) = NewStatus(NewDecoder, byte)
  <2>1. byte >= 128 /\ byte < 248 OBVIOUS
  <2>2. Feed(NewDecoder, byte) = NewStatus(NewDecoder, byte) BY <1>1, <1>2, <2>1, FeedIs
  <2> QED BY <1>1, <2>2, FedOne
<1>4. CASE d.pending # <<>> \/ byte \in {244, 245, 247}
  BY <1>4, RaiseKeeps DEF NewStatus
<1>5. CASE d.pending = <<>> /\ byte = 240
  <2> DEFINE e == [d EXCEPT !.status = 0, !.sysex = <<byte>>]
             alone == [NewDecoder EXCEPT !.status = 0, !.sysex = <<byte>>]
  <2>1. NewStatus(d, byte) = e /\ NewStatus(NewDecoder, byte) = alone
    BY <1>2, <1>5 DEF NewStatus
  <2>2. /\ alone \in Decoders /\ alone.status = 0 /\ alone.pending = <<>>
        /\ alone.sysex = <<byte>> /\ alone.messages = <<>> /\ alone.raised = FALSE
    BY <1>1, <1>2, Empties DEF Decoders
  <2>4. e \in Decoders /\ e.status = 0 /\ e.sysex = <<byte>> /\ e.messages = d.messages
    BY <1>1, Empties DEF Decoders
  <2> HIDE DEF e, alone
  <2>3. alone = Half(0, <<>>, <<byte>>) BY <2>2, IsHalf
  <2>5. DecoderInv(e) BY <1>3, <2>1, <2>3, <2>4 DEF DecoderInv
  <2> QED BY <2>1, <2>5
<1>6. CASE d.pending = <<>> /\ byte = 246
  <2> DEFINE e == [d EXCEPT !.status = 0]
             alone == [NewDecoder EXCEPT !.status = 0]
  <2>1. /\ NewStatus(d, byte) = Decoded(e, <<byte>>)
        /\ NewStatus(NewDecoder, byte) = Decoded(alone, <<byte>>)
    BY <1>2, <1>6 DEF NewStatus
  <2>2. alone \in Decoders /\ alone.messages = <<>>
    BY <1>2, Empties DEF Decoders
  <2>3. e \in Decoders /\ e.status = 0 /\ e.sysex = d.sysex /\ e.messages = d.messages
    BY <1>1, Empties DEF Decoders
  <2> HIDE DEF e, alone
  <2>5. DecoderInv(e) BY <2>3 DEF DecoderInv
  <2>6. <<byte>> \in Messages BY <1>1 DEF Messages
  <2>7. StandsAlone(<<byte>>) BY <1>3, <2>1, <2>2, <2>6, FirstDecoded DEF StandsAlone
  <2> QED BY <2>1, <2>5, <2>6, <2>7, DecodedKeeps
<1>7. CASE d.pending = <<>> /\ byte \in StatusBytes
  <2> DEFINE e == [d EXCEPT !.status = byte]
             alone == [NewDecoder EXCEPT !.status = byte]
  <2>0. byte \notin {240, 244, 245, 246, 247} BY <1>7, ByteFacts
  <2>1. NewStatus(d, byte) = e /\ NewStatus(NewDecoder, byte) = alone
    BY <1>2, <1>7, <2>0 DEF NewStatus
  <2>2. /\ alone \in Decoders /\ alone.status = byte /\ alone.pending = <<>>
        /\ alone.sysex = <<>> /\ alone.messages = <<>> /\ alone.raised = FALSE
    BY <1>1, <1>2 DEF Decoders
  <2>4. /\ e \in Decoders /\ e.status = byte /\ e.pending = <<>> /\ e.sysex = <<>>
        /\ e.messages = d.messages
    BY <1>1, <1>7 DEF Decoders
  <2> HIDE DEF e, alone
  <2>3. alone = Half(byte, <<>>, <<>>) BY <2>2, IsHalf
  <2>5. <<byte>> \o <<>> = <<byte>> BY <1>1
  <2>6. DecoderInv(e) BY <1>3, <1>7, <2>1, <2>3, <2>4, <2>5 DEF DecoderInv
  <2> QED BY <2>1, <2>6
<1>8. byte \in {240, 244, 245, 246, 247} \cup StatusBytes BY DEF StatusBytes
<1> QED BY <1>4, <1>5, <1>6, <1>7, <1>8

LEMMA DataByteKeeps ==
  ASSUME NEW d, DecoderInv(d), NEW byte \in 0..127, d.sysex = <<>>
  PROVE  DecoderInv(DataByte(d, byte))
<1> DEFINE pending == Append(d.pending, byte)
           alone == Half(d.status, d.pending, <<>>)
           m == <<d.status>> \o pending
<1>1. /\ byte \in Bytes /\ byte \in Int /\ d \in Decoders /\ d.pending \in Seq(Bytes)
      /\ d.status \in Bytes /\ d.status \in Int
  <2>1. byte \in Bytes /\ byte \in Int BY ByteFacts
  <2>2. d \in Decoders BY DEF DecoderInv
  <2>3. d.pending \in Seq(Bytes) /\ d.status \in Bytes BY <2>2, DecoderTypes
  <2>4. d.status \in Int BY <2>3, ByteFacts
  <2> QED BY <2>1, <2>2, <2>3, <2>4
<1>2. /\ pending \in Seq(Bytes) /\ m \in Messages /\ <<d.status>> \o d.pending \in Seq(Bytes)
      /\ m = Append(<<d.status>> \o d.pending, byte)
  BY <1>1 DEF Messages
<1>3. /\ alone \in Decoders /\ alone.sysex = <<>> /\ alone.status = d.status
      /\ alone.pending = d.pending /\ alone.messages = <<>> /\ alone.raised = FALSE
  <2>1. alone \in Decoders BY <1>1, HalfIs, Empties
  <2> QED BY <2>1 DEF Half
<1>4. CASE d.status = 0
  BY <1>4, RaiseKeeps DEF DataByte
<1>5. ASSUME d.status # 0 PROVE Fed(NewDecoder, m) = DataByte(alone, byte)
  <2>1. Fed(NewDecoder, <<d.status>> \o d.pending) = alone BY <1>5 DEF DecoderInv
  <2>2. Feed(alone, byte) = DataByte(alone, byte)
    <3>1. byte < 128 OBVIOUS
    <3> HIDE DEF alone
    <3> QED BY <1>1, <1>3, <3>1, FeedIs
  <2> HIDE DEF m, alone
  <2> QED BY <1>1, <1>2, <2>1, <2>2, FedAppend
<1>6. CASE d.status # 0 /\ Len(pending) < Needed(d.status)
  <2> DEFINE e == [d EXCEPT !.pending = pending]
             rest == [alone EXCEPT !.pending = pending]
  <2>1. DataByte(d, byte) = e BY <1>6 DEF DataByte
  <2>2. DataByte(alone, byte) = rest
    <3> HIDE DEF alone
    <3> QED BY <1>3, <1>6 DEF DataByte
  <2> HIDE DEF pending
  <2>3. /\ rest \in Decoders /\ rest.status = d.status /\ rest.pending = pending
        /\ rest.sysex = <<>> /\ rest.messages = <<>> /\ rest.raised = FALSE
    <3> HIDE DEF alone
    <3> QED BY <1>2, <1>3 DEF Decoders
  <2>5. /\ e \in Decoders /\ e.status = d.status /\ e.pending = pending /\ e.sysex = <<>>
        /\ e.messages = d.messages
    BY <1>1, <1>2 DEF Decoders
  <2> HIDE DEF e, rest, alone
  <2>4. rest = Half(d.status, pending, <<>>) BY <2>3, IsHalf
  <2>6. DecoderInv(e) BY <1>5, <1>6, <2>2, <2>4, <2>5 DEF DecoderInv
  <2> QED BY <2>1, <2>6
<1>7. CASE d.status # 0 /\ ~(Len(pending) < Needed(d.status))
  <2> DEFINE status == IF d.status < 240 THEN d.status ELSE 0
             e == [d EXCEPT !.pending = <<>>, !.status = status]
             rest == [alone EXCEPT !.pending = <<>>, !.status = status]
  <2>0. status \in Bytes BY <1>1, Empties
  <2>1. DataByte(d, byte) = Decoded(e, m) BY <1>7 DEF DataByte
  <2>2. DataByte(alone, byte) = Decoded(rest, m)
    <3> HIDE DEF alone
    <3> QED BY <1>3, <1>7 DEF DataByte
  <2> HIDE DEF pending, m, status
  <2>4. rest \in Decoders /\ rest.messages = <<>>
    <3> HIDE DEF alone
    <3> QED BY <1>3, <2>0, Empties DEF Decoders
  <2>5. /\ e \in Decoders /\ e.status = status /\ e.pending = <<>> /\ e.sysex = <<>>
        /\ e.messages = d.messages
    BY <1>1, <2>0, Empties DEF Decoders
  <2> HIDE DEF e, rest, alone
  <2>6. StandsAlone(m) BY <1>2, <1>5, <1>7, <2>2, <2>4, FirstDecoded DEF StandsAlone
  <2>7. ASSUME status # 0
        PROVE  status \in StatusBytes /\ Fed(NewDecoder, <<status>> \o <<>>) = Half(status, <<>>, <<>>)
    <3>1. status = d.status /\ status \in StatusBytes BY <1>7, <2>7 DEF status, DecoderInv
    <3>2. <<status>> \o <<>> = <<status>> BY <2>0
    <3>3. Fed(NewDecoder, <<status>>) = Half(status, <<>>, <<>>) BY <3>1, StatusAlone
    <3> QED BY <3>1, <3>2, <3>3
  <2>8. DecoderInv(e) BY <1>7, <2>5, <2>7 DEF DecoderInv
  <2> QED BY <1>2, <2>1, <2>6, <2>8, DecodedKeeps
<1> QED BY <1>4, <1>6, <1>7

LEMMA FeedKeeps == ASSUME NEW d, DecoderInv(d), NEW byte \in Bytes PROVE DecoderInv(Feed(d, byte))
<1>0. byte \in Int /\ 0 <= byte /\ byte <= 255 BY DEF Bytes
<1>1. CASE d.raised = TRUE
  <2>1. Feed(d, byte) = d BY <1>1 DEF Feed
  <2> QED BY <2>1
<1>2. CASE d.raised = FALSE /\ byte >= 248 BY <1>2, FeedIs, RealTimeKeeps
<1>3. CASE d.raised = FALSE /\ byte < 248 /\ d.sysex # <<>> BY <1>3, FeedIs, InSysexKeeps
<1>4. CASE d.raised = FALSE /\ byte >= 128 /\ byte < 248 /\ d.sysex = <<>>
  <2>1. byte \in 128..247 BY <1>0, <1>4
  <2> QED BY <1>4, <2>1, FeedIs, NewStatusKeeps
<1>5. CASE d.raised = FALSE /\ byte < 128 /\ d.sysex = <<>>
  <2>1. byte \in 0..127 BY <1>0, <1>5
  <2> QED BY <1>5, <2>1, FeedIs, DataByteKeeps
<1>6. byte >= 248 \/ (byte < 248 /\ byte >= 128) \/ byte < 128 BY <1>0
<1>7. byte >= 248 \/ byte < 248 BY <1>0
<1>8. d.raised = TRUE \/ d.raised = FALSE BY DecoderTypes DEF DecoderInv
<1> QED BY <1>1, <1>2, <1>3, <1>4, <1>5, <1>6, <1>7, <1>8

LEMMA FedKeeps ==
  ASSUME NEW d, DecoderInv(d), NEW data \in Seq(Bytes) PROVE DecoderInv(Fed(d, data))
<1> DEFINE R == {e \in Decoders : DecoderInv(e)}
<1>1. d \in R BY DEF DecoderInv
<1>2. ASSUME NEW e \in R, NEW byte \in Bytes PROVE FeedOne(0, e, byte) \in R
  <2>1. DecoderInv(Feed(e, byte)) BY FeedKeeps
  <2> QED BY <2>1 DEF DecoderInv, FeedOne
<1>3. Feeding!Fold(0, d, data) \in R
  <2> HIDE DEF R
  <2> QED BY <1>1, <1>2, FoldsAll, Feeding!FoldKeeps
<1> QED BY <1>3, FedIsFold

-----------------------------------------------------------------------------
(* A stream in pieces.  Decoders that differ in what they decoded before    *)
(* decode the same from now on.                                             *)

Alike(d, e, before) ==
  /\ d \in Decoders /\ e \in Decoders /\ before \in Seq(Messages)
  /\ d.status = e.status /\ d.pending = e.pending /\ d.sysex = e.sysex /\ d.raised = e.raised
  /\ d.messages = before \o e.messages

LEMMA DecodedAlike ==
  ASSUME NEW d, NEW e, NEW before, Alike(d, e, before), NEW m \in Messages
  PROVE  Alike(Decoded(d, m), Decoded(e, m), before)
<1>1. d \in Decoders /\ e \in Decoders /\ before \in Seq(Messages) BY DEF Alike
<1>2. e.messages \in Seq(Messages) /\ d.messages = before \o e.messages
  BY <1>1, DecoderTypes DEF Alike
<1>3. Append(before \o e.messages, m) = before \o Append(e.messages, m)
  <2>1. ASSUME NEW s \in Seq(Messages), NEW r \in Seq(Messages)
        PROVE  Append(s \o r, m) = s \o Append(r, m)
    OBVIOUS
  <2>2. e.messages \in Seq(Messages) BY <1>2
  <2> QED BY <1>1, <2>1, <2>2, Zenon
<1>4. Decoded(d, m) \in Decoders /\ Decoded(e, m) \in Decoders BY <1>1, DecodedIs
<1>5. Decoded(d, m).status = d.status /\ Decoded(e, m).status = e.status BY <1>1, DecodedIs
<1>6. Decoded(d, m).pending = d.pending /\ Decoded(e, m).pending = e.pending BY <1>1, DecodedIs
<1>7. Decoded(d, m).sysex = d.sysex /\ Decoded(e, m).sysex = e.sysex BY <1>1, DecodedIs
<1>8. Decoded(d, m).raised = d.raised /\ Decoded(e, m).raised = e.raised BY <1>1, DecodedIs
<1>9. /\ Decoded(d, m).messages = Append(d.messages, m)
      /\ Decoded(e, m).messages = Append(e.messages, m)
  BY <1>1, DecodedIs
<1>10. Decoded(d, m).messages = before \o Decoded(e, m).messages BY <1>2, <1>3, <1>9
<1> QED BY <1>1, <1>4, <1>5, <1>6, <1>7, <1>8, <1>10 DEF Alike

LEMMA RaiseAlike ==
  ASSUME NEW d, NEW e, NEW before, Alike(d, e, before) PROVE Alike(Raise(d), Raise(e), before)
<1>1. d \in Decoders /\ e \in Decoders /\ before \in Seq(Messages) BY DEF Alike
<1>2. /\ Raise(d) \in Decoders /\ Raise(d).status = d.status /\ Raise(d).pending = d.pending
      /\ Raise(d).sysex = d.sysex /\ Raise(d).messages = d.messages /\ Raise(d).raised = TRUE
  BY <1>1, RaiseIs
<1>3. /\ Raise(e) \in Decoders /\ Raise(e).status = e.status /\ Raise(e).pending = e.pending
      /\ Raise(e).sysex = e.sysex /\ Raise(e).messages = e.messages /\ Raise(e).raised = TRUE
  BY <1>1, RaiseIs
<1> QED BY <1>1, <1>2, <1>3 DEF Alike

LEMMA ChangedAlike ==
  ASSUME NEW d, NEW e, NEW before, Alike(d, e, before),
         NEW s \in Bytes, NEW p \in Seq(Bytes), NEW x \in Seq(Bytes)
  PROVE  /\ Alike([d EXCEPT !.status = s], [e EXCEPT !.status = s], before)
         /\ Alike([d EXCEPT !.sysex = x], [e EXCEPT !.sysex = x], before)
         /\ Alike([d EXCEPT !.pending = p], [e EXCEPT !.pending = p], before)
         /\ Alike([d EXCEPT !.status = s, !.sysex = x],
                  [e EXCEPT !.status = s, !.sysex = x], before)
         /\ Alike([d EXCEPT !.pending = p, !.status = s],
                  [e EXCEPT !.pending = p, !.status = s], before)
<1>1. /\ d \in Decoders /\ e \in Decoders /\ before \in Seq(Messages)
      /\ d.status = e.status /\ d.pending = e.pending /\ d.sysex = e.sysex /\ d.raised = e.raised
      /\ d.messages = before \o e.messages
  BY DEF Alike
<1>2. Alike([d EXCEPT !.status = s], [e EXCEPT !.status = s], before)
  <2>1. [d EXCEPT !.status = s] \in Decoders /\ [e EXCEPT !.status = s] \in Decoders
    BY <1>1 DEF Decoders
  <2> QED BY <1>1, <2>1 DEF Alike, Decoders
<1>3. Alike([d EXCEPT !.sysex = x], [e EXCEPT !.sysex = x], before)
  <2>1. [d EXCEPT !.sysex = x] \in Decoders /\ [e EXCEPT !.sysex = x] \in Decoders
    BY <1>1 DEF Decoders
  <2> QED BY <1>1, <2>1 DEF Alike, Decoders
<1>4. Alike([d EXCEPT !.pending = p], [e EXCEPT !.pending = p], before)
  <2>1. [d EXCEPT !.pending = p] \in Decoders /\ [e EXCEPT !.pending = p] \in Decoders
    BY <1>1 DEF Decoders
  <2> QED BY <1>1, <2>1 DEF Alike, Decoders
<1>5. Alike([d EXCEPT !.status = s, !.sysex = x], [e EXCEPT !.status = s, !.sysex = x], before)
  <2>1. /\ [d EXCEPT !.status = s, !.sysex = x] \in Decoders
        /\ [e EXCEPT !.status = s, !.sysex = x] \in Decoders
    BY <1>1 DEF Decoders
  <2> QED BY <1>1, <2>1 DEF Alike, Decoders
<1>6. Alike([d EXCEPT !.pending = p, !.status = s], [e EXCEPT !.pending = p, !.status = s], before)
  <2>1. /\ [d EXCEPT !.pending = p, !.status = s] \in Decoders
        /\ [e EXCEPT !.pending = p, !.status = s] \in Decoders
    BY <1>1 DEF Decoders
  <2> QED BY <1>1, <2>1 DEF Alike, Decoders
<1> QED BY <1>2, <1>3, <1>4, <1>5, <1>6

LEMMA FeedAlike ==
  ASSUME NEW d, NEW e, NEW before, Alike(d, e, before), NEW byte \in Bytes
  PROVE  Alike(Feed(d, byte), Feed(e, byte), before)
<1>1. /\ d \in Decoders /\ e \in Decoders /\ before \in Seq(Messages)
      /\ d.status = e.status /\ d.pending = e.pending /\ d.sysex = e.sysex /\ d.raised = e.raised
  BY DEF Alike
<1>2. /\ d.status \in Bytes /\ d.pending \in Seq(Bytes) /\ d.sysex \in Seq(Bytes)
      /\ d.raised \in BOOLEAN
  BY <1>1, DecoderTypes
<1>3. byte \in Int /\ 0 <= byte /\ byte <= 255 /\ <<byte>> \in Seq(Bytes) /\ <<byte>> \in Messages
  BY ByteFacts DEF Messages
<1>4. CASE d.raised = TRUE
  <2>1. Feed(d, byte) = d /\ Feed(e, byte) = e BY <1>1, <1>4 DEF Feed
  <2> QED BY <2>1
<1>5. CASE d.raised = FALSE /\ byte >= 248
  <2>1. Feed(d, byte) = RealTime(d, byte) /\ Feed(e, byte) = RealTime(e, byte)
    BY <1>1, <1>5, FeedIs
  <2>2. CASE byte \in {249, 253} BY <2>1, <2>2, RaiseAlike DEF RealTime
  <2>3. CASE byte \notin {249, 253} BY <1>3, <2>1, <2>3, DecodedAlike DEF RealTime
  <2> QED BY <2>2, <2>3
<1>6. CASE d.raised = FALSE /\ byte < 248 /\ d.sysex # <<>>
  <2> DEFINE s == Append(d.sysex, byte)
             d1 == [d EXCEPT !.sysex = <<>>]
             e1 == [e EXCEPT !.sysex = <<>>]
             d2 == [d EXCEPT !.sysex = s]
             e2 == [e EXCEPT !.sysex = s]
  <2>1. Feed(d, byte) = InSysex(d, byte) /\ Feed(e, byte) = InSysex(e, byte)
    BY <1>1, <1>6, FeedIs
  <2>2. s \in Seq(Bytes) /\ s \in Messages BY <1>2 DEF Messages
  <2>3. CASE byte = 247
    <3>1. InSysex(d, byte) = Decoded(d1, s) /\ InSysex(e, byte) = Decoded(e1, s)
      BY <1>1, <2>3 DEF InSysex
    <3>2. Alike(d1, e1, before) BY <1>2, Empties, ChangedAlike
    <3> HIDE DEF d1, e1, s
    <3> QED BY <2>1, <2>2, <3>1, <3>2, DecodedAlike
  <2>4. CASE byte # 247 /\ byte >= 128
    <3>1. InSysex(d, byte) = Raise(d) /\ InSysex(e, byte) = Raise(e) BY <2>4 DEF InSysex
    <3> QED BY <2>1, <3>1, RaiseAlike
  <2>5. CASE byte < 128
    <3>1. InSysex(d, byte) = d2 /\ InSysex(e, byte) = e2 BY <1>1, <1>3, <2>5 DEF InSysex
    <3>2. Alike(d2, e2, before)
      <4> HIDE DEF s
      <4> QED BY <1>2, <2>2, ChangedAlike
    <3> QED BY <2>1, <3>1, <3>2
  <2> QED BY <1>3, <2>3, <2>4, <2>5
<1>7. CASE d.raised = FALSE /\ byte >= 128 /\ byte < 248 /\ d.sysex = <<>>
  <2> DEFINE d1 == [d EXCEPT !.status = 0, !.sysex = <<byte>>]
             e1 == [e EXCEPT !.status = 0, !.sysex = <<byte>>]
             d2 == [d EXCEPT !.status = 0]
             e2 == [e EXCEPT !.status = 0]
             d3 == [d EXCEPT !.status = byte]
             e3 == [e EXCEPT !.status = byte]
  <2>1. Feed(d, byte) = NewStatus(d, byte) /\ Feed(e, byte) = NewStatus(e, byte)
    BY <1>1, <1>7, FeedIs
  <2>2. /\ Alike(d1, e1, before) /\ Alike(d2, e2, before) /\ Alike(d3, e3, before)
    BY <1>2, <1>3, Empties, ChangedAlike
  <2>3. CASE d.pending # <<>> \/ byte \in {244, 245, 247}
    <3>1. NewStatus(d, byte) = Raise(d) /\ NewStatus(e, byte) = Raise(e)
      BY <1>1, <2>3 DEF NewStatus
    <3> QED BY <2>1, <3>1, RaiseAlike
  <2>4. CASE ~(d.pending # <<>> \/ byte \in {244, 245, 247}) /\ byte = 240
    <3>1. NewStatus(d, byte) = d1 /\ NewStatus(e, byte) = e1 BY <1>1, <2>4 DEF NewStatus
    <3> QED BY <2>1, <2>2, <3>1
  <2>5. CASE ~(d.pending # <<>> \/ byte \in {244, 245, 247}) /\ byte = 246
    <3>1. NewStatus(d, byte) = Decoded(d2, <<byte>>) /\ NewStatus(e, byte) = Decoded(e2, <<byte>>)
      BY <1>1, <2>5 DEF NewStatus
    <3> HIDE DEF d1, e1, d2, e2, d3, e3
    <3> QED BY <1>3, <2>1, <2>2, <3>1, DecodedAlike
  <2>6. CASE ~(d.pending # <<>> \/ byte \in {244, 245, 247}) /\ byte # 240 /\ byte # 246
    <3>1. NewStatus(d, byte) = d3 /\ NewStatus(e, byte) = e3 BY <1>1, <2>6 DEF NewStatus
    <3> QED BY <2>1, <2>2, <3>1
  <2> QED BY <2>3, <2>4, <2>5, <2>6
<1>8. CASE d.raised = FALSE /\ byte < 128 /\ d.sysex = <<>>
  <2> DEFINE p == Append(d.pending, byte)
             m == <<d.status>> \o p
             status == IF d.status < 240 THEN d.status ELSE 0
             d1 == [d EXCEPT !.pending = p]
             e1 == [e EXCEPT !.pending = p]
             d2 == [d EXCEPT !.pending = <<>>, !.status = status]
             e2 == [e EXCEPT !.pending = <<>>, !.status = status]
  <2>1. Feed(d, byte) = DataByte(d, byte) /\ Feed(e, byte) = DataByte(e, byte)
    BY <1>1, <1>8, FeedIs
  <2>2. p \in Seq(Bytes) /\ m \in Messages BY <1>2 DEF Messages
  <2>3. status \in Bytes BY <1>2, Empties
  <2>4. Alike(d1, e1, before)
    <3> HIDE DEF p
    <3> QED BY <1>2, <2>2, ChangedAlike
  <2>5. Alike(d2, e2, before)
    <3> HIDE DEF status
    <3> QED BY <1>2, <2>3, Empties, ChangedAlike
  <2>6. CASE d.status = 0
    <3>1. DataByte(d, byte) = Raise(d) /\ DataByte(e, byte) = Raise(e)
      BY <1>1, <2>6 DEF DataByte
    <3> QED BY <2>1, <3>1, RaiseAlike
  <2>7. CASE d.status # 0 /\ Len(p) < Needed(d.status)
    <3>1. DataByte(d, byte) = d1 /\ DataByte(e, byte) = e1 BY <1>1, <2>7 DEF DataByte
    <3> QED BY <2>1, <2>4, <3>1
  <2>8. CASE d.status # 0 /\ ~(Len(p) < Needed(d.status))
    <3>1. DataByte(d, byte) = Decoded(d2, m) /\ DataByte(e, byte) = Decoded(e2, m)
      BY <1>1, <2>8 DEF DataByte
    <3> HIDE DEF d1, e1, d2, e2, m
    <3> QED BY <2>1, <2>2, <2>5, <3>1, DecodedAlike
  <2> QED BY <2>6, <2>7, <2>8
<1>9. byte >= 248 \/ (byte < 248 /\ byte >= 128) \/ byte < 128 BY <1>3
<1>10. byte >= 248 \/ byte < 248 BY <1>3
<1> QED BY <1>2, <1>4, <1>5, <1>6, <1>7, <1>8, <1>9, <1>10

LEMMA FedAlike ==
  ASSUME NEW d, NEW e, NEW before, Alike(d, e, before), NEW data \in Seq(Bytes)
  PROVE  Alike(Fed(d, data), Fed(e, data), before)
<1> DEFINE R == {q \in Decoders \X Decoders : Alike(q[1], q[2], before)}
<1>1. \A v, w : <<v, w>> \in R <=> Alike(v, w, before) BY DEF Alike
<1>2. ASSUME NEW v, NEW w, NEW byte \in Bytes, <<v, w>> \in R
      PROVE  <<FeedOne(0, v, byte), FeedOne(0, w, byte)>> \in R
  <2>1. Alike(Feed(v, byte), Feed(w, byte), before) BY <1>1, <1>2, FeedAlike
  <2> QED BY <1>1, <2>1 DEF FeedOne
<1> HIDE DEF R
<1>3. <<Feeding!Fold(0, d, data), Feeding!Fold(0, e, data)>> \in R
  BY <1>1, <1>2, FoldsAll, Feeding!FoldsKeep
<1> QED BY <1>1, <1>3, FedIsFold

-----------------------------------------------------------------------------
(* The notes that sound.  What is outstanding of a note changes by one      *)
(* message at a time as the bag does (OutstandingGrows): the sums over the  *)
(* ends of the messages all change by the same, and one more of them is 0.  *)

Count(messages, note) ==
  [k \in DOMAIN messages |->
     IF IsNoteOn(messages[k]) /\ Note(messages[k]) = note THEN 1
     ELSE IF IsNoteOff(messages[k]) /\ Note(messages[k]) = note THEN -1
     ELSE 0]

Silence(messages, note) ==
  Max({0} \cup {k \in DOMAIN messages : Silences(messages[k], note)})

\* The sums of a note over the messages from a number on.
SumsFrom(messages, note) ==
  {SumOf(Count(messages, note), j..Len(messages)) :
     j \in (Silence(messages, note) + 1)..Len(messages)}

LEMMA OutstandingIs ==
  ASSUME NEW messages, NEW note
  PROVE  Outstanding(messages, note) = Max({0} \cup SumsFrom(messages, note))
BY DEF Outstanding, SumsFrom, Silence, Count, SumOf

\* A finite set of integers has a greatest one.
LEMMA GreatestIs ==
  ASSUME NEW S, IsFiniteSet(S), S # {}, S \subseteq Int
  PROVE  Max(S) \in S /\ \A x \in S : Max(S) >= x
<1> DEFINE P == {s \in SUBSET S : s # {} => \E x \in s : \A y \in s : x >= y}
<1>1. {} \in P OBVIOUS
<1>2. ASSUME NEW s \in SUBSET S, NEW x \in S \ s, s \in P PROVE s \cup {x} \in P
  <2>1. CASE s = {} BY <2>1
  <2>2. CASE s # {}
    <3>1. PICK z \in s : \A y \in s : z >= y BY <1>2, <2>2
    <3>2. x \in Int /\ z \in Int /\ \A y \in s : y \in Int OBVIOUS
    <3>3. CASE x >= z
      <4>1. \A y \in s : x >= y BY <3>1, <3>2, <3>3
      <4> QED BY <3>2, <4>1
    <3>4. CASE ~(x >= z) BY <3>1, <3>2, <3>4
    <3> QED BY <3>3, <3>4
  <2> QED BY <2>1, <2>2
<1>3. S \in P
  <2> HIDE DEF P
  <2> QED BY <1>1, <1>2, FiniteIsListed, Summing!SubsetInduction
<1> QED BY <1>3 DEF Max

LEMMA ImageIsFinite ==
  ASSUME NEW S, IsFiniteSet(S), NEW f, NEW T, \A y \in T : \E x \in S : y = f[x]
  PROVE  IsFiniteSet(T)
<1> DEFINE P == {s \in SUBSET S : IsFiniteSet({f[x] : x \in s})}
<1>1. {} \in P
  <2>1. {f[x] : x \in {}} = {} OBVIOUS
  <2> QED BY <2>1, FS_EmptySet
<1>2. ASSUME NEW s \in SUBSET S, NEW x \in S \ s, s \in P PROVE s \cup {x} \in P
  <2>1. {f[y] : y \in s \cup {x}} = {f[y] : y \in s} \cup {f[x]} OBVIOUS
  <2>2. IsFiniteSet({f[y] : y \in s}) BY <1>2
  <2>3. IsFiniteSet({f[y] : y \in s} \cup {f[x]}) BY <2>2, FS_AddElement
  <2> QED BY <2>1, <2>3
<1>3. S \in P
  <2> HIDE DEF P
  <2> QED BY <1>1, <1>2, FiniteIsListed, Summing!SubsetInduction
<1>4. IsFiniteSet({f[x] : x \in S}) BY <1>3
<1>5. T \in SUBSET {f[x] : x \in S} OBVIOUS
<1> QED BY <1>4, <1>5, FS_Subset

LEMMA SilenceIs ==
  ASSUME NEW n \in Nat, NEW messages \in Seq(Messages), Len(messages) = n, NEW note
  PROVE  /\ Silence(messages, note) \in 0..n
         /\ \A k \in 1..n : Silences(messages[k], note) => k <= Silence(messages, note)
         /\ Silence(messages, note) # 0 =>
              Silences(messages[Silence(messages, note)], note)
<1> DEFINE S == {0} \cup {k \in DOMAIN messages : Silences(messages[k], note)}
<1>1. S \subseteq 0..n /\ S # {} /\ S \subseteq Int OBVIOUS
<1>2. IsFiniteSet(S)
  <2>1. IsFiniteSet(0..n) BY FS_Interval
  <2> HIDE DEF S
  <2> QED BY <1>1, <2>1, FS_Subset
<1>3. Max(S) \in S /\ \A x \in S : Max(S) >= x
  <2> HIDE DEF S
  <2> QED BY <1>1, <1>2, GreatestIs
<1> QED BY <1>1, <1>3 DEF Silence

LEMMA EndsAre ==
  ASSUME NEW n \in Nat, NEW messages \in Seq(Messages), Len(messages) = n, NEW note
  PROVE  /\ \A j \in Nat \ {0} : SumOf(Count(messages, note), j..n) \in Int
         /\ IsFiniteSet(SumsFrom(messages, note)) /\ SumsFrom(messages, note) \subseteq Int
         /\ Outstanding(messages, note) \in Nat
         /\ \A x \in SumsFrom(messages, note) : Outstanding(messages, note) >= x
         /\ Outstanding(messages, note) = 0
              \/ Outstanding(messages, note) \in SumsFrom(messages, note)
<1> DEFINE f == Count(messages, note)
           a == Silence(messages, note) + 1
           sum == [j \in a..n |-> SumOf(f, j..n)]
           T == {0} \cup SumsFrom(messages, note)
<1>1. \A k \in 1..n : f[k] \in Int BY DEF Count
<1>2. a \in 1..(n + 1) /\ a \in Int BY SilenceIs
<1>3. ASSUME NEW j \in Nat \ {0} PROVE SumOf(f, j..n) \in Int
  <2>1. IsFiniteSet(j..n) /\ \A k \in j..n : f[k] \in Int BY <1>1, FS_Interval
  <2> HIDE DEF f
  <2> QED BY <2>1, SumIsInt
<1>4. SumsFrom(messages, note) = {sum[j] : j \in a..n} BY DEF SumsFrom
<1>5. IsFiniteSet(a..n) BY <1>2, FS_Interval
<1>6. IsFiniteSet(SumsFrom(messages, note))
  <2> HIDE DEF sum, a
  <2>1. \A y \in SumsFrom(messages, note) : \E j \in a..n : y = sum[j] BY <1>4
  <2> QED BY <1>5, <2>1, ImageIsFinite
<1>7. SumsFrom(messages, note) \subseteq Int
  <2>1. \A j \in a..n : sum[j] \in Int
    <3>1. \A j \in a..n : j \in Nat \ {0} BY <1>2
    <3> HIDE DEF f, a
    <3> QED BY <1>3, <3>1
  <2> HIDE DEF sum
  <2> QED BY <1>4, <2>1
<1>8. IsFiniteSet(T)
  <2>1. IsFiniteSet({0}) BY FS_Singleton
  <2> QED BY <1>6, <2>1, FS_Union
<1>9. Max(T) \in T /\ \A x \in T : Max(T) >= x
  <2>1. T # {} /\ T \subseteq Int BY <1>7
  <2> HIDE DEF T
  <2> QED BY <1>8, <2>1, GreatestIs
<1>10. Outstanding(messages, note) = Max(T) BY OutstandingIs
<1>11. Max(T) \in Int /\ Max(T) >= 0
  <2>1. T \subseteq Int /\ 0 \in T BY <1>7
  <2> HIDE DEF T
  <2> QED BY <1>9, <2>1
<1>12. \A x \in SumsFrom(messages, note) : Max(T) >= x BY <1>9
<1>13. Max(T) = 0 \/ Max(T) \in SumsFrom(messages, note) BY <1>9
<1>14. \A j \in Nat \ {0} : SumOf(f, j..n) \in Int BY <1>3
<1> HIDE DEF T
<1> QED BY <1>6, <1>7, <1>10, <1>11, <1>12, <1>13, <1>14


\* What a message changes of a note.
NoteChange(m, note) ==
  IF IsNoteOn(m) /\ Note(m) = note THEN 1
  ELSE IF IsNoteOff(m) /\ Note(m) = note THEN -1
  ELSE 0

LEMMA OneMore ==
  ASSUME NEW S, NEW s \in Seq(S), NEW x \in S
  PROVE  /\ Append(s, x) \in Seq(S) /\ Len(s) \in Nat /\ Len(Append(s, x)) = Len(s) + 1
         /\ DOMAIN s = 1..Len(s) /\ DOMAIN Append(s, x) = 1..(Len(s) + 1)
         /\ Append(s, x)[Len(s) + 1] = x
         /\ \A k \in 1..Len(s) : Append(s, x)[k] = s[k]
OBVIOUS

LEMMA CountGrows ==
  ASSUME NEW messages \in Seq(Messages), NEW m \in Messages, NEW note
  PROVE  /\ Count(Append(messages, m), note)[Len(messages) + 1] = NoteChange(m, note)
         /\ \A k \in 1..Len(messages) :
              /\ Count(messages, note)[k] \in Int
              /\ Count(Append(messages, m), note)[k] = Count(messages, note)[k]
<1> DEFINE n == Len(messages)
           more == Append(messages, m)
<1>1. /\ n \in Nat /\ DOMAIN messages = 1..n /\ DOMAIN more = 1..(n + 1) /\ more[n + 1] = m
      /\ \A k \in 1..n : more[k] = messages[k]
  BY OneMore
<1> HIDE DEF n, more
<1>2. n + 1 \in 1..(n + 1) /\ 1..n \subseteq 1..(n + 1) BY <1>1
<1>3. Count(more, note)[n + 1] = NoteChange(m, note) BY <1>1, <1>2 DEF Count, NoteChange
<1>4. ASSUME NEW k \in 1..n
      PROVE  Count(messages, note)[k] \in Int /\ Count(more, note)[k] = Count(messages, note)[k]
  BY <1>1, <1>2 DEF Count
<1> QED BY <1>3, <1>4 DEF n, more

LEMMA EndGrows ==
  ASSUME NEW messages \in Seq(Messages), NEW m \in Messages, NEW note,
         NEW j \in 1..(Len(messages) + 1)
  PROVE  SumOf(Count(Append(messages, m), note), j..(Len(messages) + 1))
           = NoteChange(m, note) + SumOf(Count(messages, note), j..Len(messages))
<1> DEFINE n == Len(messages)
           f == Count(messages, note)
           g == Count(Append(messages, m), note)
<1>1. n \in Nat /\ j \in Nat \ {0} /\ j <= n + 1 BY OneMore
<1>2. g[n + 1] = NoteChange(m, note) /\ \A k \in 1..n : f[k] \in Int /\ g[k] = f[k] BY CountGrows
<1>3. NoteChange(m, note) \in Int BY DEF NoteChange
<1> HIDE DEF n, f, g
<1>4. IsFiniteSet(j..n) BY <1>1, FS_Interval
<1>5. (j..n) \cup {n + 1} = j..(n + 1) /\ n + 1 \notin j..n BY <1>1
<1>6. \A k \in j..n : f[k] \in Int /\ f[k] = g[k] BY <1>1, <1>2
<1>7. \A k \in (j..n) \cup {n + 1} : g[k] \in Int BY <1>2, <1>3, <1>6
<1>8. SumOf(g, (j..n) \cup {n + 1}) = g[n + 1] + SumOf(g, j..n) BY <1>4, <1>5, <1>7, SumAdd
<1>9. SumOf(f, j..n) = SumOf(g, j..n) BY <1>4, <1>6, SumAgrees
<1>10. SumOf(g, j..(n + 1)) = NoteChange(m, note) + SumOf(f, j..n) BY <1>2, <1>5, <1>8, <1>9
<1> QED BY <1>10 DEF n, f, g

LEMMA SilenceGrows ==
  ASSUME NEW messages \in Seq(Messages), NEW m \in Messages, NEW note
  PROVE  /\ Silences(m, note) => Silence(Append(messages, m), note) = Len(messages) + 1
         /\ ~Silences(m, note) => Silence(Append(messages, m), note) = Silence(messages, note)
<1> DEFINE n == Len(messages)
           more == Append(messages, m)
           s == Silence(messages, note)
           t == Silence(more, note)
<1>1. /\ n \in Nat /\ more \in Seq(Messages) /\ Len(more) = n + 1 /\ more[n + 1] = m
      /\ \A k \in 1..n : more[k] = messages[k]
  BY OneMore
<1>2. /\ s \in 0..n /\ \A k \in 1..n : Silences(messages[k], note) => k <= s
      /\ s # 0 => Silences(messages[s], note)
  BY <1>1, SilenceIs
<1>3. /\ t \in 0..(n + 1) /\ \A k \in 1..(n + 1) : Silences(more[k], note) => k <= t
      /\ t # 0 => Silences(more[t], note)
  <2> HIDE DEF more
  <2>1. n + 1 \in Nat BY <1>1
  <2> QED BY <1>1, <2>1, SilenceIs
<1> HIDE DEF n, more, s, t
<1>4. CASE Silences(m, note)
  <2>1. n + 1 <= t BY <1>1, <1>3, <1>4
  <2>2. t = n + 1 BY <1>1, <1>3, <2>1
  <2> QED BY <1>4, <2>2 DEF n, more, s, t
<1>5. CASE ~Silences(m, note)
  <2>1. t # n + 1 BY <1>1, <1>3, <1>5
  <2>2. t # 0 => t <= s BY <1>1, <1>2, <1>3, <2>1
  <2>3. s # 0 => s <= t BY <1>1, <1>2, <1>3
  <2>4. s = t BY <1>1, <1>2, <1>3, <2>2, <2>3
  <2> QED BY <1>5, <2>4 DEF n, more, s, t
<1> QED BY <1>4, <1>5

LEMMA EndsGrow ==
  ASSUME NEW messages \in Seq(Messages), NEW m \in Messages, NEW note
  PROVE  /\ Silences(m, note) => SumsFrom(Append(messages, m), note) = {}
         /\ ~Silences(m, note) =>
              /\ NoteChange(m, note) \in SumsFrom(Append(messages, m), note)
              /\ \A x \in SumsFrom(messages, note) :
                   NoteChange(m, note) + x \in SumsFrom(Append(messages, m), note)
              /\ \A y \in SumsFrom(Append(messages, m), note) :
                   \/ y = NoteChange(m, note)
                   \/ \E x \in SumsFrom(messages, note) : y = NoteChange(m, note) + x
<1> DEFINE n == Len(messages)
           more == Append(messages, m)
           f == Count(messages, note)
           g == Count(more, note)
           s == Silence(messages, note)
           t == Silence(more, note)
           c == NoteChange(m, note)
<1>1. n \in Nat /\ messages \in Seq(Messages) /\ Len(more) = n + 1 BY OneMore
<1>2. \A j \in 1..(n + 1) : SumOf(g, j..(n + 1)) = c + SumOf(f, j..n) BY EndGrows
<1>3. (Silences(m, note) => t = n + 1) /\ (~Silences(m, note) => t = s) BY SilenceGrows
<1>4. s \in 0..n BY <1>1, SilenceIs
<1>5. SumsFrom(messages, note) = {SumOf(f, j..n) : j \in (s + 1)..n} BY DEF SumsFrom
<1>6. SumsFrom(more, note) = {SumOf(g, j..(n + 1)) : j \in (t + 1)..(n + 1)}
  <2>1. SumsFrom(more, note) = {SumOf(g, j..Len(more)) : j \in (t + 1)..Len(more)} BY DEF SumsFrom
  <2> QED BY <1>1, <2>1
<1>7. SumOf(f, (n + 1)..n) = 0
  <2>1. (n + 1)..n = {} BY <1>1
  <2> QED BY <2>1, SumEmpty
<1>8. c \in Int BY DEF NoteChange
<1> HIDE DEF n, more, f, g, s, t, c
<1>9. CASE Silences(m, note)
  <2>1. (t + 1)..(n + 1) = {} BY <1>1, <1>3, <1>9
  <2>2. SumsFrom(more, note) = {} BY <1>6, <2>1
  <2> QED BY <1>9, <2>2 DEF more
<1>10. CASE ~Silences(m, note)
  <2>1. t = s BY <1>3, <1>10
  <2>2. c \in SumsFrom(more, note)
    <3>1. n + 1 \in (t + 1)..(n + 1) /\ n + 1 \in 1..(n + 1) BY <1>1, <1>4, <2>1
    <3>2. SumOf(g, (n + 1)..(n + 1)) = c + SumOf(f, (n + 1)..n) BY <1>2, <3>1
    <3>3. c + SumOf(f, (n + 1)..n) = c BY <1>7, <1>8
    <3> QED BY <1>6, <3>1, <3>2, <3>3
  <2>3. ASSUME NEW x \in SumsFrom(messages, note) PROVE c + x \in SumsFrom(more, note)
    <3>1. PICK j \in (s + 1)..n : x = SumOf(f, j..n) BY <1>5
    <3>2. j \in (t + 1)..(n + 1) /\ j \in 1..(n + 1) BY <1>1, <1>4, <2>1
    <3> QED BY <1>2, <1>6, <3>1, <3>2
  <2>4. ASSUME NEW y \in SumsFrom(more, note)
        PROVE  y = c \/ \E x \in SumsFrom(messages, note) : y = c + x
    <3>1. PICK j \in (t + 1)..(n + 1) : y = SumOf(g, j..(n + 1)) BY <1>6
    <3>2. j \in 1..(n + 1) BY <1>1, <1>4, <2>1
    <3>3. y = c + SumOf(f, j..n) BY <1>2, <3>1, <3>2
    <3>4. CASE j = n + 1 BY <1>7, <1>8, <3>3, <3>4
    <3>5. CASE j # n + 1
      <4>1. j \in (s + 1)..n BY <1>1, <1>4, <2>1, <3>5
      <4>2. SumOf(f, j..n) \in SumsFrom(messages, note) BY <1>5, <4>1
      <4> QED BY <3>3, <4>2
    <3> QED BY <3>4, <3>5
  <2> QED BY <1>10, <2>2, <2>3, <2>4 DEF more, c
<1> QED BY <1>9, <1>10

LEMMA OutstandingGrows ==
  ASSUME NEW messages \in Seq(Messages), NEW m \in Messages, NEW note
  PROVE  /\ Outstanding(messages, note) \in Nat /\ NoteChange(m, note) \in {0, 1, -1}
         /\ Silences(m, note) => Outstanding(Append(messages, m), note) = 0
         /\ ~Silences(m, note) =>
              Outstanding(Append(messages, m), note) =
                IF Outstanding(messages, note) + NoteChange(m, note) > 0
                THEN Outstanding(messages, note) + NoteChange(m, note) ELSE 0
<1> DEFINE n == Len(messages)
           more == Append(messages, m)
           o == Outstanding(messages, note)
           p == Outstanding(more, note)
           E == SumsFrom(messages, note)
           F == SumsFrom(more, note)
           c == NoteChange(m, note)
<1>1. /\ n \in Nat /\ n + 1 \in Nat /\ more \in Seq(Messages) /\ Len(more) = n + 1
  BY OneMore
<1>2. E \subseteq Int /\ o \in Nat /\ (\A x \in E : o >= x) /\ (o = 0 \/ o \in E)
  BY <1>1, EndsAre
<1>3. F \subseteq Int /\ p \in Nat /\ (\A x \in F : p >= x) /\ (p = 0 \/ p \in F)
  <2> HIDE DEF more
  <2> QED BY <1>1, EndsAre
<1>4. /\ Silences(m, note) => F = {}
      /\ ~Silences(m, note) =>
           /\ c \in F
           /\ \A x \in E : c + x \in F
           /\ \A y \in F : y = c \/ \E x \in E : y = c + x
  BY EndsGrow
<1>5. c \in {0, 1, -1} BY DEF NoteChange
<1> HIDE DEF n, more, o, p, E, F, c
<1>6. Silences(m, note) => p = 0 BY <1>3, <1>4
<1>7. ASSUME ~Silences(m, note) PROVE p = IF o + c > 0 THEN o + c ELSE 0
  <2>1. p >= c /\ p >= 0 /\ c \in Int /\ o \in Int /\ p \in Int BY <1>2, <1>3, <1>4, <1>5, <1>7
  <2>2. o \in E => p >= c + o BY <1>3, <1>4, <1>7
  <2>3. p >= o + c BY <1>2, <2>1, <2>2
  <2>4. p # 0 => p <= o + c
    <3>1. p # 0 => p = c \/ \E x \in E : p = c + x BY <1>3, <1>4, <1>7
    <3>2. p = c => p <= o + c BY <1>2, <2>1
    <3>3. \A x \in E : p = c + x => p <= o + c BY <1>2, <2>1
    <3> QED BY <3>1, <3>2, <3>3
  <2> QED BY <2>1, <2>3, <2>4
<1> QED BY <1>2, <1>5, <1>6, <1>7 DEF more, o, p, c

\* The notes that a message of the sequence turns on or off.
NotesIn(messages) ==
  {Note(messages[k]) : k \in {i \in DOMAIN messages :
     IsNoteOn(messages[i]) \/ IsNoteOff(messages[i])}}

NotesOf(messages) ==
  [note \in {n \in NotesIn(messages) : Outstanding(messages, n) > 0} |->
     Outstanding(messages, note)]

LEMMA NothingOutstanding == ASSUME NEW note PROVE Outstanding(<<>>, note) = 0
<1>1. <<>> \in Seq(Messages) /\ Len(<<>>) = 0 OBVIOUS
<1>2. Silence(<<>>, note) \in 0..0 BY <1>1, SilenceIs
<1>3. (Silence(<<>>, note) + 1)..Len(<<>>) = {} BY <1>1, <1>2
<1>4. SumsFrom(<<>>, note) = {} BY <1>3 DEF SumsFrom
<1>5. Outstanding(<<>>, note) = 0 \/ Outstanding(<<>>, note) \in SumsFrom(<<>>, note)
  BY <1>1, EndsAre
<1> QED BY <1>4, <1>5

\* A note that sounds is one that a message turned on.
LEMMA SoundingIsNote ==
  ASSUME NEW messages \in Seq(Messages), NEW note, Outstanding(messages, note) > 0
  PROVE  note \in NotesIn(messages)
<1> DEFINE P == {r \in Seq(Messages) : Outstanding(r, note) > 0 => note \in NotesIn(r)}
<1>1. <<>> \in P
  <2>1. <<>> \in Seq(Messages) /\ Outstanding(<<>>, note) = 0 BY NothingOutstanding
  <2> QED BY <2>1
<1>2. ASSUME NEW r \in Seq(Messages), NEW m \in Messages, r \in P PROVE Append(r, m) \in P
  <2> DEFINE more == Append(r, m)
  <2>1. /\ more \in Seq(Messages) /\ DOMAIN r = 1..Len(r) /\ DOMAIN more = 1..(Len(r) + 1)
        /\ Len(r) \in Nat /\ more[Len(r) + 1] = m /\ \A k \in 1..Len(r) : more[k] = r[k]
    BY OneMore
  <2>2. /\ Outstanding(r, note) \in Nat /\ NoteChange(m, note) \in {0, 1, -1}
        /\ Silences(m, note) => Outstanding(more, note) = 0
        /\ ~Silences(m, note) =>
             Outstanding(more, note) = IF Outstanding(r, note) + NoteChange(m, note) > 0
                                       THEN Outstanding(r, note) + NoteChange(m, note) ELSE 0
    BY OutstandingGrows
  <2> HIDE DEF more
  <2> SUFFICES ASSUME Outstanding(more, note) > 0 PROVE note \in NotesIn(more)
    BY <2>1 DEF more
  <2>3. Outstanding(r, note) > 0 \/ NoteChange(m, note) = 1 BY <2>2
  <2>4. CASE Outstanding(r, note) > 0
    <3>1. note \in NotesIn(r) BY <1>2, <2>4
    <3>2. PICK k \in 1..Len(r) : note = Note(r[k]) /\ (IsNoteOn(r[k]) \/ IsNoteOff(r[k]))
      BY <2>1, <3>1 DEF NotesIn
    <3>3. k \in DOMAIN more /\ more[k] = r[k] BY <2>1
    <3>4. note = Note(more[k]) /\ (IsNoteOn(more[k]) \/ IsNoteOff(more[k])) BY <3>2, <3>3
    <3> QED BY <3>3, <3>4 DEF NotesIn
  <2>5. CASE NoteChange(m, note) = 1
    <3>1. IsNoteOn(m) /\ Note(m) = note BY <2>5 DEF NoteChange
    <3>2. Len(r) + 1 \in DOMAIN more /\ more[Len(r) + 1] = m BY <2>1
    <3> QED BY <3>1, <3>2 DEF NotesIn
  <2> QED BY <2>3, <2>4, <2>5
<1>3. Seq(Messages) \subseteq P
  <2> HIDE DEF P
  <2> QED BY <1>1, <1>2, Feeding!SequenceInduction
<1> QED BY <1>3

LEMMA NotesAre ==
  ASSUME NEW messages \in Seq(Messages)
  PROVE  /\ NotesOf(messages) = [note \in DOMAIN NotesOf(messages) |-> NotesOf(messages)[note]]
         /\ \A note : note \in DOMAIN NotesOf(messages) <=> Outstanding(messages, note) > 0
         /\ \A note \in DOMAIN NotesOf(messages) :
              NotesOf(messages)[note] = Outstanding(messages, note)
<1>1. \A note : note \in DOMAIN NotesOf(messages) <=> Outstanding(messages, note) > 0
  BY SoundingIsNote DEF NotesOf
<1>2. \A note \in DOMAIN NotesOf(messages) :
        NotesOf(messages)[note] = Outstanding(messages, note)
  BY DEF NotesOf
<1>3. NotesOf(messages) = [note \in DOMAIN NotesOf(messages) |-> NotesOf(messages)[note]]
  BY DEF NotesOf
<1> QED BY <1>1, <1>2, <1>3

LEMMA NoNotes == NotesOf(<<>>) = EmptyBag
<1>1. NotesIn(<<>>) = {} BY DEF NotesIn
<1>2. DOMAIN NotesOf(<<>>) = {} BY <1>1 DEF NotesOf
<1> QED BY <1>1 DEF NotesOf, EmptyBag, SetToBag

\* The bag of notes changes with a message as what is outstanding does.
LEMMA NotesGrow ==
  ASSUME NEW messages \in Seq(Messages), NEW m \in Messages
  PROVE  NotesAfter(NotesOf(messages), m) = NotesOf(Append(messages, m))
<1> DEFINE bag == NotesOf(messages)
           more == Append(messages, m)
           next == NotesOf(more)
           after == NotesAfter(bag, m)
           one == SetToBag({Note(m)})
<1>1. more \in Seq(Messages) BY OneMore
<1>2. /\ \A note : note \in DOMAIN bag <=> Outstanding(messages, note) > 0
      /\ \A note \in DOMAIN bag : bag[note] = Outstanding(messages, note)
  BY NotesAre
<1>3. /\ next = [note \in DOMAIN next |-> next[note]]
      /\ \A note : note \in DOMAIN next <=> Outstanding(more, note) > 0
      /\ \A note \in DOMAIN next : next[note] = Outstanding(more, note)
  <2> HIDE DEF more
  <2> QED BY <1>1, NotesAre
<1>4. \A note :
        /\ Outstanding(messages, note) \in Nat
        /\ Silences(m, note) => Outstanding(more, note) = 0
        /\ ~Silences(m, note) =>
             Outstanding(more, note) = IF Outstanding(messages, note) + NoteChange(m, note) > 0
                                       THEN Outstanding(messages, note) + NoteChange(m, note) ELSE 0
  BY OutstandingGrows
<1>5. DOMAIN one = {Note(m)} /\ one[Note(m)] = 1 BY DEF SetToBag
<1>6. IsNoteOn(m) \/ IsNoteOff(m) => \A note : ~Silences(m, note)
  <2>1. m = <<255>> => m[1] = 255 OBVIOUS
  <2>2. IsNoteOn(m) \/ IsNoteOff(m) => m[1] \in 128..159 BY DEF IsNoteOn, IsNoteOff
  <2>3. ASSUME NEW note, Silences(m, note) PROVE m[1] \in 176..255
    <3>1. m[1] = 255 \/ m[1] \in 176..191 BY <2>1, <2>3 DEF Silences
    <3> QED BY <3>1
  <2>4. \A b \in 128..159 : b \notin 176..255 OBVIOUS
  <2>5. ASSUME IsNoteOn(m) \/ IsNoteOff(m), NEW note PROVE ~Silences(m, note)
    <3>1. m[1] \notin 176..255 BY <2>2, <2>4, <2>5
    <3> QED BY <2>3, <3>1, Zenon
  <2> QED BY <2>5, Zenon
<1> HIDE DEF bag, more, next, one
<1>7. /\ after = [note \in DOMAIN after |-> after[note]]
      /\ \A note : note \in DOMAIN after <=> Outstanding(more, note) > 0
      /\ \A note \in DOMAIN after : after[note] = Outstanding(more, note)
  <2>1. CASE IsNoteOn(m)
    <3>1. after = bag (+) one BY <2>1 DEF NotesAfter, one
    <3>2. after = [e \in DOMAIN bag \cup DOMAIN one |->
                     (IF e \in DOMAIN bag THEN bag[e] ELSE 0)
                       + (IF e \in DOMAIN one THEN one[e] ELSE 0)]
      BY <3>1 DEF (+)
    <3> HIDE DEF after
    <3>3. \A note : NoteChange(m, note) = IF note = Note(m) THEN 1 ELSE 0 BY <2>1 DEF NoteChange
    <3>4. \A note : Outstanding(more, note) = IF note = Note(m) THEN Outstanding(messages, note) + 1
                                              ELSE Outstanding(messages, note)
      BY <1>4, <1>6, <2>1, <3>3
    <3>5. DOMAIN after = DOMAIN bag \cup {Note(m)} BY <1>5, <3>2
    <3>6. \A note : note \in DOMAIN after <=> Outstanding(more, note) > 0
      BY <1>2, <1>4, <3>4, <3>5
    <3>7. ASSUME NEW note \in DOMAIN after PROVE after[note] = Outstanding(more, note)
      <4>1. after[note] = (IF note \in DOMAIN bag THEN bag[note] ELSE 0)
                            + (IF note = Note(m) THEN 1 ELSE 0)
        BY <1>5, <3>2, <3>5
      <4>2. (IF note \in DOMAIN bag THEN bag[note] ELSE 0) = Outstanding(messages, note)
        BY <1>2, <1>4
      <4> QED BY <1>4, <3>4, <4>1, <4>2
    <3> QED BY <3>2, <3>6, <3>7
  <2>2. CASE ~IsNoteOn(m) /\ IsNoteOff(m)
    <3>1. after = bag (-) one BY <2>2 DEF NotesAfter, one
    <3> DEFINE rest == [e \in DOMAIN bag |-> IF e \in DOMAIN one THEN bag[e] - one[e] ELSE bag[e]]
    <3>2. after = [e \in {d \in DOMAIN rest : rest[d] > 0} |-> rest[e]]
      BY <3>1 DEF (-)
    <3> HIDE DEF after
    <3>3. \A note : NoteChange(m, note) = IF note = Note(m) THEN -1 ELSE 0 BY <2>2 DEF NoteChange
    <3>4. DOMAIN rest = DOMAIN bag
          /\ \A note \in DOMAIN bag : rest[note] = Outstanding(messages, note) + NoteChange(m, note)
      BY <1>2, <1>4, <1>5, <3>3
    <3> HIDE DEF rest
    <3>5. \A note : Outstanding(more, note) =
                      IF Outstanding(messages, note) + NoteChange(m, note) > 0
                      THEN Outstanding(messages, note) + NoteChange(m, note) ELSE 0
      BY <1>4, <1>6, <2>2
    <3>6. \A note : NoteChange(m, note) \in {-1, 0} BY <3>3
    <3>7. /\ DOMAIN after = {d \in DOMAIN rest : rest[d] > 0}
          /\ \A note \in DOMAIN after : after[note] = rest[note]
      BY <3>2
    <3>8. ASSUME NEW note PROVE note \in DOMAIN after <=> Outstanding(more, note) > 0
      BY <1>2, <1>4, <3>4, <3>5, <3>6, <3>7
    <3>9. ASSUME NEW note \in DOMAIN after PROVE after[note] = Outstanding(more, note)
      BY <1>2, <1>4, <3>4, <3>5, <3>6, <3>7
    <3> QED BY <3>2, <3>8, <3>9
  <2>3. CASE ~IsNoteOn(m) /\ ~IsNoteOff(m)
    <3>1. after = [n \in {k \in DOMAIN bag : ~Silences(m, k)} |-> bag[n]] BY <2>3 DEF NotesAfter
    <3> HIDE DEF after
    <3>2. \A note : NoteChange(m, note) = 0 BY <2>3 DEF NoteChange
    <3>3. \A note : Outstanding(more, note) = IF Silences(m, note) THEN 0
                                              ELSE Outstanding(messages, note)
      BY <1>4, <3>2
    <3>4. \A note : note \in DOMAIN after <=> note \in DOMAIN bag /\ ~Silences(m, note) BY <3>1
    <3>5. \A note \in DOMAIN after : after[note] = bag[note] BY <3>1
    <3>6. ASSUME NEW note PROVE note \in DOMAIN after <=> Outstanding(more, note) > 0
      BY <1>2, <3>3, <3>4
    <3>7. ASSUME NEW note \in DOMAIN after PROVE after[note] = Outstanding(more, note)
      BY <1>2, <3>3, <3>4, <3>5
    <3> QED BY <3>1, <3>6, <3>7
  <2> QED BY <2>1, <2>2, <2>3
<1> HIDE DEF after
<1>8. DOMAIN after = DOMAIN next
  <2>1. \A note : note \in DOMAIN after <=> note \in DOMAIN next BY <1>3, <1>7
  <2> QED BY <2>1
<1>9. \A note \in DOMAIN next : after[note] = next[note] BY <1>3, <1>7, <1>8
<1>10. after = next BY <1>3, <1>7, <1>8, <1>9
<1> QED BY <1>10 DEF after, next, bag, more

LEMMA MessageConcat ==
  ASSUME NEW s \in Seq(Messages), NEW r \in Seq(Messages), NEW m \in Messages
  PROVE  Append(s \o r, m) = s \o Append(r, m)
OBVIOUS

LEMMA MessageAppends ==
  ASSUME NEW s \in Seq(Messages), NEW m \in Messages PROVE s \o <<m>> = Append(s, m)
OBVIOUS

\* What a write adds to the bag is what its messages add one after the other.
LEMMA NotesAddUp ==
  ASSUME NEW messages \in Seq(Messages), NEW new \in Seq(Messages)
  PROVE  FoldLeft(NotesAfter, NotesOf(messages), new) = NotesOf(messages \o new)
<1> DEFINE P == {r \in Seq(Messages) :
                   Sounding!Fold(0, NotesOf(messages), r) = NotesOf(messages \o r)}
<1>1. <<>> \in P
  <2>1. messages \o <<>> = messages /\ <<>> \in Seq(Messages) OBVIOUS
  <2>2. Sounding!Fold(0, NotesOf(messages), <<>>) = NotesOf(messages) BY FoldsAll, Sounding!FoldEmpty
  <2> QED BY <2>1, <2>2
<1>2. ASSUME NEW r \in Seq(Messages), NEW m \in Messages, r \in P PROVE Append(r, m) \in P
  <2>1. Sounding!Fold(0, NotesOf(messages), Append(r, m))
          = NotesAfter(Sounding!Fold(0, NotesOf(messages), r), m)
    BY FoldsAll, Sounding!FoldAppend DEF NotesOne
  <2>2. messages \o r \in Seq(Messages) /\ Append(r, m) \in Seq(Messages) OBVIOUS
  <2>3. Append(messages \o r, m) = messages \o Append(r, m) BY MessageConcat, Zenon
  <2>4. NotesAfter(NotesOf(messages \o r), m) = NotesOf(Append(messages \o r, m))
    BY <2>2, NotesGrow
  <2> QED BY <1>2, <2>1, <2>2, <2>3, <2>4
<1>3. Seq(Messages) \subseteq P
  <2> HIDE DEF P
  <2> QED BY <1>1, <1>2, Feeding!SequenceInduction
<1>4. FoldLeft(NotesAfter, NotesOf(messages), new) = Sounding!Fold(0, NotesOf(messages), new)
  BY DEF FoldLeft, MapThenFoldSet, Max, NotesOne,
         Sounding!Fold, Sounding!FoldLeft, Sounding!MapThenFoldSet, Sounding!Max
<1> QED BY <1>3, <1>4

-----------------------------------------------------------------------------
(* The log.  A write adds to what its port's records say the messages that  *)
(* it completed, and nothing to what those of another port say.             *)

LogRecords == [index : Nat, port : MidiPorts, bytes : Seq(Bytes), decoded : Seq(Messages)]

LogOf(port, log) == FoldLeft(LAMBDA messages, r : OfPort(port, messages, r), <<>>, log)

LEMMA LogIsFold == ASSUME NEW port, NEW log PROVE LogOf(port, log) = Logging!Fold(port, <<>>, log)
BY DEF LogOf, FoldLeft, MapThenFoldSet, Max,
       Logging!Fold, Logging!FoldLeft, Logging!MapThenFoldSet, Logging!Max

\* The records of a write of several messages, numbered from a count on.
Split(count, port, parsed) ==
  [i \in DOMAIN parsed |-> [index |-> count + i, port |-> port, bytes |-> parsed[i],
                            decoded |-> <<parsed[i]>>]]

LEMMA SplitIs ==
  ASSUME NEW count \in Nat, NEW port \in MidiPorts, NEW parsed \in Seq(Messages)
  PROVE  /\ Split(count, port, parsed) \in Seq(LogRecords)
         /\ Len(Split(count, port, parsed)) = Len(parsed)
         /\ \A i \in 1..Len(parsed) :
              Split(count, port, parsed)[i] = [index |-> count + i, port |-> port,
                                               bytes |-> parsed[i], decoded |-> <<parsed[i]>>]
<1> DEFINE n == Len(parsed)
           r(i) == [index |-> count + i, port |-> port, bytes |-> parsed[i],
                    decoded |-> <<parsed[i]>>]
<1>1. n \in Nat /\ DOMAIN parsed = 1..n /\ \A i \in 1..n : parsed[i] \in Messages OBVIOUS
<1>2. ASSUME NEW i \in 1..n PROVE r(i) \in LogRecords
  <2>1. parsed[i] \in Messages BY <1>1
  <2>2. <<parsed[i]>> \in Seq(Messages) BY <2>1
  <2>3. parsed[i] \in Seq(Bytes) /\ count + i \in Nat BY <2>1, <1>1 DEF Messages
  <2> QED BY <2>2, <2>3 DEF LogRecords
<1>3. Split(count, port, parsed) = [i \in 1..n |-> r(i)] BY <1>1 DEF Split
<1> DEFINE f == [i \in 1..n |-> r(i)]
<1>4. f \in [1..n -> LogRecords] /\ \A i \in 1..n : f[i] = r(i)
  <2> HIDE DEF r, n
  <2> QED BY <1>2
<1>5. f \in Seq(LogRecords) /\ Len(f) = n
  <2> HIDE DEF f, n
  <2>1. f \in Seq(LogRecords) BY <1>1, <1>4
  <2>2. Len(f) = n BY <1>1, <1>4
  <2> QED BY <2>1, <2>2
<1> QED BY <1>3, <1>4, <1>5

LEMMA SplitGrows ==
  ASSUME NEW count \in Nat, NEW port \in MidiPorts, NEW parsed \in Seq(Messages),
         NEW m \in Messages
  PROVE  Split(count, port, Append(parsed, m))
           = Append(Split(count, port, parsed),
                    [index |-> count + Len(parsed) + 1, port |-> port, bytes |-> m,
                     decoded |-> <<m>>])
<1> DEFINE n == Len(parsed)
           more == Append(parsed, m)
           r == [index |-> count + n + 1, port |-> port, bytes |-> m, decoded |-> <<m>>]
           s == Split(count, port, parsed)
           t == Split(count, port, more)
<1>1. /\ n \in Nat /\ more \in Seq(Messages) /\ Len(more) = n + 1 /\ more[n + 1] = m
      /\ \A k \in 1..n : more[k] = parsed[k]
  BY OneMore
<1>2. s \in Seq(LogRecords) /\ Len(s) = n
      /\ \A i \in 1..n : s[i] = [index |-> count + i, port |-> port, bytes |-> parsed[i],
                                 decoded |-> <<parsed[i]>>]
  BY SplitIs
<1>3. t \in Seq(LogRecords) /\ Len(t) = n + 1
      /\ \A i \in 1..(n + 1) : t[i] = [index |-> count + i, port |-> port, bytes |-> more[i],
                                       decoded |-> <<more[i]>>]
  <2> HIDE DEF more
  <2> QED BY <1>1, SplitIs
<1> HIDE DEF n, more, s, t
<1>4. t[n + 1] = r
  <2>1. n + 1 \in 1..(n + 1) /\ count + (n + 1) = count + n + 1 BY <1>1
  <2> QED BY <1>1, <1>3, <2>1
<1>5. r \in LogRecords
  <2>1. n + 1 \in 1..(n + 1) BY <1>1
  <2>2. t[n + 1] \in LogRecords BY <1>3, <2>1
  <2> QED BY <1>4, <2>2
<1> HIDE DEF r
<1>6. ASSUME NEW i \in 1..n PROVE t[i] = s[i]
  <2>1. i \in 1..(n + 1) /\ more[i] = parsed[i] BY <1>1
  <2>2. s[i] = [index |-> count + i, port |-> port, bytes |-> parsed[i], decoded |-> <<parsed[i]>>]
    BY <1>2
  <2>3. t[i] = [index |-> count + i, port |-> port, bytes |-> more[i], decoded |-> <<more[i]>>]
    BY <1>3, <2>1
  <2> QED BY <2>1, <2>2, <2>3
<1>7. t = Append(s, r)
  <2>1. /\ Append(s, r) \in Seq(LogRecords) /\ Len(Append(s, r)) = n + 1
        /\ Append(s, r)[n + 1] = r /\ \A i \in 1..n : Append(s, r)[i] = s[i]
    BY <1>1, <1>2, <1>5
  <2>2. \A i \in 1..(n + 1) : t[i] = Append(s, r)[i]
    <3> HIDE DEF r
    <3>1. \A i \in 1..(n + 1) : i \in 1..n \/ i = n + 1 BY <1>1
    <3> QED BY <1>4, <1>6, <2>1, <3>1
  <2> QED BY <1>3, <2>1, <2>2, SeqEqual
<1> QED BY <1>7 DEF n, more, r, s, t

LEMMA SplitSays ==
  ASSUME NEW count \in Nat, NEW port \in MidiPorts, NEW parsed \in Seq(Messages),
         NEW q, NEW before \in Seq(Messages)
  PROVE  Logging!Fold(q, before, Split(count, port, parsed))
           = IF q = port THEN before \o parsed ELSE before
<1> DEFINE Says(r) == IF q = port THEN before \o r ELSE before
           P == {r \in Seq(Messages) :
                   Logging!Fold(q, before, Split(count, port, r)) = Says(r)}
<1>1. <<>> \in P
  <2>1. Split(count, port, <<>>) = <<>> /\ before \o <<>> = before /\ <<>> \in Seq(Messages)
    BY DEF Split
  <2>2. Logging!Fold(q, before, <<>>) = before BY FoldsAll, Logging!FoldEmpty
  <2> QED BY <2>1, <2>2
<1>2. ASSUME NEW r \in Seq(Messages), NEW m \in Messages, r \in P PROVE Append(r, m) \in P
  <2> DEFINE x == [index |-> count + Len(r) + 1, port |-> port, bytes |-> m, decoded |-> <<m>>]
  <2>1. Split(count, port, Append(r, m)) = Append(Split(count, port, r), x) BY SplitGrows
  <2>2. Split(count, port, r) \in Seq(LogRecords) BY SplitIs
  <2>3. x \in LogRecords
    <3>1. count + Len(r) + 1 \in Nat BY OneMore
    <3>2. m \in Seq(Bytes) /\ <<m>> \in Seq(Messages) BY DEF Messages
    <3> QED BY <3>1, <3>2 DEF LogRecords
  <2>4. x.port = port /\ x.decoded = <<m>> OBVIOUS
  <2> HIDE DEF x
  <2>5. Logging!Fold(q, before, Append(Split(count, port, r), x))
          = OfPort(q, Logging!Fold(q, before, Split(count, port, r)), x)
    BY <2>2, <2>3, FoldsAll, Logging!FoldAppend
  <2>6. OfPort(q, Says(r), x) = Says(Append(r, m))
    <3>1. (before \o r) \o <<m>> = Append(before \o r, m)
      <4>1. before \o r \in Seq(Messages) OBVIOUS
      <4> HIDE DEF P
      <4> QED BY <4>1, MessageAppends, Zenon
    <3>2. Append(before \o r, m) = before \o Append(r, m) BY MessageConcat, Zenon
    <3> QED BY <2>4, <3>1, <3>2 DEF OfPort
  <2>7. Append(r, m) \in Seq(Messages) BY OneMore
  <2> QED BY <1>2, <2>1, <2>5, <2>6, <2>7
<1>3. Seq(Messages) \subseteq P
  <2> HIDE DEF P
  <2> QED BY <1>1, <1>2, Feeding!SequenceInduction
<1> QED BY <1>3


\* A record that holds one message whole can be read by itself.
Readable(r) == r.decoded = <<r.bytes>> => StandsAlone(r.bytes)

LEMMA RecordsAre ==
  ASSUME capture.count \in Nat, NEW port \in MidiPorts, NEW data \in Seq(Bytes),
         NEW parsed \in Seq(Messages), \A i \in 1..Len(parsed) : StandsAlone(parsed[i])
  PROVE  /\ Records(port, data, parsed) \in Seq(LogRecords)
         /\ Len(Records(port, data, parsed)) = IF Len(parsed) <= 1 THEN 1 ELSE Len(parsed)
         /\ \A i \in 1..Len(Records(port, data, parsed)) :
              /\ Records(port, data, parsed)[i].index = capture.count + i
              /\ Readable(Records(port, data, parsed)[i])
         /\ \A q : \A before \in Seq(Messages) :
              Logging!Fold(q, before, Records(port, data, parsed))
                = IF q = port THEN before \o parsed ELSE before
<1> DEFINE records == Records(port, data, parsed)
           count == capture.count
<1>0. count \in Nat OBVIOUS
<1>1. CASE Len(parsed) <= 1
  <2> DEFINE r == [index |-> count + 1, port |-> port, bytes |-> data, decoded |-> parsed]
  <2>1. records = <<r>> BY <1>1 DEF Records
  <2>2. r \in LogRecords
    <3>1. count + 1 \in Nat OBVIOUS
    <3> QED BY <3>1 DEF LogRecords
  <2>3. r.index = count + 1 /\ r.port = port /\ r.bytes = data /\ r.decoded = parsed OBVIOUS
  <2>4. Readable(r)
    <3>1. ASSUME parsed = <<data>> PROVE StandsAlone(data)
      <4>1. Len(parsed) = 1 /\ parsed[1] = data BY <3>1
      <4> QED BY <4>1
    <3> QED BY <2>3, <3>1 DEF Readable
  <2> HIDE DEF r
  <2>5. <<r>> \in Seq(LogRecords) /\ Len(<<r>>) = 1 /\ <<r>>[1] = r BY <2>2
  <2>6. ASSUME NEW q, NEW before \in Seq(Messages)
        PROVE  Logging!Fold(q, before, <<r>>) = IF q = port THEN before \o parsed ELSE before
    <3>5. <<>> \in Seq(LogRecords) OBVIOUS
    <3>1. PICK none \in Seq(LogRecords) : none = <<>> BY <3>5, Zenon
    <3>2. Logging!Fold(q, before, Append(none, r)) = OfPort(q, Logging!Fold(q, before, none), r)
      BY <2>2, FoldsAll, Logging!FoldAppend
    <3>3. Logging!Fold(q, before, none) = before BY <3>1, FoldsAll, Logging!FoldEmpty
    <3>4. <<r>> = Append(none, r) BY <3>1
    <3> QED BY <2>3, <3>2, <3>3, <3>4 DEF OfPort
  <2>7. \A i \in 1..1 : <<r>>[i].index = count + i /\ Readable(<<r>>[i])
    <3>1. \A i \in 1..1 : i = 1 OBVIOUS
    <3> QED BY <2>3, <2>4, <2>5, <3>1
  <2> HIDE DEF records
  <2> QED BY <1>1, <2>1, <2>5, <2>6, <2>7 DEF records
<1>2. CASE ~(Len(parsed) <= 1)
  <2>1. records = Split(count, port, parsed) BY <1>2 DEF Records, Split
  <2> HIDE DEF records, count
  <2>2. /\ records \in Seq(LogRecords) /\ Len(records) = Len(parsed)
        /\ \A i \in 1..Len(parsed) :
             records[i] = [index |-> count + i, port |-> port, bytes |-> parsed[i],
                           decoded |-> <<parsed[i]>>]
    BY <1>0, <2>1, SplitIs
  <2>3. \A q : \A before \in Seq(Messages) :
          Logging!Fold(q, before, records) = IF q = port THEN before \o parsed ELSE before
    BY <1>0, <2>1, SplitSays
  <2>4. ASSUME NEW i \in 1..Len(parsed)
        PROVE  records[i].index = count + i /\ Readable(records[i])
    <3> DEFINE x == [index |-> count + i, port |-> port, bytes |-> parsed[i],
                     decoded |-> <<parsed[i]>>]
    <3>3. x.index = count + i /\ x.bytes = parsed[i] OBVIOUS
    <3>4. records[i] = x BY <2>2
    <3> HIDE DEF x
    <3>1. records[i].index = count + i /\ records[i].bytes = parsed[i] BY <3>3, <3>4
    <3>2. StandsAlone(parsed[i]) OBVIOUS
    <3> QED BY <3>1, <3>2 DEF Readable
  <2> QED BY <1>2, <2>2, <2>3, <2>4 DEF records, count
<1> QED BY <1>1, <1>2

\* Two decoders that will read what comes alike.
Same(d, e) ==
  d.status = e.status /\ d.pending = e.pending /\ d.sysex = e.sysex /\ d.raised = e.raised

LEMMA FeedsAsNew == ASSUME NEW data PROVE FeedMessages(NewDecoder, data) = Fed(NewDecoder, data)
<1>1. [NewDecoder EXCEPT !.messages = <<>>] = NewDecoder BY DEF NewDecoder
<1> QED BY <1>1 DEF FeedMessages, Fed

LEMMA PieceDecodes ==
  ASSUME NEW d \in Decoders, NEW e, DecoderInv(e), NEW data \in Seq(Bytes), Same(d, e)
  PROVE  /\ FeedMessages(d, data) \in Decoders
         /\ Same(FeedMessages(d, data), Fed(e, data))
         /\ e.messages \in Seq(Messages)
         /\ FeedMessages(d, data).messages \in Seq(Messages)
         /\ Fed(e, data).messages = e.messages \o FeedMessages(d, data).messages
         /\ \A i \in 1..Len(FeedMessages(d, data).messages) :
              StandsAlone(FeedMessages(d, data).messages[i])
<1> DEFINE rest == [d EXCEPT !.messages = <<>>]
<1>2. e \in Decoders /\ e.messages \in Seq(Messages)
  <2>1. e \in Decoders BY DEF DecoderInv
  <2> QED BY <2>1, DecoderTypes
<1>3. /\ rest \in Decoders /\ rest.status = d.status /\ rest.pending = d.pending
      /\ rest.sysex = d.sysex /\ rest.messages = <<>> /\ rest.raised = d.raised
  BY Empties DEF Decoders
<1>4. FeedMessages(d, data) = Fed(rest, data) BY DEF FeedMessages, Fed
<1> HIDE DEF rest
<1>7. DecoderInv(rest)
  <2>1. \A i \in 1..Len(rest.messages) : StandsAlone(rest.messages[i])
    <3>1. 1..Len(<<>>) = {} OBVIOUS
    <3> QED BY <1>3, <3>1
  <2> QED BY <1>3, <2>1 DEF DecoderInv, Same
<1>8. DecoderInv(Fed(rest, data)) BY <1>7, FedKeeps
<1>9. Alike(e, rest, e.messages)
  <2>1. e.messages \o <<>> = e.messages BY <1>2
  <2> QED BY <1>2, <1>3, <2>1 DEF Alike, Same
<1>10. Alike(Fed(e, data), Fed(rest, data), e.messages) BY <1>9, FedAlike
<1>11. /\ Fed(rest, data) \in Decoders /\ Same(Fed(rest, data), Fed(e, data))
       /\ Fed(e, data).messages = e.messages \o Fed(rest, data).messages
  BY <1>10 DEF Alike, Same
<1>12. Fed(rest, data).messages \in Seq(Messages) BY <1>11, DecoderTypes
<1>13. \A i \in 1..Len(Fed(rest, data).messages) : StandsAlone(Fed(rest, data).messages[i])
  BY <1>8 DEF DecoderInv
<1> QED BY <1>2, <1>4, <1>11, <1>12, <1>13

-----------------------------------------------------------------------------
(* A stream with Cuts. *)

Items == Bytes \cup {Cut}
Anew(d) == [d EXCEPT !.status = 0, !.pending = <<>>, !.sysex = <<>>]

LEMMA AnewIs ==
  ASSUME NEW d \in Decoders
  PROVE  /\ Anew(d) \in Decoders /\ Anew(d).messages = d.messages /\ Anew(d).raised = d.raised
         /\ Anew(d).status = 0 /\ Anew(d).pending = <<>> /\ Anew(d).sysex = <<>>
BY Empties DEF Anew, Decoders

LEMMA HearIs ==
  /\ \A d : \A byte \in Bytes : Overhear(d, byte) = Feed(d, byte)
  /\ \A d : Overhear(d, Cut) = Anew(d)
<1>1. Cut \notin Bytes BY DEF Cut, Bytes
<1> QED BY <1>1 DEF Overhear, Anew

LEMMA HeardIsFold == ASSUME NEW stream PROVE Heard(stream) = Hearing!Fold(0, NewDecoder, stream)
BY DEF Heard, HearOne, FoldLeft, MapThenFoldSet, Max,
       Hearing!Fold, Hearing!FoldLeft, Hearing!MapThenFoldSet, Hearing!Max

LEMMA HeardNothing == Heard(<<>>) = NewDecoder
BY HeardIsFold, FoldsAll, Hearing!FoldEmpty

LEMMA HeardCut ==
  ASSUME NEW stream \in Seq(Items) PROVE Heard(Append(stream, Cut)) = Anew(Heard(stream))
<1>1. Cut \in Items BY DEF Items
<1>2. Heard(Append(stream, Cut)) = HearOne(0, Heard(stream), Cut)
  BY <1>1, HeardIsFold, FoldsAll, Hearing!FoldAppend
<1> QED BY <1>2, HearIs DEF HearOne

\* Between two Cuts a stream is decoded byte by byte.
LEMMA HeardBytes ==
  ASSUME NEW stream \in Seq(Items), NEW data \in Seq(Bytes)
  PROVE  Heard(stream \o data) = Fed(Heard(stream), data)
<1> DEFINE d == Heard(stream)
           P == {r \in Seq(Bytes) : Heard(stream \o r) = Fed(d, r)}
<1>1. <<>> \in P
  <2>1. stream \o <<>> = stream /\ <<>> \in Seq(Bytes) OBVIOUS
  <2> QED BY <2>1, FedEmpty
<1>2. ASSUME NEW r \in Seq(Bytes), NEW x \in Bytes, r \in P PROVE Append(r, x) \in P
  <2>1. x \in Items /\ \A t \in Seq(Bytes) : t \in Seq(Items) BY DEF Items
  <2>2. r \in Seq(Items) /\ Append(r, x) \in Seq(Bytes) BY <2>1
  <2>3. stream \o r \in Seq(Items) /\ stream \o Append(r, x) = Append(stream \o r, x)
    BY <2>1, <2>2
  <2>4. Heard(Append(stream \o r, x)) = HearOne(0, Heard(stream \o r), x)
    <3>1. PICK t \in Seq(Items) : t = stream \o r BY <2>3
    <3>2. Hearing!Fold(0, NewDecoder, Append(t, x)) = HearOne(0, Hearing!Fold(0, NewDecoder, t), x)
      BY <2>1, FoldsAll, Hearing!FoldAppend
    <3> QED BY <3>1, <3>2, HeardIsFold
  <2>5. Heard(Append(stream \o r, x)) = Feed(Fed(d, r), x) BY <1>2, <2>4, HearIs DEF HearOne
  <2>6. Fed(d, Append(r, x)) = Feed(Fed(d, r), x) BY FedAppend
  <2> QED BY <2>2, <2>3, <2>5, <2>6
<1>3. Seq(Bytes) \subseteq P
  <2> HIDE DEF P
  <2> QED BY <1>1, <1>2, Feeding!SequenceInduction
<1> QED BY <1>3

LEMMA AnewKeeps == ASSUME NEW d, DecoderInv(d) PROVE DecoderInv(Anew(d))
<1>1. d \in Decoders BY DEF DecoderInv
<1>2. /\ Anew(d) \in Decoders /\ Anew(d).messages = d.messages
      /\ Anew(d).status = 0 /\ Anew(d).sysex = <<>>
  BY <1>1, AnewIs
<1> QED BY <1>2 DEF DecoderInv

-----------------------------------------------------------------------------
(* The inductive invariant of the capture. *)

OutputInv ==
  /\ capture = [count |-> capture.count, emissions |-> capture.emissions,
                changes |-> capture.changes, failed |-> capture.failed,
                connected |-> capture.connected, notes |-> capture.notes,
                decoders |-> capture.decoders]
  /\ capture.count = Len(midiLog) /\ capture.count <= CaptureLimit
  /\ midiLog \in Seq(LogRecords)
  /\ \A i \in 1..Len(midiLog) : midiLog[i].index = i /\ Readable(midiLog[i])
  /\ emitted \in [MidiPorts -> Seq(Items)]
  /\ capture.decoders \in [MidiPorts -> Decoders]
  /\ capture.notes = [p \in MidiPorts |-> NotesOf(Heard(emitted[p]).messages)]
  /\ \A p \in MidiPorts :
       /\ DecoderInv(Heard(emitted[p])) /\ ~capture.decoders[p].raised
       /\ Same(capture.decoders[p], Heard(emitted[p]))
       /\ LogOf(p, midiLog) = Heard(emitted[p]).messages

LEMMA OutputInvHolds == MidiCaptureInit => OutputInv
<1> SUFFICES ASSUME MidiCaptureInit PROVE OutputInv OBVIOUS
<1>1. /\ midiLog = <<>> /\ emitted = [p \in MidiPorts |-> <<>>]
      /\ capture.count = 0 /\ capture.notes = [p \in MidiPorts |-> EmptyBag]
      /\ capture.decoders = [p \in MidiPorts |-> NewDecoder]
      /\ capture = [count |-> capture.count, emissions |-> capture.emissions,
                    changes |-> capture.changes, failed |-> capture.failed,
                    connected |-> capture.connected, notes |-> capture.notes,
                    decoders |-> capture.decoders]
  BY DEF MidiCaptureInit
<1>2. NewDecoder \in Decoders /\ NewDecoder.messages = <<>> /\ ~NewDecoder.raised BY NewIs
<1>3. \A p \in MidiPorts : emitted[p] = <<>> BY <1>1
<1>4. Heard(<<>>) = NewDecoder BY HeardNothing
<1>5. NotesOf(<<>>) = EmptyBag BY NoNotes
<1>6. \A p \in MidiPorts : LogOf(p, <<>>) = <<>> BY LogIsFold, FoldsAll, Logging!FoldEmpty
<1>7. 0 = Len(midiLog) /\ 0 <= CaptureLimit /\ midiLog \in Seq(LogRecords)
      /\ 1..Len(midiLog) = {}
  BY <1>1, MidiCaptureAssumption
<1>8. emitted \in [MidiPorts -> Seq(Items)]
  <2>1. <<>> \in Seq(Items) OBVIOUS
  <2> QED BY <1>1, <2>1
<1>9. capture.decoders \in [MidiPorts -> Decoders] BY <1>1, <1>2
<1>10. capture.notes = [p \in MidiPorts |-> NotesOf(Heard(emitted[p]).messages)]
  BY <1>1, <1>2, <1>3, <1>4, <1>5
<1>11. ASSUME NEW p \in MidiPorts
       PROVE  /\ DecoderInv(Heard(emitted[p])) /\ ~capture.decoders[p].raised
              /\ Same(capture.decoders[p], Heard(emitted[p]))
              /\ LogOf(p, midiLog) = Heard(emitted[p]).messages
  <2>1. capture.decoders[p] = NewDecoder BY <1>1
  <2>2. Same(NewDecoder, NewDecoder) BY DEF Same
  <2>3. Heard(emitted[p]) = NewDecoder BY <1>3, <1>4
  <2> QED BY <1>1, <1>2, <1>6, <2>1, <2>2, <2>3, NewDecoderInv
<1> QED BY <1>1, <1>7, <1>8, <1>9, <1>10, <1>11 DEF OutputInv

LEMMA AcceptKeeps ==
  ASSUME OutputInv, NEW port \in MidiPorts, NEW data \in Writes, Accept(port, data)
  PROVE  OutputInv'
<1> DEFINE d == FeedMessages(capture.decoders[port], data)
           records == Records(port, data, d.messages)
<1>1. data \in Seq(Bytes) BY MidiCaptureAssumption DEF Bytes
<1>2. /\ capture.decoders[port] \in Decoders /\ emitted[port] \in Seq(Items)
      /\ DecoderInv(Heard(emitted[port])) /\ Same(capture.decoders[port], Heard(emitted[port]))
  BY DEF OutputInv
<1>3. /\ d \in Decoders /\ Same(d, Heard(emitted[port] \o data))
      /\ DecoderInv(Heard(emitted[port] \o data))
      /\ Heard(emitted[port]).messages \in Seq(Messages)
      /\ d.messages \in Seq(Messages)
      /\ Heard(emitted[port] \o data).messages = Heard(emitted[port]).messages \o d.messages
      /\ \A i \in 1..Len(d.messages) : StandsAlone(d.messages[i])
  <2>1. Heard(emitted[port] \o data) = Fed(Heard(emitted[port]), data) BY <1>1, <1>2, HeardBytes
  <2>2. DecoderInv(Fed(Heard(emitted[port]), data)) BY <1>1, <1>2, FedKeeps
  <2> QED BY <1>1, <1>2, <2>1, <2>2, PieceDecodes
<1>4. capture.count \in Nat
  BY LenProperties DEF OutputInv
<1>5. /\ records \in Seq(LogRecords)
      /\ Len(records) = IF Len(d.messages) <= 1 THEN 1 ELSE Len(d.messages)
      /\ \A i \in 1..Len(records) :
           records[i].index = capture.count + i /\ Readable(records[i])
      /\ \A q : \A before \in Seq(Messages) :
           Logging!Fold(q, before, records) = IF q = port THEN before \o d.messages ELSE before
  <2> DEFINE parsed == d.messages
  <2>1. parsed \in Seq(Messages) /\ \A i \in 1..Len(parsed) : StandsAlone(parsed[i]) BY <1>3
  <2> HIDE DEF d, parsed
  <2>2. /\ Records(port, data, parsed) \in Seq(LogRecords)
        /\ Len(Records(port, data, parsed)) = IF Len(parsed) <= 1 THEN 1 ELSE Len(parsed)
        /\ \A i \in 1..Len(Records(port, data, parsed)) :
             /\ Records(port, data, parsed)[i].index = capture.count + i
             /\ Readable(Records(port, data, parsed)[i])
        /\ \A q : \A before \in Seq(Messages) :
             Logging!Fold(q, before, Records(port, data, parsed))
               = IF q = port THEN before \o parsed ELSE before
    BY <1>1, <1>4, <2>1, RecordsAre
  <2> QED BY <2>2 DEF parsed
<1>6. CASE UNCHANGED <<midiLog, emitted>> /\ capture' = [capture EXCEPT !.failed = TRUE]
  <2>1. /\ capture' = [count |-> capture'.count, emissions |-> capture'.emissions,
                       changes |-> capture'.changes, failed |-> capture'.failed,
                       connected |-> capture'.connected, notes |-> capture'.notes,
                       decoders |-> capture'.decoders]
        /\ capture'.count = capture.count /\ capture'.notes = capture.notes
        /\ capture'.decoders = capture.decoders
    BY <1>6 DEF OutputInv
  <2>2. midiLog' = midiLog /\ emitted' = emitted BY <1>6
  <2> QED BY <2>1, <2>2 DEF OutputInv
<1>7. CASE /\ Fits(d.messages) /\ ~d.raised
           /\ capture' = [capture EXCEPT !.count = @ + Len(records), !.emissions = @ + 1,
                                         !.decoders[port] = d,
                                         !.notes[port] = FoldLeft(NotesAfter, @, d.messages)]
           /\ midiLog' = midiLog \o records
           /\ emitted' = [emitted EXCEPT ![port] = @ \o data]
  <2> HIDE DEF d, records
  <2>1. /\ capture' = [count |-> capture'.count, emissions |-> capture'.emissions,
                       changes |-> capture'.changes, failed |-> capture'.failed,
                       connected |-> capture'.connected, notes |-> capture'.notes,
                       decoders |-> capture'.decoders]
        /\ capture'.count = capture.count + Len(records)
        /\ capture'.decoders = [capture.decoders EXCEPT ![port] = d]
        /\ capture'.notes = [capture.notes EXCEPT ![port] =
                               FoldLeft(NotesAfter, capture.notes[port], d.messages)]
    BY <1>7 DEF OutputInv
  <2>2. midiLog \in Seq(LogRecords) /\ Len(midiLog) \in Nat /\ Len(records) \in Nat
        /\ capture.count = Len(midiLog)
    BY <1>5 DEF OutputInv
  <2>3. /\ midiLog' \in Seq(LogRecords) /\ Len(midiLog') = Len(midiLog) + Len(records)
        /\ \A i \in 1..Len(midiLog) : midiLog'[i] = midiLog[i]
        /\ \A i \in 1..Len(records) : midiLog'[Len(midiLog) + i] = records[i]
    <3>1. midiLog' = midiLog \o records BY <1>7
    <3>2. /\ midiLog \o records \in Seq(LogRecords)
          /\ Len(midiLog \o records) = Len(midiLog) + Len(records)
          /\ \A i \in 1..Len(midiLog) : (midiLog \o records)[i] = midiLog[i]
          /\ \A i \in 1..Len(records) : (midiLog \o records)[Len(midiLog) + i] = records[i]
      <4>1. midiLog \in Seq(LogRecords) /\ records \in Seq(LogRecords) BY <1>5, <2>2
      <4>2. ASSUME NEW s \in Seq(LogRecords), NEW r \in Seq(LogRecords)
            PROVE  /\ s \o r \in Seq(LogRecords) /\ Len(s \o r) = Len(s) + Len(r)
                   /\ \A i \in 1..Len(s) : (s \o r)[i] = s[i]
                   /\ \A i \in 1..Len(r) : (s \o r)[Len(s) + i] = r[i]
        OBVIOUS
      <4> QED BY <4>1, <4>2, Zenon
    <3> QED BY <3>1, <3>2, Zenon
  <2>4. capture'.count = Len(midiLog') /\ capture'.count <= CaptureLimit
    <3>1. /\ capture.count < CaptureLimit /\ CaptureLimit \in Nat
          /\ Len(d.messages) > 1 => capture.count + Len(d.messages) <= CaptureLimit
      BY <1>7, MidiCaptureAssumption DEF Fits
    <3>2. Len(d.messages) \in Nat BY <1>3
    <3>3. capture.count + Len(records) <= CaptureLimit BY <1>4, <1>5, <3>1, <3>2
    <3> QED BY <2>1, <2>2, <2>3, <3>3
  <2>5. ASSUME NEW i \in 1..Len(midiLog')
        PROVE  midiLog'[i].index = i /\ Readable(midiLog'[i])
    <3>1. CASE i \in 1..Len(midiLog) BY <2>3, <3>1 DEF OutputInv
    <3>2. CASE i \notin 1..Len(midiLog)
      <4>1. i - Len(midiLog) \in 1..Len(records) /\ Len(midiLog) + (i - Len(midiLog)) = i
        BY <2>2, <2>3, <3>2
      <4>2. midiLog'[i] = records[i - Len(midiLog)] BY <2>3, <4>1
      <4> QED BY <1>5, <2>2, <4>1, <4>2
    <3> QED BY <3>1, <3>2
  <2>6. emitted' \in [MidiPorts -> Seq(Items)]
    <3>2. data \in Seq(Items) BY <1>1 DEF Items
    <3>1. emitted[port] \o data \in Seq(Items) BY <1>2, <3>2
    <3> QED BY <1>7, <3>1 DEF OutputInv
  <2>7. capture'.decoders \in [MidiPorts -> Decoders] BY <1>3, <2>1 DEF OutputInv
  <2>8. /\ emitted'[port] = emitted[port] \o data
        /\ \A p \in MidiPorts : p # port => emitted'[p] = emitted[p]
    BY <1>7 DEF OutputInv
  <2>9. capture'.notes = [p \in MidiPorts |-> NotesOf(Heard(emitted'[p]).messages)]
    <3> DEFINE N(p) == NotesOf(Heard(emitted[p]).messages)
               M(p) == NotesOf(Heard(emitted'[p]).messages)
    <3>1. capture.notes = [p \in MidiPorts |-> N(p)] BY DEF OutputInv
    <3>2. FoldLeft(NotesAfter, N(port), d.messages) = M(port)
      BY <1>3, <2>8, NotesAddUp
    <3>3. \A p \in MidiPorts : p # port => M(p) = N(p) BY <2>8
    <3> HIDE DEF N, M
    <3>4. capture.notes[port] = N(port) BY <3>1
    <3>5. capture'.notes = [p \in MidiPorts |-> M(p)] BY <2>1, <3>1, <3>2, <3>3, <3>4
    <3> QED BY <3>5 DEF M
  <2>10. ASSUME NEW p \in MidiPorts
         PROVE  /\ DecoderInv(Heard(emitted'[p])) /\ ~capture'.decoders[p].raised
                /\ Same(capture'.decoders[p], Heard(emitted'[p]))
                /\ LogOf(p, midiLog') = Heard(emitted'[p]).messages
    <3> DEFINE said == Heard(emitted[p]).messages
    <3>1. /\ DecoderInv(Heard(emitted[p])) /\ ~capture.decoders[p].raised
          /\ Same(capture.decoders[p], Heard(emitted[p]))
          /\ LogOf(p, midiLog) = said
          /\ capture.decoders[p] \in Decoders
      BY DEF OutputInv
    <3>2. said \in Seq(Messages) BY <1>1, <3>1, PieceDecodes
    <3> HIDE DEF said
    <3>3. LogOf(p, midiLog') = IF p = port THEN said \o d.messages ELSE said
      <4>1. Logging!Fold(p, <<>>, midiLog \o records)
              = Logging!Fold(p, Logging!Fold(p, <<>>, midiLog), records)
        BY <1>5, <2>2, FoldsAll, Logging!FoldConcat
      <4>2. Logging!Fold(p, <<>>, midiLog) = said BY <3>1, LogIsFold
      <4> QED BY <1>5, <1>7, <3>2, <4>1, <4>2, LogIsFold
    <3>4. CASE p = port
      <4>1. capture'.decoders[p] = d BY <2>1, <3>4 DEF OutputInv
      <4>2. LogOf(p, midiLog') = Heard(emitted'[p]).messages
        BY <1>3, <2>8, <3>3, <3>4 DEF said
      <4> QED BY <1>3, <1>7, <2>8, <3>4, <4>1, <4>2
    <3>5. CASE p # port
      <4>1. capture'.decoders[p] = capture.decoders[p] BY <2>1, <3>5 DEF OutputInv
      <4> QED BY <2>8, <3>1, <3>3, <3>5, <4>1 DEF said
    <3> QED BY <3>4, <3>5
  <2> QED BY <2>1, <2>3, <2>4, <2>5, <2>6, <2>7, <2>9, <2>10 DEF OutputInv
<1>8. d.raised \/ ~Fits(d.messages)
        => UNCHANGED <<midiLog, emitted>> /\ capture' = [capture EXCEPT !.failed = TRUE]
  BY DEF Accept
<1>9. ~(d.raised \/ ~Fits(d.messages)) =>
        /\ Fits(d.messages) /\ ~d.raised
        /\ capture' = [capture EXCEPT !.count = @ + Len(records), !.emissions = @ + 1,
                                      !.decoders[port] = d,
                                      !.notes[port] = FoldLeft(NotesAfter, @, d.messages)]
        /\ midiLog' = midiLog \o records
        /\ emitted' = [emitted EXCEPT ![port] = @ \o data]
  BY DEF Accept
<1> QED BY <1>6, <1>7, <1>8, <1>9

\* A Cut takes from what is heard what the new decoder does not know.
LEMMA ConnectionChangeKeeps ==
  ASSUME OutputInv, NEW port \in MidiPorts, ConnectionChanges(port) PROVE OutputInv'
<1>1. /\ capture' = [capture EXCEPT !.changes = @ + 1, !.connected = Toggled(port),
                                    !.decoders[port] = NewDecoder]
      /\ emitted' = [emitted EXCEPT ![port] = Append(@, Cut)]
      /\ midiLog' = midiLog
  BY DEF ConnectionChanges, ConnectionReported
<1>2. /\ capture' = [count |-> capture'.count, emissions |-> capture'.emissions,
                     changes |-> capture'.changes, failed |-> capture'.failed,
                     connected |-> capture'.connected, notes |-> capture'.notes,
                     decoders |-> capture'.decoders]
      /\ capture'.count = capture.count /\ capture'.notes = capture.notes
      /\ capture'.decoders = [capture.decoders EXCEPT ![port] = NewDecoder]
  BY <1>1 DEF OutputInv
<1>3. /\ emitted \in [MidiPorts -> Seq(Items)] /\ capture.decoders \in [MidiPorts -> Decoders]
      /\ capture.notes = [p \in MidiPorts |-> NotesOf(Heard(emitted[p]).messages)]
      /\ \A p \in MidiPorts :
           /\ DecoderInv(Heard(emitted[p])) /\ ~capture.decoders[p].raised
           /\ Same(capture.decoders[p], Heard(emitted[p]))
           /\ LogOf(p, midiLog) = Heard(emitted[p]).messages
  BY DEF OutputInv
<1>4. Cut \in Items BY DEF Items
<1>5. emitted' \in [MidiPorts -> Seq(Items)] BY <1>1, <1>3, <1>4
<1>6. capture'.decoders \in [MidiPorts -> Decoders] BY <1>2, <1>3, NewIs
<1>7. /\ emitted'[port] = Append(emitted[port], Cut)
      /\ \A p \in MidiPorts : p # port => emitted'[p] = emitted[p]
  BY <1>1, <1>3
<1> DEFINE d == Heard(emitted[port])
<1>8. Heard(emitted'[port]) = Anew(d) BY <1>3, <1>7, HeardCut
<1>9. DecoderInv(d) /\ ~d.raised BY <1>3 DEF Same
<1>10. d \in Decoders BY <1>9 DEF DecoderInv
<1> HIDE DEF d
<1>11. /\ Anew(d).messages = d.messages /\ Anew(d).raised = FALSE
       /\ Anew(d).status = 0 /\ Anew(d).pending = <<>> /\ Anew(d).sysex = <<>>
  <2>1. d.raised = FALSE BY <1>9, <1>10 DEF Decoders
  <2> QED BY <1>10, <2>1, AnewIs
<1>12. Same(NewDecoder, Anew(d))
  <2> HIDE DEF Anew, NewDecoder
  <2> QED BY <1>11, NewIs DEF Same
<1>13. \A p \in MidiPorts : Heard(emitted'[p]).messages = Heard(emitted[p]).messages
  BY <1>7, <1>8, <1>11 DEF d
<1>14. capture'.notes = [p \in MidiPorts |-> NotesOf(Heard(emitted'[p]).messages)]
  BY <1>2, <1>3, <1>13
<1>15. ASSUME NEW p \in MidiPorts
       PROVE  /\ DecoderInv(Heard(emitted'[p])) /\ ~capture'.decoders[p].raised
              /\ Same(capture'.decoders[p], Heard(emitted'[p]))
              /\ LogOf(p, midiLog') = Heard(emitted'[p]).messages
  <2>1. LogOf(p, midiLog') = Heard(emitted'[p]).messages BY <1>1, <1>3, <1>13
  <2>2. CASE p = port
    <3>1. capture'.decoders[p] = NewDecoder BY <1>2, <1>3, <2>2
    <3>2. DecoderInv(Anew(d)) BY <1>9, AnewKeeps
    <3> QED BY <1>8, <1>12, <2>1, <2>2, <3>1, <3>2, NewIs
  <2>3. CASE p # port
    <3>1. capture'.decoders[p] = capture.decoders[p] BY <1>2, <1>3, <2>3
    <3> QED BY <1>3, <1>7, <2>1, <2>3, <3>1
  <2> QED BY <2>2, <2>3
<1> QED BY <1>1, <1>2, <1>5, <1>6, <1>14, <1>15 DEF OutputInv

LEMMA OutputInvIsExact == OutputInv => CaptureIsExact
<1> SUFFICES ASSUME OutputInv PROVE CaptureIsExact OBVIOUS
<1>1. capture.count = Len(midiLog) /\ capture.count <= CaptureLimit BY DEF OutputInv
<1>2. DOMAIN midiLog = 1..Len(midiLog) BY DEF OutputInv
<1>3. \A data : FeedMessages(NewDecoder, data) = Fed(NewDecoder, data) BY FeedsAsNew
<1>4. \A i \in DOMAIN midiLog : midiLog[i].index = i BY <1>2 DEF OutputInv
<1>5. \A p \in MidiPorts : Logged(p) = Heard(emitted[p]).messages
  <2>1. \A p : Logged(p) = LogOf(p, midiLog) BY DEF Logged, LogOf
  <2> QED BY <2>1 DEF OutputInv
<1>6. \A p \in MidiPorts : capture.notes[p] = NotesOf(Heard(emitted[p]).messages)
  BY DEF OutputInv
<1>7. ASSUME NEW i \in DOMAIN midiLog, midiLog[i].decoded = <<midiLog[i].bytes>>
      PROVE  FeedMessages(NewDecoder, midiLog[i].bytes).messages = midiLog[i].decoded
  <2>1. StandsAlone(midiLog[i].bytes) BY <1>2, <1>7 DEF OutputInv, Readable
  <2> QED BY <1>3, <1>7, <2>1 DEF StandsAlone
<1> QED BY <1>1, <1>4, <1>5, <1>6, <1>7 DEF CaptureIsExact, NotesOf, NotesIn

(* However a script splits its messages over writes and ports, and whenever *)
(* a port goes and comes back, the log has every message of every port once *)
(* and in order and none of bytes from two attachments, and the outstanding *)
(* notes are those that its messages left on (devices/midi, Decoder and     *)
(* Capture; NativeBackend.receive): for any ports, any writes and any       *)
(* limit.                                                                   *)
THEOREM CaptureStaysExact == MidiCaptureSpec => []CaptureIsExact
<1>1. OutputInv /\ [MidiCaptureNext]_midiVars => OutputInv'
  <2> SUFFICES ASSUME OutputInv, [MidiCaptureNext]_midiVars PROVE OutputInv' OBVIOUS
  <2>1. ASSUME NEW port \in MidiPorts, NEW data \in Writes, Accept(port, data) PROVE OutputInv'
    BY <2>1, AcceptKeeps
  <2>2. ASSUME NEW port \in MidiPorts, ConnectionChanges(port) PROVE OutputInv'
    BY <2>2, ConnectionChangeKeeps
  <2>3. CASE UNCHANGED midiVars BY <2>3 DEF midiVars, OutputInv
  <2> QED BY <2>1, <2>2, <2>3 DEF MidiCaptureNext
<1>2. QED BY <1>1, OutputInvHolds, OutputInvIsExact, PTL DEF MidiCaptureSpec
=============================================================================
