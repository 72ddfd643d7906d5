----------------------------- MODULE ClockProofs -----------------------------
(***************************************************************************)
(* Controlled time is exact (ControlledClock), for any tempo, resolution,  *)
(* scripts and advances: an advance that does not give up has called every *)
(* callback of its span at its own time and in order.                      *)
(*                                                                         *)
(* A callback has a number among those of its metro or coroutine, which    *)
(* says its time (CallTime).  What has been queued or called of each of    *)
(* them is exactly what was asked for up to where it stands (Standing).    *)
(***************************************************************************)
EXTENDS ControlledClock, FiniteSetTheorems, FunctionTheorems, SequenceTheorems, TLAPS

-----------------------------------------------------------------------------
(* Arithmetic. *)

LEMMA Quotient ==
  ASSUME NEW a \in Nat, NEW d \in Nat \ {0}
  PROVE  a \div d \in Nat /\ d * (a \div d) <= a /\ a < d * (a \div d) + d
OBVIOUS

LEMMA Ceiling ==
  ASSUME NEW a \in Nat, NEW d \in Nat \ {0}
  PROVE  CeilOf(a, d) \in Nat /\ a <= d * CeilOf(a, d) /\ d * CeilOf(a, d) < a + d
<1> DEFINE b == a + d - 1
<1>1. b \in Nat /\ CeilOf(a, d) = b \div d BY DEF CeilOf
<1> HIDE DEF b
<1>2. b \div d \in Nat /\ d * (b \div d) <= b /\ b < d * (b \div d) + d BY <1>1, Quotient
<1>3. d * (b \div d) \in Nat BY <1>2
<1> QED BY <1>1, <1>2, <1>3 DEF b

LEMMA Factor ==
  ASSUME NEW a \in Int, NEW b \in Int, NEW d \in Nat \ {0}
  PROVE  (d * a < d * b => a < b) /\ (d * a <= d * b => a <= b) /\ (a <= b => d * a <= d * b)
         /\ d * a \in Int /\ d * b \in Int
<1>1. a >= b => d * a >= d * b OBVIOUS
<1>2. a > b => d * a > d * b OBVIOUS
<1>3. d * a \in Int /\ d * b \in Int OBVIOUS
<1> QED BY <1>1, <1>2, <1>3

\* A ceiling is where its number fits, and one that is a denominator further is later.
LEMMA CeilingIs ==
  ASSUME NEW a \in Nat, NEW d \in Nat \ {0}, NEW n \in Nat
  PROVE  (n < CeilOf(a, d) <=> d * n < a) /\ (CeilOf(a, d) <= n <=> a <= d * n)
<1> DEFINE c == CeilOf(a, d)
<1>1. c \in Nat /\ a <= d * c /\ d * c < a + d BY Ceiling
<1> HIDE DEF c
<1>2. ASSUME n < c PROVE d * n < a
  <2>1. d * (n + 1) <= d * c BY <1>1, <1>2, Factor
  <2>2. d * (n + 1) = d * n + d OBVIOUS
  <2>3. d * n \in Nat /\ d * c \in Nat BY <1>1
  <2> QED BY <1>1, <2>1, <2>2, <2>3
<1>3. ASSUME c <= n PROVE a <= d * n
  <2>1. d * c <= d * n BY <1>1, <1>3, Factor
  <2>2. d * n \in Nat /\ d * c \in Nat BY <1>1
  <2> QED BY <1>1, <2>1, <2>2
<1>4. d * n \in Nat OBVIOUS
<1> QED BY <1>1, <1>2, <1>3, <1>4 DEF c

LEMMA CeilingGrows ==
  ASSUME NEW a \in Nat, NEW b \in Nat, NEW d \in Nat \ {0}
  PROVE  (a <= b => CeilOf(a, d) <= CeilOf(b, d)) /\ (a + d <= b => CeilOf(a, d) + 1 <= CeilOf(b, d))
<1>1. /\ CeilOf(a, d) \in Nat /\ a <= d * CeilOf(a, d) /\ d * CeilOf(a, d) < a + d
      /\ CeilOf(b, d) \in Nat /\ b <= d * CeilOf(b, d)
  BY Ceiling
<1>2. a <= b => CeilOf(a, d) <= CeilOf(b, d)
  <2>1. d * CeilOf(b, d) \in Nat BY <1>1
  <2>2. a <= b => a <= d * CeilOf(b, d) BY <1>1, <2>1
  <2> QED BY <1>1, <2>2, CeilingIs
<1>3. a + d <= b => CeilOf(a, d) < CeilOf(b, d)
  <2>1. d * CeilOf(a, d) \in Nat BY <1>1
  <2>2. a + d <= b => d * CeilOf(a, d) < b BY <1>1, <2>1
  <2> QED BY <1>1, <2>2, CeilingIs
<1> QED BY <1>1, <1>2, <1>3

-----------------------------------------------------------------------------
(* The callbacks of a script, numbered. *)

\* What every script is, and what it is when it comes to rest between its callbacks.
Scripted(s) ==
  /\ s.metros \in Seq([period : Nat, count : Nat \cup {Endless}])
  /\ s.threads \in Seq([kind : {"sleep", "sync"}, every : Nat])
  /\ s.inputs \in Seq(Nat)

Timed(s) ==
  /\ s.metros \in Seq([period : Nat \ {0}, count : Nat \cup {Endless}])
  /\ s.threads \in Seq([kind : {"sleep", "sync"}, every : Nat \ {0}])
  /\ s.inputs \in Seq(Nat)
  /\ \A i, j \in DOMAIN s.inputs : i < j => s.inputs[i] <= s.inputs[j]
  /\ s.cancel \in {<<>>} \cup Callbacks(s) \X Callbacks(s)

\* The time of the k-th callback of a metro or a coroutine, and whether there is one.
CallTime(s, e, k) ==
  IF e[1] = "metro" THEN k * s.metros[e[2]].period
  ELSE IF s.threads[e[2]].kind = "sleep" THEN k * s.threads[e[2]].every
  ELSE CeilOf(k * s.threads[e[2]].every * TickNum, TickDen) + 1

Numbered(s, e, k) ==
  e[1] = "metro" => s.metros[e[2]].count = Endless \/ k <= s.metros[e[2]].count

CallTimes(s, e) == {CallTime(s, e, k) : k \in {n \in Nat \ {0} : Numbered(s, e, n)}}

LEMMA Tempo == TickNum \in Nat \ {0} /\ TickDen \in Nat \ {0} /\ TickNum >= TickDen
BY ControlledClockAssumption

LEMMA SequenceIs ==
  ASSUME NEW S, NEW q \in Seq(S)
  PROVE  DOMAIN q = 1..Len(q) /\ Len(q) \in Nat /\ \A i \in DOMAIN q : q[i] \in S
OBVIOUS

LEMMA SequencesGrow ==
  ASSUME NEW A, NEW B, A \subseteq B PROVE \A q \in Seq(A) : q \in Seq(B)
OBVIOUS

LEMMA TimedIsScripted == ASSUME NEW s, Timed(s) PROVE Scripted(s)
<1>1. [period : Nat \ {0}, count : Nat \cup {Endless}] \subseteq [period : Nat, count : Nat \cup {Endless}]
  OBVIOUS
<1>2. [kind : {"sleep", "sync"}, every : Nat \ {0}] \subseteq [kind : {"sleep", "sync"}, every : Nat]
  OBVIOUS
<1>3. s.metros \in Seq([period : Nat, count : Nat \cup {Endless}])
  <2> DEFINE A == [period : Nat \ {0}, count : Nat \cup {Endless}]
             B == [period : Nat, count : Nat \cup {Endless}]
  <2>1. s.metros \in Seq(A) /\ A \subseteq B BY <1>1, Zenon DEF Timed
  <2> HIDE DEF A, B
  <2>2. s.metros \in Seq(B) BY <2>1, SequencesGrow
  <2> QED BY <2>2, Zenon DEF B
<1>4. s.threads \in Seq([kind : {"sleep", "sync"}, every : Nat])
  <2> DEFINE A == [kind : {"sleep", "sync"}, every : Nat \ {0}]
             B == [kind : {"sleep", "sync"}, every : Nat]
  <2>1. s.threads \in Seq(A) /\ A \subseteq B BY <1>2, Zenon DEF Timed
  <2> HIDE DEF A, B
  <2>2. s.threads \in Seq(B) BY <2>1, SequencesGrow
  <2> QED BY <2>2, Zenon DEF B
<1> QED BY <1>3, <1>4, Zenon DEF Timed, Scripted

LEMMA CallbackIs ==
  ASSUME NEW s, Timed(s), NEW e \in Callbacks(s)
  PROVE  /\ e = <<e[1], e[2]>> /\ e[1] \in {"metro", "thread"} /\ e[2] \in Nat \ {0}
         /\ e[1] = "metro" => /\ e[2] \in DOMAIN s.metros
                              /\ s.metros[e[2]].period \in Nat \ {0}
                              /\ s.metros[e[2]].count \in Nat \cup {Endless}
         /\ e[1] = "thread" => /\ e[2] \in DOMAIN s.threads
                               /\ s.threads[e[2]].kind \in {"sleep", "sync"}
                               /\ s.threads[e[2]].every \in Nat \ {0}
<1>1. /\ DOMAIN s.metros = 1..Len(s.metros) /\ DOMAIN s.threads = 1..Len(s.threads)
      /\ \A i \in DOMAIN s.metros : s.metros[i] \in [period : Nat \ {0}, count : Nat \cup {Endless}]
      /\ \A i \in DOMAIN s.threads :
           s.threads[i] \in [kind : {"sleep", "sync"}, every : Nat \ {0}]
  BY SequenceIs, Zenon DEF Timed
<1>2. DOMAIN s.metros \subseteq Nat \ {0} /\ DOMAIN s.threads \subseteq Nat \ {0} BY <1>1
<1>3. CASE \E i \in DOMAIN s.metros : e = <<"metro", i>>
  <2>1. PICK i \in DOMAIN s.metros : e = <<"metro", i>> BY <1>3
  <2>2. e[1] = "metro" /\ e[2] = i BY <2>1
  <2>3. "metro" # "thread" OBVIOUS
  <2>4. s.metros[i].period \in Nat \ {0} /\ s.metros[i].count \in Nat \cup {Endless} BY <1>1
  <2> QED BY <1>2, <2>1, <2>2, <2>3, <2>4
<1>4. CASE \E i \in DOMAIN s.threads : e = <<"thread", i>>
  <2>1. PICK i \in DOMAIN s.threads : e = <<"thread", i>> BY <1>4
  <2>2. e[1] = "thread" /\ e[2] = i BY <2>1
  <2>3. "metro" # "thread" OBVIOUS
  <2>4. s.threads[i].kind \in {"sleep", "sync"} /\ s.threads[i].every \in Nat \ {0} BY <1>1
  <2> QED BY <1>2, <2>1, <2>2, <2>3, <2>4
<1> QED BY <1>3, <1>4 DEF Callbacks

\* The times of a metro or a coroutine are numbers, and each is later than the last.
LEMMA TimesIncrease ==
  ASSUME NEW s, Timed(s), NEW e \in Callbacks(s), NEW j \in Nat, NEW k \in Nat, j < k
  PROVE  CallTime(s, e, k) \in Nat /\ CallTime(s, e, j) < CallTime(s, e, k) /\ k <= CallTime(s, e, k)
<1>1. ASSUME NEW p \in Nat \ {0} PROVE j * p \in Nat /\ k * p \in Nat /\ j * p + p <= k * p /\ k <= k * p
  <2>1. p * (j + 1) <= p * k BY Factor
  <2>2. p * (j + 1) = p * j + p /\ p * j = j * p /\ p * k = k * p OBVIOUS
  <2>3. k * 1 <= k * p BY Factor
  <2> QED BY <2>1, <2>2, <2>3
<1>2. CASE e[1] = "metro"
  <2>1. s.metros[e[2]].period \in Nat \ {0} BY <1>2, CallbackIs
  <2> QED BY <1>1, <1>2, <2>1 DEF CallTime
<1>3. CASE e[1] = "thread"
  <2> DEFINE p == s.threads[e[2]].every
  <2>1. p \in Nat \ {0} /\ s.threads[e[2]].kind \in {"sleep", "sync"} BY <1>3, CallbackIs
  <2>2. j * p \in Nat /\ k * p \in Nat /\ j * p + p <= k * p /\ k <= k * p BY <1>1, <2>1
  <2>3. CASE s.threads[e[2]].kind = "sleep" BY <1>3, <2>1, <2>2, <2>3 DEF CallTime
  <2>4. CASE s.threads[e[2]].kind = "sync"
    <3> DEFINE a == j * p
               b == k * p
    <3>1. a \in Nat /\ b \in Nat /\ a + 1 <= b BY <2>1, <2>2
    <3>2. CallTime(s, e, j) = CeilOf(a * TickNum, TickDen) + 1
          /\ CallTime(s, e, k) = CeilOf(b * TickNum, TickDen) + 1
      BY <1>3, <2>4 DEF CallTime
    <3> HIDE DEF a, b
    <3>3. a * TickNum \in Nat /\ b * TickNum \in Nat /\ a * TickNum + TickNum <= b * TickNum
      <4>1. TickNum * (a + 1) <= TickNum * b BY <3>1, Tempo, Factor
      <4>2. TickNum * (a + 1) = TickNum * a + TickNum BY <3>1, Tempo
      <4>3. TickNum * a = a * TickNum /\ TickNum * b = b * TickNum BY <3>1, Tempo
      <4>4. a * TickNum \in Nat /\ b * TickNum \in Nat BY <3>1, Tempo
      <4> QED BY <4>1, <4>2, <4>3, <4>4
    <3>4. a * TickNum + TickDen <= b * TickNum BY <3>3, Tempo
    <3>5. CeilOf(a * TickNum, TickDen) + 1 <= CeilOf(b * TickNum, TickDen)
          /\ CeilOf(a * TickNum, TickDen) \in Nat /\ CeilOf(b * TickNum, TickDen) \in Nat
      BY <3>3, <3>4, Tempo, CeilingGrows, Ceiling
    <3>6. b <= CeilOf(b * TickNum, TickDen)
      <4>1. b * TickNum <= TickDen * CeilOf(b * TickNum, TickDen) BY <3>3, Tempo, Ceiling
      <4>2. TickDen * b <= TickNum * b
        <5>1. b * TickDen <= b * TickNum
          <6>1. CASE b = 0 BY <6>1, Tempo
          <6>2. CASE b # 0 BY <6>2, <3>1, Tempo, Factor
          <6> QED BY <6>1, <6>2
        <5>2. b * TickDen = TickDen * b /\ b * TickNum = TickNum * b BY <3>1, Tempo
        <5> QED BY <5>1, <5>2
      <4>3. TickDen * b \in Nat /\ TickNum * b \in Nat /\ TickNum * b = b * TickNum
            /\ TickDen * CeilOf(b * TickNum, TickDen) \in Nat
        BY <3>1, <3>5, Tempo
      <4>4. TickDen * b <= TickDen * CeilOf(b * TickNum, TickDen) BY <4>1, <4>2, <4>3
      <4> QED BY <3>1, <3>5, <4>4, Tempo, Factor
    <3>7. k <= b BY <2>2 DEF b
    <3> QED BY <3>1, <3>2, <3>5, <3>6, <3>7
  <2> QED BY <2>1, <2>3, <2>4
<1> QED BY <1>2, <1>3, CallbackIs

\* Nothing is asked for between a callback and the next one, or after the last.
LEMMA NextTime ==
  ASSUME NEW s, Timed(s), NEW e \in Callbacks(s), NEW k \in Nat \ {0}, NEW t \in CallTimes(s, e)
  PROVE  /\ t < CallTime(s, e, k + 1) <=> t <= CallTime(s, e, k)
         /\ ~Numbered(s, e, k) => t < CallTime(s, e, k)
         /\ t \in Nat /\ 0 < t /\ CallTime(s, e, k) \in Nat /\ CallTime(s, e, k) < CallTime(s, e, k + 1)
<1>1. PICK n \in Nat \ {0} : Numbered(s, e, n) /\ t = CallTime(s, e, n) BY DEF CallTimes
<1>2. \A i, j \in Nat : i < j =>
        CallTime(s, e, j) \in Nat /\ CallTime(s, e, i) < CallTime(s, e, j) /\ j <= CallTime(s, e, j)
  BY TimesIncrease
<1>3. CallTime(s, e, k) \in Nat /\ CallTime(s, e, k + 1) \in Nat /\ t \in Nat /\ 0 < t
      /\ CallTime(s, e, k) < CallTime(s, e, k + 1)
  <2>1. 0 < k /\ 0 < n /\ k < k + 1 /\ 0 \in Nat /\ k + 1 \in Nat OBVIOUS
  <2> QED BY <1>1, <1>2, <2>1
<1>4. n < k => t < CallTime(s, e, k) BY <1>1, <1>2
<1>5. n > k + 1 => CallTime(s, e, k + 1) < t BY <1>1, <1>2
<1>6. n < k \/ n = k \/ n = k + 1 \/ n > k + 1 BY <1>1
<1>7. t < CallTime(s, e, k + 1) <=> t <= CallTime(s, e, k)
  <2>1. CASE n < k BY <1>3, <1>4, <2>1
  <2>2. CASE n = k BY <1>1, <1>3, <2>2
  <2>3. CASE n = k + 1 BY <1>1, <1>3, <2>3
  <2>4. CASE n > k + 1 BY <1>3, <1>5, <2>4
  <2> QED BY <1>6, <2>1, <2>2, <2>3, <2>4
<1>8. ~Numbered(s, e, k) => t < CallTime(s, e, k)
  <2>1. CASE e[1] = "metro"
    <3>1. s.metros[e[2]].count \in Nat \cup {Endless} BY <2>1, CallbackIs
    <3>2. ~Numbered(s, e, k) => n < k BY <1>1, <2>1, <3>1 DEF Numbered, Endless
    <3> QED BY <1>4, <3>2
  <2>2. CASE e[1] # "metro" BY <2>2 DEF Numbered
  <2> QED BY <2>1, <2>2
<1> QED BY <1>3, <1>7, <1>8

-----------------------------------------------------------------------------
(* The invariant of a clock w that runs a script s.                         *)

ClockCalls(s) == (({"input"} \X Nat) \cup Callbacks(s)) \X Nat

ClockStates(s) ==
  [now : Nat, target : Nat \cup {AtRest}, work : Nat, failed : BOOLEAN,
   ticks : Nat, last : Nat, nextTick : Nat,
   metros : [DOMAIN s.metros -> [on : BOOLEAN, due : Nat, left : Nat \cup {Endless}]],
   slots : [DOMAIN s.threads -> [alive : BOOLEAN, ready : BOOLEAN, at : Nat]],
   inputs : Seq(Nat), queue : Seq(Callbacks(s)), played : Seq(ClockCalls(s))]

\* When a callback is due next, if its metro is on or its coroutine waits for the clock.
Upcoming(s, w, e) ==
  IF e[1] = "metro" THEN w.metros[e[2]].due
  ELSE IF s.threads[e[2]].kind = "sleep" THEN w.slots[e[2]].at
  ELSE CeilOf(w.slots[e[2]].at * TickNum, TickDen) + 1

Armed(w, e) == IF e[1] = "metro" THEN w.metros[e[2]].on = TRUE ELSE w.slots[e[2]].ready = TRUE
Heeded(w, e) == e[1] = "thread" => w.slots[e[2]].alive = TRUE

Has(q, x) == \E i \in DOMAIN q : q[i] = x
InQueue(w, e) == Has(w.queue, e)
HasPlayed(w, c) == Has(w.played, c)
Came(w, e, t) == HasPlayed(w, <<e, t>>) \/ (t = w.now /\ InQueue(w, e) /\ Heeded(w, e))

\* The callback that cancels another has been called.
Fired(s, w) == s.cancel # <<>> /\ \E i \in DOMAIN w.played : w.played[i][1] = s.cancel[1]
Struck(s, w, e) == Fired(s, w) /\ e = s.cancel[2]

Keeps(s, e, t) ==
  s.cancel # <<>> /\ e = s.cancel[2] =>
    \A u \in CallTimes(s, s.cancel[1]) :
      Precedes(<<s.cancel[1], u>>, <<e, t>>) => e[1] = "metro" /\ t = u

\* A metro or a coroutine is at a number, and what is left of a metro's count fits it.
Counter(s, w, e) ==
  IF e[1] = "metro"
  THEN \E k \in Nat \ {0} :
         /\ w.metros[e[2]].due = k * s.metros[e[2]].period
         /\ IF s.metros[e[2]].count = Endless THEN w.metros[e[2]].left = Endless
            ELSE k <= s.metros[e[2]].count + 1
                 /\ w.metros[e[2]].left = s.metros[e[2]].count + 1 - k
  ELSE \E k \in Nat \ {0} : w.slots[e[2]].at = k * s.threads[e[2]].every

\* Where the callbacks of one source stand: struck by the cancellation, waiting for the
\* clock, or at their end (a metro) or in the queue (a coroutine).
StandsAs(s, w, e, struck) ==
  /\ struck => ~Armed(w, e)
  /\ e[1] = "thread" => (Heeded(w, e) <=> ~struck) /\ (InQueue(w, e) => ~Armed(w, e))
  /\ Armed(w, e) => Counter(s, w, e) /\ w.now <= Upcoming(s, w, e)
  /\ ~struck /\ ~Armed(w, e) =>
       IF e[1] = "metro" THEN \A t \in CallTimes(s, e) : t <= w.now
       ELSE Counter(s, w, e) /\ InQueue(w, e) /\ Upcoming(s, w, e) = w.now
  /\ \A t : Came(w, e, t) <=>
       /\ t \in CallTimes(s, e)
       /\ IF struck THEN Keeps(s, e, t)
          ELSE IF Armed(w, e) THEN t < Upcoming(s, w, e) ELSE t <= w.now

Standing(s, w, e) == StandsAs(s, w, e, Struck(s, w, e))

Ticking(w) ==
  /\ w.nextTick = (w.ticks + 1) * TickNum /\ w.last = CeilOf(w.ticks * TickNum, TickDen)
  /\ w.last <= w.now /\ w.now <= CeilOf(w.nextTick, TickDen)

InputsFed(s, w) ==
  /\ Len(w.inputs) <= Len(s.inputs)
  /\ \A j \in 1..Len(w.inputs) :
       w.inputs[j] = s.inputs[Len(s.inputs) - Len(w.inputs) + j] /\ w.now <= w.inputs[j]
  /\ \A i, t : HasPlayed(w, <<<<"input", i>>, t>>) <=>
       i \in 1..(Len(s.inputs) - Len(w.inputs)) /\ t = s.inputs[i]

InTurn(w) ==
  /\ \A i, j \in DOMAIN w.played : i < j => Precedes(w.played[i], w.played[j])
  /\ \A i \in DOMAIN w.played : w.played[i][2] <= w.now
  /\ \A i \in DOMAIN w.played, j \in DOMAIN w.queue :
       Precedes(w.played[i], <<w.queue[j], w.now>>)
  /\ \A i, j \in DOMAIN w.queue :
       i < j => Precedes(<<w.queue[i], w.now>>, <<w.queue[j], w.now>>)

\* Something of this moment has not been queued yet.
Awaits(s, w) ==
  \/ \E e \in Callbacks(s) : Armed(w, e) /\ Upcoming(s, w, e) <= w.now
  \/ \E j \in 1..Len(w.inputs) : w.inputs[j] <= w.now

Fresh(s, w) ==
  Awaits(s, w) =>
    w.queue = <<>> /\ \A i \in DOMAIN w.played : w.played[i][2] = w.now => w.played[i][1][1] = "input"

Good(s, w) ==
  /\ w \in ClockStates(s)
  /\ Ticking(w) /\ InputsFed(s, w) /\ InTurn(w) /\ Fresh(s, w)
  /\ \A e \in Callbacks(s) : Standing(s, w, e)

Idle(s, w) == w.queue = <<>> /\ ~Awaits(s, w)

Steady(s, w) ==
  /\ Good(s, w)
  /\ w.target # AtRest => w.now <= w.target
  /\ w.target = AtRest /\ w.work > 0 /\ ~w.failed => Idle(s, w)

ClockInv == script \in Scripts /\ (Timed(script) => Steady(script, logical))

-----------------------------------------------------------------------------
(* Numbers in ascending order. *)

IsAscending(q, ids) ==
  q \in [1..Cardinality(ids) -> ids] /\ \A i, j \in DOMAIN q : i < j => q[i] < q[j]

\* Induction over numbers (Folding); nothing is folded here.
NoBase(p) == p
NoPick(t) == t
NoStep(p, x, v) == v
Counting == INSTANCE Folding WITH Base <- NoBase, Pick <- NoPick, Step <- NoStep, Op <- NoStep

LEMMA AscendingExists ==
  ASSUME NEW n \in Nat, NEW ids \in SUBSET (1..n) PROVE \E q : IsAscending(q, ids)
<1> DEFINE S == {m \in Nat : \A t \in SUBSET (1..m) : \E q : IsAscending(q, t)}
<1>1. 0 \in S
  <2> SUFFICES ASSUME NEW t \in SUBSET (1..0) PROVE \E q : IsAscending(q, t) OBVIOUS
  <2>1. t = {} /\ Cardinality({}) = 0 BY FS_EmptySet
  <2>2. IsAscending([i \in 1..0 |-> i], {}) BY <2>1 DEF IsAscending
  <2> QED BY <2>1, <2>2
<1>2. ASSUME NEW m \in Nat, m \in S PROVE m + 1 \in S
  <2> SUFFICES ASSUME NEW t \in SUBSET (1..(m + 1)) PROVE \E q : IsAscending(q, t) OBVIOUS
  <2>1. CASE m + 1 \notin t
    <3>1. t \in SUBSET (1..m) BY <2>1
    <3> QED BY <1>2, <3>1
  <2>2. CASE m + 1 \in t
    <3> DEFINE r == t \ {m + 1}
               c == Cardinality(r)
    <3>1. r \in SUBSET (1..m) OBVIOUS
    <3>2. IsFiniteSet(t) /\ IsFiniteSet(r) /\ c \in Nat /\ Cardinality(t) = c + 1
      <4>1. IsFiniteSet(1..(m + 1)) BY FS_Interval
      <4>2. IsFiniteSet(t) BY <4>1, FS_Subset
      <4>3. IsFiniteSet(r) /\ c = Cardinality(t) - 1 BY <2>2, <4>2, FS_RemoveElement
      <4>4. c \in Nat /\ Cardinality(t) \in Nat BY <4>2, <4>3, FS_CardinalityType
      <4> QED BY <4>2, <4>3, <4>4
    <3>3. PICK p : IsAscending(p, r) BY <1>2, <3>1
    <3> DEFINE q == [i \in 1..(c + 1) |-> IF i = c + 1 THEN m + 1 ELSE p[i]]
    <3>4. p \in [1..c -> r] /\ \A i, j \in 1..c : i < j => p[i] < p[j] BY <3>3 DEF IsAscending
    <3> HIDE DEF c
    <3>5. q \in [1..(c + 1) -> t] BY <2>2, <3>2, <3>4
    <3>6. \A i, j \in 1..(c + 1) : i < j => q[i] < q[j]
      <4> TAKE i, j \in 1..(c + 1)
      <4> HAVE i < j
      <4>1. i \in 1..c /\ q[i] = p[i] BY <3>2
      <4>4. p[i] \in r BY <3>4, <4>1
      <4>5. p[i] \in 1..m BY <3>1, <4>4
      <4>2. CASE j = c + 1 BY <4>1, <4>2, <4>5
      <4>3. CASE j # c + 1 BY <3>2, <3>4, <4>1, <4>3
      <4> QED BY <4>2, <4>3
    <3> HIDE DEF q
    <3> QED BY <3>2, <3>5, <3>6 DEF IsAscending
  <2> QED BY <2>1, <2>2
<1>3. Nat \subseteq S
  <2> HIDE DEF S
  <2> QED BY <1>1, <1>2, Counting!Induction
<1> QED BY <1>3

LEMMA AscendingIs ==
  ASSUME NEW n \in Nat, NEW ids \in SUBSET (1..n)
  PROVE  /\ Ascending(ids) \in Seq(ids)
         /\ \A x : x \in ids <=> \E i \in DOMAIN Ascending(ids) : Ascending(ids)[i] = x
         /\ \A i, j \in DOMAIN Ascending(ids) : i < j => Ascending(ids)[i] < Ascending(ids)[j]
<1> DEFINE q == Ascending(ids)
           c == Cardinality(ids)
<1>0. \A x \in ids : x \in Nat OBVIOUS
<1>1. \E r : IsAscending(r, ids) BY AscendingExists
<1>2. IsAscending(q, ids) BY <1>1 DEF IsAscending, Ascending
<1>3. IsFiniteSet(ids) /\ c \in Nat /\ IsFiniteSet(1..c) /\ Cardinality(1..c) = c
  <2>1. IsFiniteSet(1..n) BY FS_Interval
  <2>2. IsFiniteSet(ids) BY <2>1, FS_Subset
  <2>3. c \in Nat BY <2>2, FS_CardinalityType
  <2> QED BY <2>2, <2>3, FS_Interval
<1> HIDE DEF q, c
<1>4. q \in [1..c -> ids] /\ \A i, j \in 1..c : i < j => q[i] < q[j] BY <1>2 DEF IsAscending, c
<1>5. q \in Injection(1..c, ids)
  <2>1. ASSUME NEW i \in 1..c, NEW j \in 1..c, q[i] = q[j] PROVE i = j
    <3>1. q[i] \in ids /\ q[j] \in ids BY <1>4
    <3>2. q[i] \in Nat /\ q[j] \in Nat BY <3>1, <1>0
    <3>3. ~(i < j) /\ ~(j < i) BY <1>4, <2>1, <3>2
    <3> QED BY <1>3, <3>3
  <2> QED BY <1>4, <2>1 DEF Injection, IsInjective
<1>6. q \in Surjection(1..c, ids) BY <1>3, <1>5, FS_Injection DEF c
<1>7. \A x \in ids : \E i \in 1..c : q[i] = x BY <1>6 DEF Surjection
<1>8. q \in Seq(ids) BY <1>3, <1>4
<1>9. DOMAIN q = 1..c BY <1>4
<1> QED BY <1>4, <1>7, <1>8, <1>9 DEF q

-----------------------------------------------------------------------------
(* The fields of a state, and the number that a callback is at.             *)

LEMMA StateIs ==
  ASSUME NEW s, Scripted(s), NEW w \in ClockStates(s)
  PROVE  /\ w.now \in Nat /\ w.target \in Nat \cup {AtRest} /\ w.work \in Nat
         /\ w.failed \in BOOLEAN
         /\ w.ticks \in Nat /\ w.last \in Nat /\ w.nextTick \in Nat
         /\ w.inputs \in Seq(Nat) /\ w.queue \in Seq(Callbacks(s)) /\ w.played \in Seq(ClockCalls(s))
         /\ w.metros \in [DOMAIN s.metros -> [on : BOOLEAN, due : Nat, left : Nat \cup {Endless}]]
         /\ w.slots \in [DOMAIN s.threads -> [alive : BOOLEAN, ready : BOOLEAN, at : Nat]]
         /\ DOMAIN w.metros = DOMAIN s.metros /\ DOMAIN w.slots = DOMAIN s.threads
         /\ DOMAIN s.metros = 1..Len(s.metros) /\ Len(s.metros) \in Nat
         /\ DOMAIN s.threads = 1..Len(s.threads) /\ Len(s.threads) \in Nat
<1>1. /\ DOMAIN s.metros = 1..Len(s.metros) /\ Len(s.metros) \in Nat
      /\ DOMAIN s.threads = 1..Len(s.threads) /\ Len(s.threads) \in Nat
  BY SequenceIs, Zenon DEF Scripted
<1> QED BY <1>1 DEF ClockStates

LEMMA SourceIs ==
  ASSUME NEW s, Timed(s), NEW w \in ClockStates(s), NEW e \in Callbacks(s)
  PROVE  /\ e[1] = "metro" => /\ w.metros[e[2]] \in [on : BOOLEAN, due : Nat, left : Nat \cup {Endless}]
                              /\ w.metros[e[2]].on \in BOOLEAN /\ w.metros[e[2]].due \in Nat
                              /\ w.metros[e[2]].left \in Nat \cup {Endless}
         /\ e[1] = "thread" => /\ w.slots[e[2]] \in [alive : BOOLEAN, ready : BOOLEAN, at : Nat]
                               /\ w.slots[e[2]].alive \in BOOLEAN /\ w.slots[e[2]].ready \in BOOLEAN
                               /\ w.slots[e[2]].at \in Nat
         /\ Upcoming(s, w, e) \in Nat
<1>1. e[1] \in {"metro", "thread"} /\ (e[1] = "metro" => e[2] \in DOMAIN s.metros)
      /\ (e[1] = "thread" => e[2] \in DOMAIN s.threads)
  BY CallbackIs
<1>2. w.metros \in [DOMAIN s.metros -> [on : BOOLEAN, due : Nat, left : Nat \cup {Endless}]]
      /\ w.slots \in [DOMAIN s.threads -> [alive : BOOLEAN, ready : BOOLEAN, at : Nat]]
  BY StateIs, TimedIsScripted
<1>3. e[1] = "metro" => w.metros[e[2]] \in [on : BOOLEAN, due : Nat, left : Nat \cup {Endless}]
  BY <1>1, <1>2
<1>4. e[1] = "thread" => w.slots[e[2]] \in [alive : BOOLEAN, ready : BOOLEAN, at : Nat]
  BY <1>1, <1>2
<1>5. ASSUME NEW at \in Nat PROVE CeilOf(at * TickNum, TickDen) + 1 \in Nat
  <2>1. at * TickNum \in Nat BY Tempo
  <2> QED BY <2>1, Tempo, Ceiling
<1> QED BY <1>1, <1>3, <1>4, <1>5 DEF Upcoming

LEMMA CounterIs ==
  ASSUME NEW s, Timed(s), NEW w \in ClockStates(s), NEW e \in Callbacks(s), Counter(s, w, e)
  PROVE  \E k \in Nat \ {0} :
           /\ Upcoming(s, w, e) = CallTime(s, e, k)
           /\ e[1] = "metro" =>
                /\ w.metros[e[2]].due = k * s.metros[e[2]].period
                /\ w.metros[e[2]].left # 0 <=> Numbered(s, e, k)
                /\ IF s.metros[e[2]].count = Endless THEN w.metros[e[2]].left = Endless
                   ELSE k <= s.metros[e[2]].count + 1
                        /\ w.metros[e[2]].left = s.metros[e[2]].count + 1 - k
           /\ e[1] = "thread" => w.slots[e[2]].at = k * s.threads[e[2]].every
<1>1. CASE e[1] = "metro"
  <2>1. PICK k \in Nat \ {0} :
          /\ w.metros[e[2]].due = k * s.metros[e[2]].period
          /\ IF s.metros[e[2]].count = Endless THEN w.metros[e[2]].left = Endless
             ELSE k <= s.metros[e[2]].count + 1
                  /\ w.metros[e[2]].left = s.metros[e[2]].count + 1 - k
    BY <1>1 DEF Counter
  <2>2. s.metros[e[2]].count \in Nat \cup {Endless} BY <1>1, CallbackIs
  <2>3. Upcoming(s, w, e) = CallTime(s, e, k) BY <1>1, <2>1 DEF Upcoming, CallTime
  <2>4. w.metros[e[2]].left # 0 <=> Numbered(s, e, k)
    <3>1. CASE s.metros[e[2]].count = Endless BY <1>1, <2>1, <3>1 DEF Numbered, Endless
    <3>2. CASE s.metros[e[2]].count # Endless BY <1>1, <2>1, <2>2, <3>2 DEF Numbered
    <3> QED BY <3>1, <3>2
  <2>5. e[1] # "thread" BY <1>1
  <2> QED BY <2>1, <2>3, <2>4, <2>5
<1>2. CASE e[1] = "thread"
  <2>1. e[1] # "metro" BY <1>2
  <2>2. PICK k \in Nat \ {0} : w.slots[e[2]].at = k * s.threads[e[2]].every BY <2>1 DEF Counter
  <2>3. Upcoming(s, w, e) = CallTime(s, e, k) BY <2>1, <2>2 DEF Upcoming, CallTime
  <2> QED BY <2>1, <2>2, <2>3
<1> QED BY <1>1, <1>2, CallbackIs

-----------------------------------------------------------------------------
(* One iteration before the queue: ticks, metros, coroutines.               *)

\* The reference restarts at a whole pulse, and no pulse is missed.
LEMMA PublishIs ==
  ASSUME NEW s, Scripted(s), NEW w \in ClockStates(s), NEW v, v = PublishTick(w)
  PROVE  /\ v \in ClockStates(s) /\ v.now = w.now /\ v.target = w.target /\ v.work = w.work
         /\ v.failed = w.failed /\ v.metros = w.metros /\ v.slots = w.slots
         /\ v.inputs = w.inputs /\ v.queue = w.queue /\ v.played = w.played
         /\ Ticking(w) => Ticking(v) /\ v.now < CeilOf(v.nextTick, TickDen)
<1>1. /\ w.now \in Nat /\ w.ticks \in Nat /\ w.last \in Nat /\ w.nextTick \in Nat BY StateIs
<1>2. w.now * TickDen = TickDen * w.now BY <1>1, Tempo
<1>3. w.now < CeilOf(w.nextTick, TickDen) <=> w.now * TickDen < w.nextTick
  BY <1>1, <1>2, Tempo, CeilingIs
<1>4. CASE w.now * TickDen < w.nextTick
  <2>1. v = w BY <1>4 DEF PublishTick
  <2> QED BY <1>3, <1>4, <2>1
<1>5. CASE ~(w.now * TickDen < w.nextTick)
  <2> DEFINE t == w.ticks + 1
             n == w.nextTick + TickNum
  <2>1. v = [w EXCEPT !.ticks = t, !.last = w.now, !.nextTick = n]
    BY <1>5 DEF PublishTick
  <2>2. t \in Nat /\ n \in Nat BY <1>1, Tempo
  <2>3. v \in ClockStates(s) BY <1>1, <2>1, <2>2 DEF ClockStates
  <2>9. /\ v.now = w.now /\ v.target = w.target /\ v.work = w.work
        /\ v.failed = w.failed /\ v.metros = w.metros /\ v.slots = w.slots
        /\ v.inputs = w.inputs /\ v.queue = w.queue /\ v.played = w.played
        /\ v.ticks = t /\ v.last = w.now /\ v.nextTick = n
    BY <2>1 DEF ClockStates
  <2>4. ASSUME Ticking(w) PROVE Ticking(v) /\ v.now < CeilOf(v.nextTick, TickDen)
    <3>1. w.nextTick = t * TickNum BY <2>4 DEF Ticking
    <3>2. n = (t + 1) * TickNum
      <4>1. (t + 1) * TickNum = t * TickNum + TickNum BY <2>2, Tempo
      <4> QED BY <3>1, <4>1
    <3>3. CeilOf(w.nextTick, TickDen) \in Nat /\ w.now <= CeilOf(w.nextTick, TickDen)
      BY <1>1, <2>4, Tempo, Ceiling DEF Ticking
    <3>4. CeilOf(w.nextTick, TickDen) + 1 <= CeilOf(n, TickDen) /\ CeilOf(n, TickDen) \in Nat
      <4>1. w.nextTick + TickDen <= n BY <1>1, Tempo
      <4> QED BY <1>1, <2>2, <4>1, Tempo, CeilingGrows, Ceiling
    <3> HIDE DEF t, n
    <3>5. w.now = CeilOf(t * TickNum, TickDen) BY <1>1, <1>3, <1>5, <3>1, <3>3
    <3>6. w.now < CeilOf(n, TickDen) BY <1>1, <3>1, <3>3, <3>4, <3>5
    <3> QED BY <1>1, <2>9, <3>2, <3>4, <3>5, <3>6 DEF Ticking
  <2> HIDE DEF t, n
  <2> QED BY <2>3, <2>4, <2>9
<1> QED BY <1>4, <1>5

\* A sync wakes one nanosecond after its pulse.
LEMMA SyncWakes ==
  ASSUME NEW k \in Nat, NEW now \in Nat, NEW ticks \in Nat, NEW last \in Nat,
         last = CeilOf(ticks * TickNum, TickDen), last <= now,
         now < CeilOf((ticks + 1) * TickNum, TickDen)
  PROVE  /\ (k - ticks) * TickNum < (now - last) * TickDen <=> CeilOf(k * TickNum, TickDen) + 1 <= now
         /\ k < ticks => CeilOf(k * TickNum, TickDen) + 1 <= last
         /\ ticks < k => CeilOf((ticks + 1) * TickNum, TickDen) <= CeilOf(k * TickNum, TickDen)
<1> DEFINE c(n) == CeilOf(n * TickNum, TickDen)
<1>1. \A n \in Nat : n * TickNum \in Nat BY Tempo
<1>2. \A n \in Nat : c(n) \in Nat BY <1>1, Tempo, Ceiling
<1>3. ASSUME NEW m \in Nat, NEW n \in Nat, m < n
      PROVE  m * TickNum + TickNum <= n * TickNum /\ c(m) + 1 <= c(n) /\ c(m + 1) <= c(n)
  <2>1. TickNum * (m + 1) <= TickNum * n BY <1>3, Tempo, Factor
  <2>2. TickNum * (m + 1) = m * TickNum + TickNum /\ TickNum * n = n * TickNum
        /\ TickNum * (m + 1) = (m + 1) * TickNum
    BY Tempo
  <2>3. m * TickNum + TickNum <= n * TickNum BY <2>1, <2>2
  <2>4. m * TickNum \in Nat /\ n * TickNum \in Nat /\ (m + 1) * TickNum \in Nat BY <1>1
  <2>5. m * TickNum + TickDen <= n * TickNum BY <2>3, <2>4, Tempo
  <2>6. (m + 1) * TickNum <= n * TickNum BY <2>1, <2>2
  <2> QED BY <2>3, <2>4, <2>5, <2>6, Tempo, CeilingGrows
<1>4. CASE k < ticks
  <2>1. c(k) + 1 <= c(ticks) BY <1>3, <1>4
  <2>2. (k - ticks) * TickNum < 0
    <3>1. TickNum * (k - ticks) <= TickNum * (-1) BY <1>4, Tempo, Factor
    <3>2. TickNum * (k - ticks) = (k - ticks) * TickNum /\ TickNum * (-1) = -TickNum BY Tempo
    <3>3. (k - ticks) * TickNum \in Int BY Tempo
    <3> QED BY <3>1, <3>2, <3>3, Tempo
  <2>3. 0 <= (now - last) * TickDen
    <3>1. TickDen * 0 <= TickDen * (now - last) BY Tempo, Factor
    <3>2. TickDen * (now - last) = (now - last) * TickDen BY Tempo
    <3> QED BY <3>1, <3>2, Tempo
  <2>4. (k - ticks) * TickNum \in Int /\ (now - last) * TickDen \in Int BY Tempo
  <2>5. c(k) \in Nat BY <1>2
  <2> QED BY <1>4, <2>1, <2>2, <2>3, <2>4, <2>5
<1>5. CASE k = ticks
  <2>1. (k - ticks) * TickNum = 0 BY <1>5, Tempo
  <2>2. 0 < (now - last) * TickDen <=> last < now
    <3>1. TickDen * 0 < TickDen * (now - last) => 0 < now - last BY Tempo, Factor
    <3>2. TickDen * (now - last) = (now - last) * TickDen /\ TickDen * 0 = 0 BY Tempo
    <3>3. 1 <= now - last => TickDen * 1 <= TickDen * (now - last) BY Tempo, Factor
    <3> QED BY <3>1, <3>2, <3>3, Tempo
  <2> QED BY <1>5, <2>1, <2>2
<1>6. CASE ticks < k
  <2>1. c(ticks + 1) <= c(k) BY <1>3, <1>6
  <2>2. c(k) \in Nat /\ c(ticks + 1) \in Nat BY <1>2
  <2>3. ~(c(k) + 1 <= now) BY <2>1, <2>2
  <2>4. TickDen * now < (ticks + 1) * TickNum
    <3>1. (ticks + 1) * TickNum \in Nat BY <1>1
    <3> QED BY <3>1, Tempo, CeilingIs
  <2>5. ticks * TickNum <= TickDen * last BY <1>1, Tempo, Ceiling
  <2>6. (now - last) * TickDen = TickDen * now - TickDen * last BY Tempo
  <2>7. (ticks + 1) * TickNum = ticks * TickNum + TickNum BY Tempo
  <2>8. (now - last) * TickDen < TickNum
    <3>1. TickDen * now \in Int /\ TickDen * last \in Int /\ ticks * TickNum \in Int BY <1>1, Tempo
    <3> QED BY <2>4, <2>5, <2>6, <2>7, <3>1, Tempo
  <2>9. TickNum <= (k - ticks) * TickNum
    <3>1. TickNum * 1 <= TickNum * (k - ticks) BY <1>6, Tempo, Factor
    <3>2. TickNum * (k - ticks) = (k - ticks) * TickNum BY Tempo
    <3> QED BY <3>1, <3>2, Tempo
  <2>10. (now - last) * TickDen \in Int /\ (k - ticks) * TickNum \in Int BY Tempo
  <2> QED BY <1>6, <2>1, <2>3, <2>8, <2>9, <2>10, Tempo
<1> QED BY <1>4, <1>5, <1>6

LEMMA ConcatHas ==
  ASSUME NEW C, NEW a \in Seq(C), NEW b \in Seq(C)
  PROVE  a \o b \in Seq(C) /\ \A e : Has(a \o b, e) <=> Has(a, e) \/ Has(b, e)
<1> DEFINE c == a \o b
<1>1. /\ c \in Seq(C) /\ DOMAIN a = 1..Len(a) /\ Len(a) \in Nat /\ DOMAIN b = 1..Len(b) /\ Len(b) \in Nat
      /\ DOMAIN c = 1..(Len(a) + Len(b))
      /\ \A n \in 1..Len(a) : c[n] = a[n]
      /\ \A n \in (Len(a) + 1)..(Len(a) + Len(b)) : c[n] = b[n - Len(a)]
  OBVIOUS
<1> HIDE DEF c
<1>2. \A n \in DOMAIN c : (n \in DOMAIN a /\ c[n] = a[n])
                           \/ (n - Len(a) \in DOMAIN b /\ c[n] = b[n - Len(a)])
  BY <1>1
<1>3. \A n \in DOMAIN a : n \in DOMAIN c /\ c[n] = a[n] BY <1>1
<1>4. ASSUME NEW n \in DOMAIN b PROVE n + Len(a) \in DOMAIN c /\ c[n + Len(a)] = b[n]
  <2>1. n + Len(a) \in (Len(a) + 1)..(Len(a) + Len(b)) /\ n + Len(a) \in DOMAIN c
        /\ (n + Len(a)) - Len(a) = n
    BY <1>1
  <2>2. c[n + Len(a)] = b[(n + Len(a)) - Len(a)] BY <1>1, <2>1
  <2> QED BY <2>1, <2>2
<1> QED BY <1>1, <1>2, <1>3, <1>4, Zenon DEF c, Has

\* What is queued of some metros or coroutines.
Entries(kind, ids) == [i \in DOMAIN Ascending(ids) |-> <<kind, Ascending(ids)[i]>>]

EntriesFit(kind, ids, C, q) ==
  /\ q \in Seq(C)
  /\ \A e : Has(q, e) <=> \E x \in ids : e = <<kind, x>>
  /\ \A i, j \in DOMAIN q : i < j =>
       q[i][1] = kind /\ q[j][1] = kind /\ q[i][2] \in Nat /\ q[j][2] \in Nat /\ q[i][2] < q[j][2]
  /\ ids = {} => q = <<>>

LEMMA EntriesAre ==
  ASSUME NEW n \in Nat, NEW ids \in SUBSET (1..n), NEW C, NEW kind, \A x \in ids : <<kind, x>> \in C
  PROVE  EntriesFit(kind, ids, C, Entries(kind, ids))
<1> DEFINE a == Ascending(ids)
           q == Entries(kind, ids)
<1>1. /\ a \in Seq(ids) /\ \A x : x \in ids <=> \E i \in DOMAIN a : a[i] = x
      /\ \A i, j \in DOMAIN a : i < j => a[i] < a[j]
  BY AscendingIs
<1>2. q = [i \in DOMAIN a |-> <<kind, a[i]>>] BY DEF Entries
<1> HIDE DEF a, q
<1>3. DOMAIN a = 1..Len(a) /\ Len(a) \in Nat /\ \A i \in DOMAIN a : a[i] \in ids
  BY <1>1, SequenceIs, Zenon
<1>4. DOMAIN q = DOMAIN a /\ \A i \in DOMAIN q : q[i] = <<kind, a[i]>> BY <1>2
<1>5. q \in Seq(C)
  <2>1. \A i \in 1..Len(a) : q[i] \in C BY <1>3, <1>4
  <2>2. q \in [1..Len(a) -> C] BY <1>2, <1>3, <1>4, <2>1
  <2> QED BY <1>3, <2>2
<1>6. \A e : (\E i \in DOMAIN q : q[i] = e) <=> \E x \in ids : e = <<kind, x>>
  BY <1>1, <1>3, <1>4, Zenon
<1>7. ASSUME NEW i \in DOMAIN q, NEW j \in DOMAIN q, i < j
      PROVE  /\ q[i][1] = kind /\ q[j][1] = kind /\ q[i][2] \in Nat /\ q[j][2] \in Nat /\ q[i][2] < q[j][2]
  <2>1. i \in DOMAIN a /\ j \in DOMAIN a BY <1>4
  <2>2. a[i] < a[j] BY <1>1, <1>7, <2>1
  <2>3. a[i] \in ids /\ a[j] \in ids BY <1>3, <2>1
  <2>5. \A x \in ids : x \in Nat OBVIOUS
  <2>4. a[i] \in Nat /\ a[j] \in Nat BY <2>3, <2>5
  <2> QED BY <1>4, <2>1, <2>2, <2>4
<1>8. ASSUME ids = {} PROVE q = <<>>
  <2>1. DOMAIN a = {} BY <1>3, <1>8
  <2>2. Len(q) = 0 /\ q \in Seq(C) BY <1>4, <1>5, <2>1
  <2> QED BY <2>2
<1> QED BY <1>5, <1>6, <1>7, <1>8 DEF q, Has, EntriesFit

MetrosDue(w) == {i \in DOMAIN w.metros : w.metros[i].on /\ w.metros[i].due <= w.now}
MetrosRung(w) == {i \in MetrosDue(w) : w.metros[i].left # 0}
ThreadsWoken(w) == {i \in DOMAIN w.slots : w.slots[i].ready /\ Woken(w, i)}

LEMMA MetrosStep ==
  ASSUME Scripted(script), NEW v \in ClockStates(script), NEW u, u = StepMetros(v)
  PROVE  /\ u \in ClockStates(script) /\ u.now = v.now /\ u.target = v.target /\ u.work = v.work
         /\ u.failed = v.failed /\ u.ticks = v.ticks /\ u.last = v.last /\ u.nextTick = v.nextTick
         /\ u.slots = v.slots /\ u.inputs = v.inputs /\ u.played = v.played
         /\ u.queue = v.queue \o Entries("metro", MetrosRung(v))
         /\ \A i \in DOMAIN script.metros :
              u.metros[i] = IF i \notin MetrosDue(v) THEN v.metros[i]
                            ELSE IF i \notin MetrosRung(v) THEN [v.metros[i] EXCEPT !.on = FALSE]
                            ELSE [on |-> TRUE, due |-> v.metros[i].due + script.metros[i].period,
                                  left |-> IF v.metros[i].left = Endless THEN Endless
                                           ELSE v.metros[i].left - 1]
<1> DEFINE D == MetrosDue(v)
           R == MetrosRung(v)
           q == Entries("metro", R)
           M == [i \in DOMAIN v.metros |->
                   IF i \notin D THEN v.metros[i]
                   ELSE IF i \notin R THEN [v.metros[i] EXCEPT !.on = FALSE]
                   ELSE [on |-> TRUE, due |-> v.metros[i].due + script.metros[i].period,
                         left |-> IF v.metros[i].left = Endless THEN Endless
                                  ELSE v.metros[i].left - 1]]
<1>1. u = [v EXCEPT !.queue = v.queue \o q, !.metros = M]
  BY DEF StepMetros, Posted, Entries, MetrosDue, MetrosRung, ClockStates
<1>2. /\ DOMAIN v.metros = DOMAIN script.metros
      /\ DOMAIN script.metros = 1..Len(script.metros) /\ Len(script.metros) \in Nat
      /\ v.queue \in Seq(Callbacks(script))
      /\ v.metros \in [DOMAIN script.metros -> [on : BOOLEAN, due : Nat, left : Nat \cup {Endless}]]
  BY StateIs
<1>3. R \in SUBSET (1..Len(script.metros)) /\ \A x \in R : <<"metro", x>> \in Callbacks(script)
  BY <1>2 DEF MetrosRung, MetrosDue, Callbacks
<1>4. q \in Seq(Callbacks(script))
  <2> HIDE DEF R
  <2>1. EntriesFit("metro", R, Callbacks(script), q) BY <1>2, <1>3, EntriesAre
  <2> QED BY <2>1 DEF EntriesFit
<1>5. ASSUME NEW i \in DOMAIN script.metros
      PROVE  M[i] \in [on : BOOLEAN, due : Nat, left : Nat \cup {Endless}]
  <2>1. v.metros[i] \in [on : BOOLEAN, due : Nat, left : Nat \cup {Endless}] BY <1>2
  <2>2. CASE i \notin D BY <1>2, <2>1, <2>2
  <2>3. CASE i \in D /\ i \notin R BY <1>2, <2>1, <2>3
  <2>4. CASE i \in R
    <3>1. script.metros[i] \in [period : Nat, count : Nat \cup {Endless}]
      BY SequenceIs, Zenon DEF Scripted
    <3>2. script.metros[i].period \in Nat BY <3>1
    <3>3. v.metros[i].left # 0 /\ i \in D BY <2>4 DEF MetrosRung
    <3>4. M[i] = [on |-> TRUE, due |-> v.metros[i].due + script.metros[i].period,
                  left |-> IF v.metros[i].left = Endless THEN Endless ELSE v.metros[i].left - 1]
      BY <1>2, <2>4, <3>3
    <3>5. v.metros[i].due + script.metros[i].period \in Nat BY <2>1, <3>2
    <3>6. (IF v.metros[i].left = Endless THEN Endless ELSE v.metros[i].left - 1) \in Nat \cup {Endless}
      BY <2>1, <3>3
    <3> HIDE DEF M
    <3> QED BY <3>4, <3>5, <3>6
  <2> QED BY <2>2, <2>3, <2>4
<1> HIDE DEF D, R
<1>6. M \in [DOMAIN script.metros -> [on : BOOLEAN, due : Nat, left : Nat \cup {Endless}]]
  <2>1. M = [i \in DOMAIN script.metros |-> M[i]] BY <1>2
  <2> HIDE DEF M
  <2> QED BY <1>5, <2>1
<1>7. v.queue \o q \in Seq(Callbacks(script)) BY <1>2, <1>4
<1>8. \A i \in DOMAIN script.metros :
        M[i] = IF i \notin D THEN v.metros[i]
               ELSE IF i \notin R THEN [v.metros[i] EXCEPT !.on = FALSE]
               ELSE [on |-> TRUE, due |-> v.metros[i].due + script.metros[i].period,
                     left |-> IF v.metros[i].left = Endless THEN Endless ELSE v.metros[i].left - 1]
  BY <1>2
<1> HIDE DEF M, q
<1>9. u \in ClockStates(script) BY <1>1, <1>6, <1>7 DEF ClockStates
<1>10. /\ u.now = v.now /\ u.target = v.target /\ u.work = v.work
       /\ u.failed = v.failed /\ u.ticks = v.ticks /\ u.last = v.last /\ u.nextTick = v.nextTick
       /\ u.slots = v.slots /\ u.inputs = v.inputs /\ u.played = v.played
       /\ u.queue = v.queue \o q /\ u.metros = M
  BY <1>1 DEF ClockStates
<1> QED BY <1>8, <1>9, <1>10 DEF D, R, q

LEMMA ThreadsStep ==
  ASSUME Scripted(script), NEW v \in ClockStates(script), NEW u, u = StepScheduler(v)
  PROVE  /\ u \in ClockStates(script) /\ u.now = v.now /\ u.target = v.target /\ u.work = v.work
         /\ u.failed = v.failed /\ u.ticks = v.ticks /\ u.last = v.last /\ u.nextTick = v.nextTick
         /\ u.metros = v.metros /\ u.inputs = v.inputs /\ u.played = v.played
         /\ u.queue = v.queue \o Entries("thread", ThreadsWoken(v))
         /\ \A i \in DOMAIN script.threads :
              u.slots[i] = IF i \in ThreadsWoken(v) THEN [v.slots[i] EXCEPT !.ready = FALSE]
                           ELSE v.slots[i]
<1> DEFINE K == ThreadsWoken(v)
           q == Entries("thread", K)
           M == [i \in DOMAIN v.slots |-> IF i \in K THEN [v.slots[i] EXCEPT !.ready = FALSE]
                                        ELSE v.slots[i]]
<1>1. u = [v EXCEPT !.queue = v.queue \o q, !.slots = M]
  BY DEF StepScheduler, Posted, Entries, ThreadsWoken, ClockStates
<1>2. /\ DOMAIN v.slots = DOMAIN script.threads
      /\ DOMAIN script.threads = 1..Len(script.threads) /\ Len(script.threads) \in Nat
      /\ v.queue \in Seq(Callbacks(script))
      /\ v.slots \in [DOMAIN script.threads -> [alive : BOOLEAN, ready : BOOLEAN, at : Nat]]
  BY StateIs
<1>3. K \in SUBSET (1..Len(script.threads)) /\ \A x \in K : <<"thread", x>> \in Callbacks(script)
  BY <1>2 DEF ThreadsWoken, Callbacks
<1> HIDE DEF K
<1>4. q \in Seq(Callbacks(script))
  <2>1. EntriesFit("thread", K, Callbacks(script), q) BY <1>2, <1>3, EntriesAre
  <2> QED BY <2>1 DEF EntriesFit
<1>5. ASSUME NEW i \in DOMAIN script.threads
      PROVE  /\ M[i] \in [alive : BOOLEAN, ready : BOOLEAN, at : Nat]
             /\ M[i] = IF i \in K THEN [v.slots[i] EXCEPT !.ready = FALSE] ELSE v.slots[i]
  <2>1. v.slots[i] \in [alive : BOOLEAN, ready : BOOLEAN, at : Nat] BY <1>2
  <2>2. [v.slots[i] EXCEPT !.ready = FALSE] \in [alive : BOOLEAN, ready : BOOLEAN, at : Nat]
    BY <2>1
  <2>3. M[i] = IF i \in K THEN [v.slots[i] EXCEPT !.ready = FALSE] ELSE v.slots[i] BY <1>2
  <2> HIDE DEF M
  <2> QED BY <2>1, <2>2, <2>3
<1>6. M \in [DOMAIN script.threads -> [alive : BOOLEAN, ready : BOOLEAN, at : Nat]]
  <2>1. M = [i \in DOMAIN script.threads |-> M[i]] BY <1>2
  <2> HIDE DEF M
  <2> QED BY <1>5, <2>1
<1>7. v.queue \o q \in Seq(Callbacks(script)) BY <1>2, <1>4
<1> HIDE DEF M, q
<1>9. u \in ClockStates(script) BY <1>1, <1>6, <1>7 DEF ClockStates
<1>10. /\ u.now = v.now /\ u.target = v.target /\ u.work = v.work
       /\ u.failed = v.failed /\ u.ticks = v.ticks /\ u.last = v.last /\ u.nextTick = v.nextTick
       /\ u.metros = v.metros /\ u.inputs = v.inputs /\ u.played = v.played
       /\ u.queue = v.queue \o q /\ u.slots = M
  BY <1>1 DEF ClockStates
<1> QED BY <1>5, <1>9, <1>10 DEF K, q

-----------------------------------------------------------------------------
(* The order of callbacks.                                                  *)

LEMMA RanksAre ==
  ASSUME NEW s, Timed(s), NEW e \in ({"input"} \X Nat) \cup Callbacks(s)
  PROVE  /\ e = <<e[1], e[2]>> /\ e[2] \in Nat /\ Rank(e) \in Nat
         /\ e[1] = "input" <=> e \notin Callbacks(s)
         /\ e \in Callbacks(s) => 0 < Rank(e)
         /\ e[1] = "input" => Rank(e) = 0
         /\ e[1] = "metro" => Rank(e) = 1
         /\ e[1] = "thread" => Rank(e) = 2
<1>1. CASE e \in Callbacks(s)
  <2>1. e = <<e[1], e[2]>> /\ e[1] \in {"metro", "thread"} /\ e[2] \in Nat BY <1>1, CallbackIs
  <2>2. "metro" # "thread" /\ "metro" # "input" /\ "thread" # "input" OBVIOUS
  <2> QED BY <1>1, <2>1, <2>2 DEF Rank
<1>2. CASE e \in {"input"} \X Nat
  <2>1. e = <<e[1], e[2]>> /\ e[1] = "input" /\ e[2] \in Nat BY <1>2
  <2>2. e \notin Callbacks(s) BY <2>1, CallbackIs
  <2>3. "metro" # "thread" /\ "metro" # "input" /\ "thread" # "input" OBVIOUS
  <2> QED BY <2>1, <2>2, <2>3 DEF Rank
<1> QED BY <1>1, <1>2

LEMMA PrecedesIs ==
  ASSUME NEW s, Timed(s), NEW e \in ({"input"} \X Nat) \cup Callbacks(s), NEW t \in Nat,
         NEW f \in ({"input"} \X Nat) \cup Callbacks(s), NEW u \in Nat
  PROVE  /\ Precedes(<<e, t>>, <<f, u>>) <=>
               \/ t < u
               \/ t = u /\ Rank(e) < Rank(f)
               \/ t = u /\ Rank(e) = Rank(f) /\ e[2] < f[2]
         /\ Precedes(<<e, t>>, <<f, u>>) => ~Precedes(<<f, u>>, <<e, t>>) /\ t <= u /\ <<e, t>> # <<f, u>>
<1>1. \A x, y : <<x, y>>[1] = x /\ <<x, y>>[2] = y OBVIOUS
<1>2. Rank(e) \in Nat /\ Rank(f) \in Nat /\ e[2] \in Nat /\ f[2] \in Nat BY RanksAre
<1>3. Precedes(<<e, t>>, <<f, u>>) <=>
         \/ t < u
         \/ t = u /\ Rank(e) < Rank(f)
         \/ t = u /\ Rank(e) = Rank(f) /\ e[2] < f[2]
  BY <1>1, Zenon DEF Precedes
<1>4. Precedes(<<f, u>>, <<e, t>>) <=>
         \/ u < t
         \/ u = t /\ Rank(f) < Rank(e)
         \/ u = t /\ Rank(f) = Rank(e) /\ f[2] < e[2]
  BY <1>1, Zenon DEF Precedes
<1>5. e = f /\ t = u => ~Precedes(<<e, t>>, <<f, u>>) BY <1>2, <1>3
<1>6. <<e, t>> = <<f, u>> => e = f /\ t = u BY <1>1, Zenon
<1> QED BY <1>2, <1>3, <1>4, <1>5, <1>6

-----------------------------------------------------------------------------
(* What one iteration does before it looks at the queue.                    *)

Due(s, w, e) == Armed(w, e) /\ Upcoming(s, w, e) <= w.now
Rings(s, w, e) == Due(s, w, e) /\ (e[1] = "metro" => w.metros[e[2]].left # 0)

LEMMA SteppedIs ==
  ASSUME Timed(script), NEW w \in ClockStates(script), Ticking(w), NEW t, t = Stepped(w)
  PROVE  /\ t \in ClockStates(script) /\ t.now = w.now /\ t.target = w.target /\ t.work = w.work
         /\ t.failed = w.failed /\ t.inputs = w.inputs /\ t.played = w.played
         /\ Ticking(t) /\ t.now < CeilOf(t.nextTick, TickDen)
         /\ \A e \in Callbacks(script) :
              /\ InQueue(t, e) <=> InQueue(w, e) \/ Rings(script, w, e)
              /\ e[1] = "metro" =>
                   t.metros[e[2]] =
                     IF ~Due(script, w, e) THEN w.metros[e[2]]
                     ELSE IF ~Rings(script, w, e) THEN [w.metros[e[2]] EXCEPT !.on = FALSE]
                     ELSE [on |-> TRUE, due |-> w.metros[e[2]].due + script.metros[e[2]].period,
                           left |-> IF w.metros[e[2]].left = Endless THEN Endless
                                    ELSE w.metros[e[2]].left - 1]
              /\ e[1] = "thread" =>
                   t.slots[e[2]] = IF Due(script, w, e) THEN [w.slots[e[2]] EXCEPT !.ready = FALSE]
                                   ELSE w.slots[e[2]]
         /\ (\A e \in Callbacks(script) : ~Rings(script, w, e)) => t.queue = w.queue
         /\ w.queue = <<>> => \A i, j \in DOMAIN t.queue : i < j =>
              Precedes(<<t.queue[i], t.now>>, <<t.queue[j], t.now>>)
<1> DEFINE p == PublishTick(w)
           m == StepMetros(p)
           R == MetrosRung(p)
           K == ThreadsWoken(m)
           q == Entries("metro", R)
           r == Entries("thread", K)
<1>0. Scripted(script) BY TimedIsScripted
<1>1. /\ p \in ClockStates(script) /\ p.now = w.now /\ p.target = w.target /\ p.work = w.work
      /\ p.failed = w.failed /\ p.metros = w.metros /\ p.slots = w.slots
      /\ p.inputs = w.inputs /\ p.queue = w.queue /\ p.played = w.played
      /\ Ticking(p) /\ p.now < CeilOf(p.nextTick, TickDen)
  BY <1>0, PublishIs
<1>2. /\ m \in ClockStates(script) /\ m.now = p.now /\ m.target = p.target /\ m.work = p.work
      /\ m.failed = p.failed /\ m.ticks = p.ticks /\ m.last = p.last /\ m.nextTick = p.nextTick
      /\ m.slots = p.slots /\ m.inputs = p.inputs /\ m.played = p.played
      /\ m.queue = p.queue \o q
      /\ \A i \in DOMAIN script.metros :
           m.metros[i] = IF i \notin MetrosDue(p) THEN p.metros[i]
                         ELSE IF i \notin R THEN [p.metros[i] EXCEPT !.on = FALSE]
                         ELSE [on |-> TRUE, due |-> p.metros[i].due + script.metros[i].period,
                               left |-> IF p.metros[i].left = Endless THEN Endless
                                        ELSE p.metros[i].left - 1]
  <2> HIDE DEF p
  <2> QED BY <1>0, <1>1, MetrosStep
<1>3. /\ t \in ClockStates(script) /\ t.now = m.now /\ t.target = m.target /\ t.work = m.work
      /\ t.failed = m.failed /\ t.ticks = m.ticks /\ t.last = m.last /\ t.nextTick = m.nextTick
      /\ t.metros = m.metros /\ t.inputs = m.inputs /\ t.played = m.played
      /\ t.queue = m.queue \o r
      /\ \A i \in DOMAIN script.threads :
           t.slots[i] = IF i \in K THEN [m.slots[i] EXCEPT !.ready = FALSE] ELSE m.slots[i]
  <2>1. t = StepScheduler(m) /\ m \in ClockStates(script) BY <1>2 DEF Stepped
  <2> HIDE DEF m
  <2> QED BY <1>0, <2>1, ThreadsStep
<1> HIDE DEF p, m
<1>4. /\ w.metros \in [DOMAIN script.metros -> [on : BOOLEAN, due : Nat, left : Nat \cup {Endless}]]
      /\ w.slots \in [DOMAIN script.threads -> [alive : BOOLEAN, ready : BOOLEAN, at : Nat]]
      /\ DOMAIN script.metros = 1..Len(script.metros) /\ Len(script.metros) \in Nat
      /\ DOMAIN script.threads = 1..Len(script.threads) /\ Len(script.threads) \in Nat
      /\ w.now \in Nat /\ w.queue \in Seq(Callbacks(script))
  BY <1>0, StateIs
<1>5. ASSUME NEW i \in DOMAIN script.metros
      PROVE  /\ <<"metro", i>> \in Callbacks(script)
             /\ i \in MetrosDue(p) <=> Due(script, w, <<"metro", i>>)
             /\ i \in R <=> Rings(script, w, <<"metro", i>>)
  <2>1. w.metros[i] \in [on : BOOLEAN, due : Nat, left : Nat \cup {Endless}] BY <1>4
  <2>2. i \in MetrosDue(p) <=> w.metros[i].on = TRUE /\ w.metros[i].due <= w.now
    BY <1>1, <1>4, <2>1 DEF MetrosDue
  <2>3. Due(script, w, <<"metro", i>>) <=> w.metros[i].on = TRUE /\ w.metros[i].due <= w.now
    BY DEF Due, Armed, Upcoming
  <2>4. i \in R <=> i \in MetrosDue(p) /\ w.metros[i].left # 0 BY <1>1 DEF MetrosRung
  <2> QED BY <2>2, <2>3, <2>4 DEF Callbacks, Rings
<1>6. ASSUME NEW i \in DOMAIN script.threads
      PROVE  /\ <<"thread", i>> \in Callbacks(script)
             /\ i \in K <=> Due(script, w, <<"thread", i>>)
             /\ i \in K <=> Rings(script, w, <<"thread", i>>)
  <2> DEFINE e == <<"thread", i>>
  <2>1. w.slots[i] \in [alive : BOOLEAN, ready : BOOLEAN, at : Nat] BY <1>4
  <2>2. i \in K <=> w.slots[i].ready = TRUE /\ Woken(m, i)
    BY <1>1, <1>2, <1>4, <2>1 DEF ThreadsWoken
  <2>3. e \in Callbacks(script) /\ e[1] # "metro" /\ e[1] = "thread" /\ e[2] = i BY DEF Callbacks
  <2>4. script.threads[i].kind \in {"sleep", "sync"} BY <2>3, CallbackIs
  <2>5. Woken(m, i) <=> Upcoming(script, w, e) <= w.now
    <3>1. m.slots[i].at = w.slots[i].at /\ w.slots[i].at \in Nat BY <1>1, <1>2, <2>1
    <3>2. CASE script.threads[i].kind = "sleep"
      BY <1>1, <1>2, <1>4, <2>3, <3>1, <3>2 DEF Woken, Upcoming
    <3>3. CASE script.threads[i].kind = "sync"
      <4> DEFINE k == w.slots[i].at
      <4>1. m.ticks \in Nat /\ m.last \in Nat /\ m.now \in Nat BY <1>0, <1>2, StateIs
      <4>2. m.last = CeilOf(m.ticks * TickNum, TickDen) /\ m.last <= m.now
            /\ m.now < CeilOf((m.ticks + 1) * TickNum, TickDen) /\ m.now = w.now
        BY <1>1, <1>2 DEF Ticking
      <4>3. (k - m.ticks) * TickNum < (m.now - m.last) * TickDen
              <=> CeilOf(k * TickNum, TickDen) + 1 <= m.now
        BY <3>1, <4>1, <4>2, SyncWakes
      <4>4. Woken(m, i) <=> (k - m.ticks) * TickNum < (m.now - m.last) * TickDen
        BY <3>1, <3>3 DEF Woken
      <4>5. Upcoming(script, w, e) = CeilOf(k * TickNum, TickDen) + 1
        BY <2>3, <3>3 DEF Upcoming
      <4> QED BY <4>2, <4>3, <4>4, <4>5
    <3> QED BY <2>4, <3>2, <3>3
  <2>6. Armed(w, e) <=> w.slots[i].ready = TRUE BY <2>3 DEF Armed
  <2> QED BY <2>2, <2>3, <2>5, <2>6 DEF Due, Rings
<1>7. R \in SUBSET (1..Len(script.metros)) /\ \A x \in R : <<"metro", x>> \in Callbacks(script)
  <2>1. R \subseteq DOMAIN script.metros BY <1>1, <1>4 DEF MetrosRung, MetrosDue
  <2> QED BY <1>4, <1>5, <2>1
<1>8. K \in SUBSET (1..Len(script.threads)) /\ \A x \in K : <<"thread", x>> \in Callbacks(script)
  <2>1. K \subseteq DOMAIN script.threads BY <1>1, <1>2, <1>4 DEF ThreadsWoken
  <2> QED BY <1>4, <1>6, <2>1
<1> HIDE DEF R, K
<1>9. /\ q \in Seq(Callbacks(script))
      /\ \A e : Has(q, e) <=> \E x \in R : e = <<"metro", x>>
      /\ \A i, j \in DOMAIN q : i < j =>
           q[i][1] = "metro" /\ q[j][1] = "metro" /\ q[i][2] \in Nat /\ q[j][2] \in Nat /\ q[i][2] < q[j][2]
      /\ R = {} => q = <<>>
  <2>1. EntriesFit("metro", R, Callbacks(script), q) BY <1>4, <1>7, EntriesAre
  <2> QED BY <2>1, Zenon DEF EntriesFit
<1>10. /\ r \in Seq(Callbacks(script))
       /\ \A e : Has(r, e) <=> \E x \in K : e = <<"thread", x>>
       /\ \A i, j \in DOMAIN r : i < j =>
            r[i][1] = "thread" /\ r[j][1] = "thread" /\ r[i][2] \in Nat /\ r[j][2] \in Nat /\ r[i][2] < r[j][2]
       /\ K = {} => r = <<>>
  <2>1. EntriesFit("thread", K, Callbacks(script), r) BY <1>4, <1>8, EntriesAre
  <2> QED BY <2>1, Zenon DEF EntriesFit
<1> HIDE DEF q, r
<1>11. t.queue = (w.queue \o q) \o r BY <1>1, <1>2, <1>3
<1>12. \A e : InQueue(t, e) <=> InQueue(w, e) \/ Has(q, e) \/ Has(r, e)
  <2> DEFINE C == Callbacks(script)
             z == w.queue
             y == z \o q
  <2>1. z \in Seq(C) /\ q \in Seq(C) /\ r \in Seq(C) BY <1>4, <1>9, <1>10
  <2> HIDE DEF C, z
  <2>2. y \in Seq(C) /\ \A e : Has(y, e) <=> Has(z, e) \/ Has(q, e) BY <2>1, ConcatHas
  <2> HIDE DEF y
  <2>3. \A e : Has(y \o r, e) <=> Has(y, e) \/ Has(r, e) BY <2>1, <2>2, ConcatHas
  <2> QED BY <1>11, <2>2, <2>3, Zenon DEF InQueue, y, z
<1>13. ASSUME NEW e \in Callbacks(script)
       PROVE  /\ InQueue(t, e) <=> InQueue(w, e) \/ Rings(script, w, e)
              /\ e[1] = "metro" =>
                   t.metros[e[2]] =
                     IF ~Due(script, w, e) THEN w.metros[e[2]]
                     ELSE IF ~Rings(script, w, e) THEN [w.metros[e[2]] EXCEPT !.on = FALSE]
                     ELSE [on |-> TRUE, due |-> w.metros[e[2]].due + script.metros[e[2]].period,
                           left |-> IF w.metros[e[2]].left = Endless THEN Endless
                                    ELSE w.metros[e[2]].left - 1]
              /\ e[1] = "thread" =>
                   t.slots[e[2]] = IF Due(script, w, e) THEN [w.slots[e[2]] EXCEPT !.ready = FALSE]
                                   ELSE w.slots[e[2]]
  <2>1. CASE e[1] = "metro"
    <3>1. e = <<"metro", e[2]>> /\ e[2] \in DOMAIN script.metros BY <2>1, CallbackIs
    <3>2. (\E x \in R : e = <<"metro", x>>) <=> Rings(script, w, e)
      <4>1. \A x : e = <<"metro", x>> => x = e[2] OBVIOUS
      <4> QED BY <1>5, <3>1, <4>1
    <3>3. ~\E x \in K : e = <<"thread", x>> BY <2>1
    <3>4. InQueue(t, e) <=> InQueue(w, e) \/ Rings(script, w, e)
      BY <1>9, <1>10, <1>12, <3>2, <3>3, Zenon
    <3>5. e[1] # "thread" BY <2>1
    <3> QED BY <1>1, <1>2, <1>3, <1>5, <3>1, <3>4, <3>5
  <2>2. CASE e[1] = "thread"
    <3>1. e = <<"thread", e[2]>> /\ e[2] \in DOMAIN script.threads BY <2>2, CallbackIs
    <3>2. (\E x \in K : e = <<"thread", x>>) <=> Rings(script, w, e)
      <4>1. \A x : e = <<"thread", x>> => x = e[2] OBVIOUS
      <4> QED BY <1>6, <3>1, <4>1
    <3>3. ~\E x \in R : e = <<"metro", x>> BY <2>2
    <3>4. InQueue(t, e) <=> InQueue(w, e) \/ Rings(script, w, e)
      BY <1>9, <1>10, <1>12, <3>2, <3>3, Zenon
    <3>5. e[1] # "metro" BY <2>2
    <3> QED BY <1>1, <1>2, <1>3, <1>6, <3>1, <3>4, <3>5
  <2> QED BY <2>1, <2>2, CallbackIs
<1>14. ASSUME \A e \in Callbacks(script) : ~Rings(script, w, e) PROVE t.queue = w.queue
  <2>1. R = {}
    <3>1. \A x \in R : x \in DOMAIN script.metros BY <1>4, <1>7
    <3> QED BY <1>5, <1>14, <3>1
  <2>2. K = {}
    <3>1. \A x \in K : x \in DOMAIN script.threads BY <1>4, <1>8
    <3> QED BY <1>6, <1>14, <3>1
  <2> QED BY <1>4, <1>9, <1>10, <1>11, <2>1, <2>2
<1>15. ASSUME w.queue = <<>>, NEW i \in DOMAIN t.queue, NEW j \in DOMAIN t.queue, i < j
       PROVE  Precedes(<<t.queue[i], t.now>>, <<t.queue[j], t.now>>)
  <2>1. t.queue = q \o r BY <1>4, <1>9, <1>11, <1>15
  <2>2. t.queue \in Seq(Callbacks(script)) /\ t.now \in Nat BY <1>0, <1>3, StateIs
  <2>3. /\ t.queue[i] \in Callbacks(script) /\ t.queue[j] \in Callbacks(script)
        /\ DOMAIN t.queue = 1..Len(t.queue) /\ Len(t.queue) \in Nat
    BY <2>2, SequenceIs
  <2>4. /\ DOMAIN q = 1..Len(q) /\ Len(q) \in Nat /\ DOMAIN r = 1..Len(r) /\ Len(r) \in Nat
    BY <1>9, <1>10, SequenceIs
  <2>5. /\ Len(t.queue) = Len(q) + Len(r)
        /\ \A n \in 1..Len(q) : t.queue[n] = q[n]
        /\ \A n \in (Len(q) + 1)..(Len(q) + Len(r)) : t.queue[n] = r[n - Len(q)]
    BY <1>9, <1>10, <2>1
  <2>6. \A n \in DOMAIN q : q[n][1] = "metro"
    <3> TAKE n \in DOMAIN q
    <3>1. \E x \in R : q[n] = <<"metro", x>> BY <1>9, Zenon DEF Has
    <3> QED BY <3>1
  <2>7. \A n \in DOMAIN r : r[n][1] = "thread"
    <3> TAKE n \in DOMAIN r
    <3>1. \E x \in K : r[n] = <<"thread", x>> BY <1>10, Zenon DEF Has
    <3> QED BY <3>1
  <2>8. \/ Rank(t.queue[i]) < Rank(t.queue[j])
        \/ Rank(t.queue[i]) = Rank(t.queue[j]) /\ t.queue[i][2] < t.queue[j][2]
    <3>1. i \in Nat /\ j \in Nat /\ i >= 1 /\ j <= Len(q) + Len(r) BY <2>3, <2>5
    <3>2. CASE j <= Len(q)
      <4>1. i \in DOMAIN q /\ j \in DOMAIN q /\ t.queue[i] = q[i] /\ t.queue[j] = q[j]
        BY <1>15, <2>4, <2>5, <3>1, <3>2
      <4>2. q[i][1] = "metro" /\ q[j][1] = "metro" /\ q[i][2] < q[j][2] BY <1>9, <1>15, <4>1
      <4> QED BY <2>3, <4>1, <4>2, RanksAre
    <3>3. CASE i > Len(q)
      <4>1. i - Len(q) \in DOMAIN r /\ j - Len(q) \in DOMAIN r /\ i - Len(q) < j - Len(q)
            /\ t.queue[i] = r[i - Len(q)] /\ t.queue[j] = r[j - Len(q)]
        <5>1. /\ i \in (Len(q) + 1)..(Len(q) + Len(r)) /\ j \in (Len(q) + 1)..(Len(q) + Len(r))
              /\ i - Len(q) \in 1..Len(r) /\ j - Len(q) \in 1..Len(r) /\ i - Len(q) < j - Len(q)
          BY <1>15, <2>4, <3>1, <3>3
        <5> QED BY <2>4, <2>5, <5>1
      <4>2. t.queue[i][1] = "thread" /\ t.queue[j][1] = "thread" /\ t.queue[i][2] < t.queue[j][2]
        BY <1>10, <4>1
      <4> QED BY <2>3, <4>2, RanksAre
    <3>4. CASE i <= Len(q) /\ j > Len(q)
      <4>1. i \in DOMAIN q /\ j - Len(q) \in DOMAIN r /\ t.queue[i] = q[i] /\ t.queue[j] = r[j - Len(q)]
        BY <2>4, <2>5, <3>1, <3>4
      <4>2. t.queue[i][1] = "metro" /\ t.queue[j][1] = "thread" BY <2>6, <2>7, <4>1
      <4>3. Rank(t.queue[i]) = 1 /\ Rank(t.queue[j]) = 2 BY <2>3, <4>2, RanksAre
      <4> QED BY <4>3
    <3> QED BY <2>4, <3>1, <3>2, <3>3, <3>4
  <2> QED BY <2>2, <2>3, <2>8, PrecedesIs
<1>16. Ticking(t) /\ t.now < CeilOf(t.nextTick, TickDen) BY <1>1, <1>2, <1>3 DEF Ticking
<1> QED BY <1>1, <1>2, <1>3, <1>13, <1>14, <1>15, <1>16

-----------------------------------------------------------------------------
(* A source that a step leaves as it is stands as it did.                   *)

LEMMA SameSource ==
  ASSUME NEW s, Timed(s), NEW w, NEW u, NEW e \in Callbacks(s),
         e[1] = "metro" => u.metros[e[2]] = w.metros[e[2]],
         e[1] = "thread" => u.slots[e[2]] = w.slots[e[2]]
  PROVE  /\ Upcoming(s, u, e) = Upcoming(s, w, e) /\ (Armed(u, e) <=> Armed(w, e))
         /\ (Heeded(u, e) <=> Heeded(w, e)) /\ (Counter(s, u, e) <=> Counter(s, w, e))
<1>1. CASE e[1] = "metro" BY <1>1 DEF Upcoming, Armed, Heeded, Counter
<1>2. CASE e[1] = "thread" BY <1>2 DEF Upcoming, Armed, Heeded, Counter
<1> QED BY <1>1, <1>2, CallbackIs

LEMMA SameStanding ==
  ASSUME NEW s, Timed(s), NEW w, NEW u, NEW e \in Callbacks(s), NEW struck,
         StandsAs(s, w, e, struck),
         e[1] = "metro" => u.metros[e[2]] = w.metros[e[2]],
         e[1] = "thread" => u.slots[e[2]] = w.slots[e[2]] /\ (InQueue(u, e) <=> InQueue(w, e)),
         u.now = w.now, \A t : Came(u, e, t) <=> Came(w, e, t)
  PROVE  StandsAs(s, u, e, struck)
<1>1. /\ Upcoming(s, u, e) = Upcoming(s, w, e) /\ (Armed(u, e) <=> Armed(w, e))
      /\ (Heeded(u, e) <=> Heeded(w, e)) /\ (Counter(s, u, e) <=> Counter(s, w, e))
  BY SameSource
<1>2. e[1] = "thread" => (InQueue(u, e) <=> InQueue(w, e)) OBVIOUS
<1>3. e[1] = "metro" => e[1] # "thread" OBVIOUS
<1> HIDE DEF Came
<1>4. CASE e[1] = "metro" BY <1>1, <1>3, <1>4 DEF StandsAs
<1>5. CASE e[1] = "thread" BY <1>1, <1>2, <1>5 DEF StandsAs
<1> QED BY <1>4, <1>5, CallbackIs

\* What goes off is not due again before the next time of its source.
LEMMA StandingStepped ==
  ASSUME NEW s, Timed(s), NEW w \in ClockStates(s), NEW t \in ClockStates(s), NEW e \in Callbacks(s),
         Standing(s, w, e), t.now = w.now, t.played = w.played,
         InQueue(t, e) <=> InQueue(w, e) \/ Rings(s, w, e),
         e[1] = "metro" =>
           t.metros[e[2]] =
             IF ~Due(s, w, e) THEN w.metros[e[2]]
             ELSE IF ~Rings(s, w, e) THEN [w.metros[e[2]] EXCEPT !.on = FALSE]
             ELSE [on |-> TRUE, due |-> w.metros[e[2]].due + s.metros[e[2]].period,
                   left |-> IF w.metros[e[2]].left = Endless THEN Endless
                            ELSE w.metros[e[2]].left - 1],
         e[1] = "thread" =>
           t.slots[e[2]] = IF Due(s, w, e) THEN [w.slots[e[2]] EXCEPT !.ready = FALSE]
                           ELSE w.slots[e[2]]
  PROVE  Standing(s, t, e) /\ ~Due(s, t, e)
<1> DEFINE b == Struck(s, w, e)
<1>1. Struck(s, t, e) = b
  <2>1. Fired(s, t) = Fired(s, w) BY DEF Fired
  <2> QED BY <2>1 DEF Struck
<1>2. StandsAs(s, w, e, b) BY DEF Standing
<1>3. \A x : HasPlayed(t, <<e, x>>) <=> HasPlayed(w, <<e, x>>) BY DEF HasPlayed
<1>4. w.now \in Nat /\ Upcoming(s, w, e) \in Nat BY TimedIsScripted, StateIs, SourceIs
<1> HIDE DEF b
<1>5. SUFFICES StandsAs(s, t, e, b) /\ ~Due(s, t, e) BY <1>1, <1>5 DEF Standing, b
<1>6. CASE ~Due(s, w, e)
  <2>1. /\ e[1] = "metro" => t.metros[e[2]] = w.metros[e[2]]
        /\ e[1] = "thread" => t.slots[e[2]] = w.slots[e[2]]
        /\ InQueue(t, e) <=> InQueue(w, e)
    BY <1>6 DEF Rings
  <2>2. /\ Upcoming(s, t, e) = Upcoming(s, w, e) /\ (Armed(t, e) <=> Armed(w, e))
        /\ (Heeded(t, e) <=> Heeded(w, e))
    BY <2>1, SameSource
  <2>3. \A x : Came(t, e, x) <=> Came(w, e, x) BY <1>3, <2>1, <2>2 DEF Came
  <2>4. StandsAs(s, t, e, b) BY <1>1, <1>2, <2>1, <2>3, SameStanding
  <2> QED BY <1>6, <2>2, <2>4 DEF Due
<1>7. CASE Due(s, w, e)
  <2>1. Armed(w, e) /\ ~b /\ Counter(s, w, e) /\ Upcoming(s, w, e) = w.now
    BY <1>2, <1>4, <1>7 DEF Due, StandsAs
  <2>2. PICK k \in Nat \ {0} :
           /\ Upcoming(s, w, e) = CallTime(s, e, k)
           /\ e[1] = "metro" =>
                /\ w.metros[e[2]].due = k * s.metros[e[2]].period
                /\ w.metros[e[2]].left # 0 <=> Numbered(s, e, k)
                /\ IF s.metros[e[2]].count = Endless THEN w.metros[e[2]].left = Endless
                   ELSE k <= s.metros[e[2]].count + 1
                        /\ w.metros[e[2]].left = s.metros[e[2]].count + 1 - k
           /\ e[1] = "thread" => w.slots[e[2]].at = k * s.threads[e[2]].every
    BY <2>1, CounterIs
  <2>3. \A x : Came(w, e, x) <=> x \in CallTimes(s, e) /\ x < w.now
    BY <1>2, <2>1 DEF StandsAs
  <2>4. \A x \in CallTimes(s, e) :
          /\ x < CallTime(s, e, k + 1) <=> x <= w.now
          /\ ~Numbered(s, e, k) => x < w.now
          /\ x \in Nat
    BY <2>1, <2>2, NextTime
  <2>5. w.now < CallTime(s, e, k + 1) /\ CallTime(s, e, k + 1) \in Nat
    BY <2>1, <2>2, TimesIncrease
  <2>6. Numbered(s, e, k) => w.now \in CallTimes(s, e) BY <2>1, <2>2 DEF CallTimes
  <2>7. CASE e[1] = "metro"
    <3> DEFINE p == s.metros[e[2]].period
    <3>1. /\ w.metros[e[2]] \in [on : BOOLEAN, due : Nat, left : Nat \cup {Endless}]
          /\ s.metros[e[2]].count \in Nat \cup {Endless} /\ p \in Nat \ {0} /\ e[1] # "thread"
      BY <2>7, SourceIs, CallbackIs
    <3>2. CASE Rings(s, w, e)
      <4>1. Numbered(s, e, k) /\ InQueue(t, e) /\ Heeded(t, e)
        BY <2>2, <2>7, <3>1, <3>2 DEF Rings, Heeded
      <4>2. t.metros[e[2]] =
              [on |-> TRUE, due |-> w.metros[e[2]].due + p,
               left |-> IF w.metros[e[2]].left = Endless THEN Endless ELSE w.metros[e[2]].left - 1]
        BY <1>7, <2>7, <3>2
      <4>3. t.metros[e[2]].on = TRUE /\ t.metros[e[2]].due = (k + 1) * p
        <5>1. (k + 1) * p = k * p + p BY <3>1
        <5> QED BY <2>2, <2>7, <4>2, <5>1
      <4>4. Armed(t, e) /\ Upcoming(s, t, e) = CallTime(s, e, k + 1)
        BY <2>7, <4>3 DEF Armed, Upcoming, CallTime
      <4>5. Counter(s, t, e)
        <5>1. k + 1 \in Nat \ {0} OBVIOUS
        <5>2. IF s.metros[e[2]].count = Endless THEN t.metros[e[2]].left = Endless
              ELSE k + 1 <= s.metros[e[2]].count + 1
                   /\ t.metros[e[2]].left = s.metros[e[2]].count + 1 - (k + 1)
          <6>1. CASE s.metros[e[2]].count = Endless BY <2>2, <2>7, <4>2, <6>1
          <6>2. CASE s.metros[e[2]].count # Endless
            <7>1. k <= s.metros[e[2]].count /\ s.metros[e[2]].count \in Nat
              BY <2>7, <3>1, <4>1, <6>2 DEF Numbered
            <7>2. w.metros[e[2]].left = s.metros[e[2]].count + 1 - k BY <2>2, <2>7, <6>2
            <7>3. w.metros[e[2]].left # Endless BY <7>1, <7>2 DEF Endless
            <7>4. t.metros[e[2]].left = w.metros[e[2]].left - 1 BY <4>2, <7>3
            <7> QED BY <6>2, <7>1, <7>2, <7>4
          <6> QED BY <6>1, <6>2
        <5> QED BY <2>7, <4>3, <5>1, <5>2 DEF Counter
      <4>6. \A x : Came(t, e, x) <=> Came(w, e, x) \/ x = w.now
        BY <1>3, <4>1, <3>1 DEF Came, Heeded
      <4>7. \A x : Came(t, e, x) <=> x \in CallTimes(s, e) /\ x < CallTime(s, e, k + 1)
        <5>1. \A x \in CallTimes(s, e) : x <= w.now <=> x < w.now \/ x = w.now BY <1>4, <2>4
        <5> QED BY <2>3, <2>4, <2>6, <4>1, <4>6, <5>1
      <4>8. ~Due(s, t, e) BY <1>4, <2>5, <4>4 DEF Due
      <4>9. t.now <= Upcoming(s, t, e) BY <1>4, <2>5, <4>4
      <4> QED BY <2>1, <2>7, <3>1, <4>4, <4>5, <4>7, <4>8, <4>9 DEF StandsAs
    <3>3. CASE ~Rings(s, w, e)
      <4>1. ~Numbered(s, e, k) BY <1>7, <2>2, <2>7, <3>3 DEF Rings
      <4>2. t.metros[e[2]].on = FALSE BY <1>7, <2>7, <3>1, <3>3
      <4>3. ~Armed(t, e) BY <2>7, <4>2 DEF Armed
      <4>4. \A x : Came(t, e, x) <=> Came(w, e, x)
        BY <1>3, <3>1, <3>3 DEF Came, Heeded
      <4>5. \A x \in CallTimes(s, e) : x < w.now /\ x <= w.now BY <1>4, <2>4, <4>1
      <4>6. \A x : Came(t, e, x) <=> x \in CallTimes(s, e) /\ x <= t.now
        BY <2>3, <4>4, <4>5
      <4> QED BY <2>1, <2>7, <3>1, <4>3, <4>5, <4>6 DEF StandsAs, Due
    <3> QED BY <3>2, <3>3
  <2>8. CASE e[1] = "thread"
    <3>1. /\ w.slots[e[2]] \in [alive : BOOLEAN, ready : BOOLEAN, at : Nat] /\ e[1] # "metro"
      BY <2>8, SourceIs
    <3>2. t.slots[e[2]] = [w.slots[e[2]] EXCEPT !.ready = FALSE] BY <1>7, <2>8
    <3>3. /\ t.slots[e[2]].ready = FALSE /\ t.slots[e[2]].at = w.slots[e[2]].at
          /\ t.slots[e[2]].alive = w.slots[e[2]].alive
      BY <3>1, <3>2
    <3>4. ~Armed(t, e) /\ Upcoming(s, t, e) = w.now /\ (Heeded(t, e) <=> Heeded(w, e))
      BY <2>1, <2>8, <3>1, <3>3 DEF Armed, Upcoming, Heeded
    <3>5. Counter(s, t, e) BY <2>2, <2>8, <3>1, <3>3 DEF Counter
    <3>6. Heeded(w, e) BY <1>2, <2>1, <2>8 DEF StandsAs
    <3>7. InQueue(t, e) BY <1>7, <3>1 DEF Rings
    <3>8. w.now \in CallTimes(s, e) BY <2>6, <3>1 DEF Numbered
    <3>9. \A x : Came(t, e, x) <=> Came(w, e, x) \/ x = w.now
      BY <1>3, <3>4, <3>6, <3>7 DEF Came
    <3>10. \A x : Came(t, e, x) <=> x \in CallTimes(s, e) /\ x <= t.now
      <4>1. \A x \in CallTimes(s, e) : x <= w.now <=> x < w.now \/ x = w.now BY <1>4, <2>4
      <4> QED BY <1>4, <2>3, <3>8, <3>9, <4>1
    <3> QED BY <2>1, <2>8, <3>1, <3>4, <3>5, <3>6, <3>7, <3>10 DEF StandsAs, Due
  <2> QED BY <2>7, <2>8, CallbackIs
<1> QED BY <1>6, <1>7

-----------------------------------------------------------------------------
(* An iteration up to the queue: everything of this moment is queued.       *)

LEMMA GoodFields ==
  ASSUME NEW s, Timed(s), NEW w, Good(s, w)
  PROVE  /\ Scripted(s) /\ w \in ClockStates(s) /\ w.now \in Nat
         /\ w.queue \in Seq(Callbacks(s)) /\ DOMAIN w.queue = 1..Len(w.queue) /\ Len(w.queue) \in Nat
         /\ \A i \in DOMAIN w.queue : w.queue[i] \in Callbacks(s)
         /\ w.played \in Seq(ClockCalls(s)) /\ DOMAIN w.played = 1..Len(w.played) /\ Len(w.played) \in Nat
         /\ \A i \in DOMAIN w.played :
              /\ w.played[i] = <<w.played[i][1], w.played[i][2]>>
              /\ w.played[i][1] \in ({"input"} \X Nat) \cup Callbacks(s) /\ w.played[i][2] \in Nat
         /\ w.inputs \in Seq(Nat) /\ DOMAIN w.inputs = 1..Len(w.inputs) /\ Len(w.inputs) \in Nat
         /\ s.inputs \in Seq(Nat) /\ DOMAIN s.inputs = 1..Len(s.inputs) /\ Len(s.inputs) \in Nat
         /\ \A i \in DOMAIN s.inputs : s.inputs[i] \in Nat
<1>1. Scripted(s) /\ w \in ClockStates(s) BY TimedIsScripted DEF Good
<1>2. w.now \in Nat /\ w.queue \in Seq(Callbacks(s)) /\ w.played \in Seq(ClockCalls(s)) /\ w.inputs \in Seq(Nat)
  BY <1>1, StateIs
<1>3. /\ DOMAIN w.queue = 1..Len(w.queue) /\ Len(w.queue) \in Nat
      /\ \A i \in DOMAIN w.queue : w.queue[i] \in Callbacks(s)
  BY <1>2, SequenceIs
<1>4. /\ DOMAIN w.played = 1..Len(w.played) /\ Len(w.played) \in Nat
      /\ \A i \in DOMAIN w.played : w.played[i] \in ClockCalls(s)
  BY <1>2, SequenceIs
<1>5. DOMAIN w.inputs = 1..Len(w.inputs) /\ Len(w.inputs) \in Nat BY <1>2, SequenceIs
<1>6. s.inputs \in Seq(Nat) BY Zenon DEF Timed
<1>7. /\ DOMAIN s.inputs = 1..Len(s.inputs) /\ Len(s.inputs) \in Nat
      /\ \A i \in DOMAIN s.inputs : s.inputs[i] \in Nat
  BY <1>6, SequenceIs
<1>8. \A c \in ClockCalls(s) :
        /\ c = <<c[1], c[2]>> /\ c[1] \in ({"input"} \X Nat) \cup Callbacks(s) /\ c[2] \in Nat
  BY DEF ClockCalls
<1> QED BY <1>1, <1>2, <1>3, <1>4, <1>5, <1>6, <1>7, <1>8

LEMMA InputsAscend ==
  ASSUME NEW s, Timed(s), NEW w, Good(s, w), NEW i \in 1..Len(w.inputs), NEW j \in 1..Len(w.inputs), i <= j
  PROVE  w.inputs[i] <= w.inputs[j] /\ w.inputs[i] \in Nat /\ w.inputs[j] \in Nat
<1>1. /\ Len(w.inputs) \in Nat /\ DOMAIN s.inputs = 1..Len(s.inputs) /\ Len(s.inputs) \in Nat
      /\ \A n \in DOMAIN s.inputs : s.inputs[n] \in Nat
  BY GoodFields
<1>2. /\ Len(w.inputs) <= Len(s.inputs)
      /\ \A n \in 1..Len(w.inputs) : w.inputs[n] = s.inputs[Len(s.inputs) - Len(w.inputs) + n]
  BY DEF Good, InputsFed
<1> DEFINE k == Len(s.inputs) - Len(w.inputs) + i
           m == Len(s.inputs) - Len(w.inputs) + j
<1>3. k \in DOMAIN s.inputs /\ m \in DOMAIN s.inputs /\ (k < m \/ k = m)
  <2>1. ASSUME NEW a \in Nat, NEW b \in Nat, b <= a, NEW x \in 1..b, NEW y \in 1..b, x <= y
        PROVE  a - b + x \in 1..a /\ a - b + y \in 1..a /\ (a - b + x < a - b + y \/ a - b + x = a - b + y)
    BY <2>1
  <2>2. k \in 1..Len(s.inputs) /\ m \in 1..Len(s.inputs) /\ (k < m \/ k = m)
    BY <1>1, <1>2, <2>1
  <2> QED BY <1>1, <2>2
<1>4. w.inputs[i] = s.inputs[k] /\ w.inputs[j] = s.inputs[m] BY <1>2
<1> HIDE DEF k, m
<1>5. s.inputs[k] <= s.inputs[m] /\ s.inputs[k] \in Nat /\ s.inputs[m] \in Nat
  <2>1. k < m => s.inputs[k] <= s.inputs[m] BY <1>3 DEF Timed
  <2> QED BY <1>1, <1>3, <2>1
<1> QED BY <1>4, <1>5

LEMMA GoodStepped ==
  ASSUME Timed(script), NEW w, Good(script, w), ~\E j \in 1..Len(w.inputs) : w.inputs[j] <= w.now,
         NEW t, t = Stepped(w)
  PROVE  /\ Good(script, t) /\ ~Awaits(script, t) /\ t.now < CeilOf(t.nextTick, TickDen)
         /\ t.now = w.now /\ t.target = w.target /\ t.work = w.work
         /\ t.failed = w.failed /\ t.inputs = w.inputs /\ t.played = w.played
<1> DEFINE s == script
<1>1. /\ Scripted(s) /\ w \in ClockStates(s) /\ w.now \in Nat
      /\ \A i \in DOMAIN w.queue : w.queue[i] \in Callbacks(s)
      /\ DOMAIN w.played = 1..Len(w.played) /\ Len(w.played) \in Nat
      /\ \A i \in DOMAIN w.played :
           /\ w.played[i] = <<w.played[i][1], w.played[i][2]>>
           /\ w.played[i][1] \in ({"input"} \X Nat) \cup Callbacks(s) /\ w.played[i][2] \in Nat
  BY GoodFields
<1>2. Ticking(w) /\ InputsFed(s, w) /\ InTurn(w) /\ Fresh(s, w) /\ \A e \in Callbacks(s) : Standing(s, w, e)
  BY DEF Good
<1>3. /\ t \in ClockStates(s) /\ t.now = w.now /\ t.target = w.target /\ t.work = w.work
      /\ t.failed = w.failed /\ t.inputs = w.inputs /\ t.played = w.played
      /\ Ticking(t) /\ t.now < CeilOf(t.nextTick, TickDen)
      /\ \A e \in Callbacks(s) :
           /\ InQueue(t, e) <=> InQueue(w, e) \/ Rings(s, w, e)
           /\ e[1] = "metro" =>
                t.metros[e[2]] =
                  IF ~Due(s, w, e) THEN w.metros[e[2]]
                  ELSE IF ~Rings(s, w, e) THEN [w.metros[e[2]] EXCEPT !.on = FALSE]
                  ELSE [on |-> TRUE, due |-> w.metros[e[2]].due + s.metros[e[2]].period,
                        left |-> IF w.metros[e[2]].left = Endless THEN Endless
                                 ELSE w.metros[e[2]].left - 1]
           /\ e[1] = "thread" =>
                t.slots[e[2]] = IF Due(s, w, e) THEN [w.slots[e[2]] EXCEPT !.ready = FALSE]
                                ELSE w.slots[e[2]]
      /\ (\A e \in Callbacks(s) : ~Rings(s, w, e)) => t.queue = w.queue
      /\ w.queue = <<>> => \A i, j \in DOMAIN t.queue : i < j =>
           Precedes(<<t.queue[i], t.now>>, <<t.queue[j], t.now>>)
  BY <1>1, <1>2, SteppedIs
<1> HIDE DEF s
<1>4. Timed(s) BY DEF s
<1>5. \A e \in Callbacks(s) : Standing(s, t, e) /\ ~Due(s, t, e)
  <2> TAKE e \in Callbacks(s)
  <2>1. /\ InQueue(t, e) <=> InQueue(w, e) \/ Rings(s, w, e)
        /\ e[1] = "metro" =>
             t.metros[e[2]] =
               IF ~Due(s, w, e) THEN w.metros[e[2]]
               ELSE IF ~Rings(s, w, e) THEN [w.metros[e[2]] EXCEPT !.on = FALSE]
               ELSE [on |-> TRUE, due |-> w.metros[e[2]].due + s.metros[e[2]].period,
                     left |-> IF w.metros[e[2]].left = Endless THEN Endless
                              ELSE w.metros[e[2]].left - 1]
        /\ e[1] = "thread" =>
             t.slots[e[2]] = IF Due(s, w, e) THEN [w.slots[e[2]] EXCEPT !.ready = FALSE]
                             ELSE w.slots[e[2]]
    BY <1>3
  <2>2. Standing(s, w, e) /\ w \in ClockStates(s) /\ t \in ClockStates(s) /\ t.now = w.now
        /\ t.played = w.played
    BY <1>1, <1>2, <1>3
  <2> QED BY <1>4, <2>1, <2>2, StandingStepped
<1>6. ~Awaits(s, t)
  <2>1. ~\E e \in Callbacks(s) : Armed(t, e) /\ Upcoming(s, t, e) <= t.now BY <1>5 DEF Due
  <2> QED BY <1>3, <2>1 DEF Awaits
<1>7. InputsFed(s, t) BY <1>2, <1>3 DEF InputsFed, HasPlayed
<1>8. /\ \A i \in DOMAIN t.played, j \in DOMAIN t.queue : Precedes(t.played[i], <<t.queue[j], t.now>>)
      /\ \A i, j \in DOMAIN t.queue : i < j =>
           Precedes(<<t.queue[i], t.now>>, <<t.queue[j], t.now>>)
  <2>1. CASE \A e \in Callbacks(s) : ~Rings(s, w, e)
    <3>1. t.queue = w.queue /\ t.now = w.now /\ t.played = w.played BY <1>3, <2>1
    <3> QED BY <1>2, <3>1 DEF InTurn
  <2>2. CASE \E e \in Callbacks(s) : Rings(s, w, e)
    <3>1. Awaits(s, w) BY <2>2 DEF Rings, Due, Awaits
    <3>2. w.queue = <<>> /\ \A i \in DOMAIN w.played : w.played[i][2] = w.now => w.played[i][1][1] = "input"
      BY <1>2, <3>1 DEF Fresh
    <3>3. ASSUME NEW i \in DOMAIN t.played, NEW j \in DOMAIN t.queue
          PROVE  Precedes(t.played[i], <<t.queue[j], t.now>>)
      <4> DEFINE c == t.played[i]
                 f == t.queue[j]
      <4>1. /\ c = <<c[1], c[2]>> /\ c[1] \in ({"input"} \X Nat) \cup Callbacks(s) /\ c[2] \in Nat
            /\ c[2] <= w.now
            /\ c[2] = w.now => c[1][1] = "input"
        BY <1>1, <1>2, <1>3, <3>2 DEF InTurn
      <4>2. f \in Callbacks(s)
        <5>1. t.queue \in Seq(Callbacks(s)) BY <1>1, <1>3, StateIs
        <5> QED BY <5>1, SequenceIs
      <4> HIDE DEF c, f
      <4>3. f \in ({"input"} \X Nat) \cup Callbacks(s) BY <4>2
      <4>4. Rank(f) \in Nat /\ 0 < Rank(f) BY <1>4, <4>2, <4>3, RanksAre
      <4>5. c[2] = w.now => Rank(c[1]) = 0 BY <1>4, <4>1, RanksAre
      <4>6. c[2] < w.now \/ (c[2] = w.now /\ Rank(c[1]) < Rank(f)) BY <1>1, <4>1, <4>4, <4>5
      <4>7. Precedes(<<c[1], c[2]>>, <<f, w.now>>) BY <1>1, <1>4, <4>1, <4>3, <4>6, PrecedesIs
      <4> QED BY <1>3, <4>1, <4>7 DEF c, f
    <3> QED BY <1>3, <3>2, <3>3
  <2> QED BY <2>1, <2>2
<1>9. InTurn(t) BY <1>2, <1>3, <1>8 DEF InTurn
<1>10. Fresh(s, t) BY <1>6 DEF Fresh
<1>11. Good(s, t) BY <1>3, <1>5, <1>7, <1>9, <1>10 DEF Good
<1> QED BY <1>3, <1>6, <1>11 DEF s

-----------------------------------------------------------------------------
(* One event of the queue.                                                  *)

LEMMA TailHas ==
  ASSUME NEW C, NEW q \in Seq(C), q # <<>>, \A i, j \in DOMAIN q : i < j => q[i] # q[j]
  PROVE  /\ Head(q) \in C /\ Head(q) = q[1] /\ 1 \in DOMAIN q /\ Tail(q) \in Seq(C)
         /\ \A i \in DOMAIN Tail(q) : i \in Nat /\ i + 1 \in DOMAIN q /\ 1 < i + 1 /\ Tail(q)[i] = q[i + 1]
         /\ \A x : Has(Tail(q), x) <=> Has(q, x) /\ x # Head(q)
<1> DEFINE r == Tail(q)
<1>1. /\ DOMAIN q = 1..Len(q) /\ Len(q) \in Nat \ {0} /\ r \in Seq(C) /\ Head(q) = q[1] /\ q[1] \in C
      /\ DOMAIN r = 1..(Len(q) - 1) /\ \A i \in 1..(Len(q) - 1) : r[i] = q[i + 1]
  OBVIOUS
<1> HIDE DEF r
<1>2. \A i \in DOMAIN r : i \in Nat /\ i + 1 \in DOMAIN q /\ 1 < i + 1 /\ r[i] = q[i + 1] BY <1>1
<1>3. 1 \in DOMAIN q BY <1>1
<1>4. ASSUME NEW i \in DOMAIN q PROVE i = 1 \/ (\E j \in DOMAIN r : r[j] = q[i])
  <2>1. CASE i # 1
    <3>1. i - 1 \in DOMAIN r /\ (i - 1) + 1 = i BY <1>1, <2>1
    <3>2. r[i - 1] = q[(i - 1) + 1] BY <1>2, <3>1
    <3> QED BY <3>1, <3>2
  <2> QED BY <2>1
<1>5. \A i \in DOMAIN r : r[i] # Head(q) BY <1>1, <1>2, <1>3
<1>6. \A x : Has(r, x) <=> Has(q, x) /\ x # Head(q)
  <2> TAKE x
  <2>1. ASSUME Has(r, x) PROVE Has(q, x) /\ x # Head(q) BY <1>2, <1>5, <2>1 DEF Has
  <2>2. ASSUME Has(q, x), x # Head(q) PROVE Has(r, x)
    <3>1. PICK i \in DOMAIN q : q[i] = x BY <2>2 DEF Has
    <3>2. i # 1 BY <1>1, <2>2, <3>1
    <3> QED BY <1>4, <3>1, <3>2 DEF Has
  <2> QED BY <2>1, <2>2
<1> QED BY <1>1, <1>2, <1>3, <1>6 DEF r

LEMMA AppendHas ==
  ASSUME NEW C, NEW q \in Seq(C), NEW c \in C
  PROVE  /\ Append(q, c) \in Seq(C) /\ Len(q) \in Nat /\ DOMAIN q = 1..Len(q)
         /\ DOMAIN Append(q, c) = 1..(Len(q) + 1)
         /\ \A i \in 1..Len(q) : i \in DOMAIN Append(q, c) /\ Append(q, c)[i] = q[i]
         /\ Append(q, c)[Len(q) + 1] = c
         /\ \A x : Has(Append(q, c), x) <=> Has(q, x) \/ x = c
<1> DEFINE r == Append(q, c)
<1>1. /\ r \in Seq(C) /\ Len(q) \in Nat /\ DOMAIN q = 1..Len(q)
      /\ DOMAIN r = 1..(Len(q) + 1)
      /\ \A i \in 1..Len(q) : r[i] = q[i]
      /\ r[Len(q) + 1] = c
  OBVIOUS
<1> HIDE DEF r
<1>2. \A i \in DOMAIN r : i \in DOMAIN q \/ i = Len(q) + 1 BY <1>1
<1>3. \A i \in DOMAIN q : i \in DOMAIN r BY <1>1
<1>4. Len(q) + 1 \in DOMAIN r BY <1>1
<1>5. \A x : Has(r, x) <=> Has(q, x) \/ x = c BY <1>1, <1>2, <1>3, <1>4 DEF Has
<1> QED BY <1>1, <1>3, <1>5 DEF r

Event(v) == Head(v.queue)
Ignores(v) == Event(v)[1] = "thread" /\ ~v.slots[Event(v)[2]].alive
Popped(v) == [v EXCEPT !.queue = Tail(@)]
Called(v) == [Popped(v) EXCEPT !.played = Append(@, <<Event(v), v.now>>)]
Again(v) == IF Event(v)[1] = "thread" THEN Rescheduled(Called(v), Event(v)[2]) ELSE Called(v)
Cancels(v) ==
  /\ script.cancel # <<>> /\ script.cancel[1] = Event(v)
  /\ \A i \in DOMAIN v.played : v.played[i][1] # Event(v)

LEMMA HandledIs ==
  ASSUME Scripted(script), NEW v \in ClockStates(script)
  PROVE  Handled(v) = IF Ignores(v) THEN Popped(v)
                      ELSE IF Cancels(v) THEN Cancelled(Again(v), script.cancel[2])
                      ELSE Again(v)
BY Zenon DEF Handled, Ignores, Cancels, Again, Event, Popped, Called

LEMMA PoppedIs ==
  ASSUME NEW s, Scripted(s), NEW v \in ClockStates(s), v.queue # <<>>, NEW p, p = Popped(v)
  PROVE  /\ p \in ClockStates(s) /\ p.queue = Tail(v.queue)
         /\ p.now = v.now /\ p.target = v.target /\ p.work = v.work /\ p.failed = v.failed
         /\ p.ticks = v.ticks /\ p.last = v.last /\ p.nextTick = v.nextTick
         /\ p.inputs = v.inputs /\ p.metros = v.metros /\ p.slots = v.slots /\ p.played = v.played
<1> DEFINE q == Tail(v.queue)
<1>1. q \in Seq(Callbacks(s))
  <2>1. v.queue \in Seq(Callbacks(s)) BY StateIs
  <2> QED BY <2>1
<1>2. p = [v EXCEPT !.queue = q] BY DEF Popped, ClockStates
<1> HIDE DEF q
<1>3. p \in ClockStates(s) BY <1>1, <1>2 DEF ClockStates
<1>4. /\ p.queue = q
      /\ p.now = v.now /\ p.target = v.target /\ p.work = v.work /\ p.failed = v.failed
      /\ p.ticks = v.ticks /\ p.last = v.last /\ p.nextTick = v.nextTick
      /\ p.inputs = v.inputs /\ p.metros = v.metros /\ p.slots = v.slots /\ p.played = v.played
  BY <1>2 DEF ClockStates
<1> QED BY <1>3, <1>4 DEF q

AgainFits(v, g) ==
  /\ g \in ClockStates(script) /\ g.queue = Tail(v.queue)
  /\ g.played = Append(v.played, <<Event(v), v.now>>) /\ Event(v) \in Callbacks(script)
  /\ g.now = v.now /\ g.target = v.target /\ g.work = v.work /\ g.failed = v.failed
  /\ g.ticks = v.ticks /\ g.last = v.last /\ g.nextTick = v.nextTick
  /\ g.inputs = v.inputs /\ g.metros = v.metros
  /\ \A i \in DOMAIN script.threads :
       /\ Event(v) = <<"thread", i>> =>
            /\ g.slots[i].alive = v.slots[i].alive /\ g.slots[i].ready = TRUE
            /\ g.slots[i].at = (IF script.threads[i].kind = "sleep" THEN v.now ELSE v.slots[i].at)
                 + script.threads[i].every
       /\ Event(v) # <<"thread", i>> => g.slots[i] = v.slots[i]

LEMMA AgainIs ==
  ASSUME Scripted(script), NEW v \in ClockStates(script), v.queue # <<>>, NEW g, g = Again(v)
  PROVE  AgainFits(v, g)
<1> DEFINE p == Popped(v)
           c == <<Event(v), v.now>>
           r == Append(v.played, c)
           d == Called(v)
<1>1. /\ p \in ClockStates(script) /\ p.queue = Tail(v.queue)
      /\ p.now = v.now /\ p.target = v.target /\ p.work = v.work /\ p.failed = v.failed
      /\ p.ticks = v.ticks /\ p.last = v.last /\ p.nextTick = v.nextTick
      /\ p.inputs = v.inputs /\ p.metros = v.metros /\ p.slots = v.slots /\ p.played = v.played
  BY PoppedIs
<1>2. /\ v.queue \in Seq(Callbacks(script)) /\ v.now \in Nat /\ v.played \in Seq(ClockCalls(script))
      /\ v.slots \in [DOMAIN script.threads -> [alive : BOOLEAN, ready : BOOLEAN, at : Nat]]
  BY StateIs
<1>3. Event(v) \in Callbacks(script) BY <1>2 DEF Event
<1>4. c \in ClockCalls(script) BY <1>2, <1>3 DEF ClockCalls
<1>5. r \in Seq(ClockCalls(script))
  <2> HIDE DEF c
  <2> QED BY <1>2, <1>4, AppendHas
<1>6. d = [p EXCEPT !.played = r] BY <1>1 DEF Called, ClockStates
<1> HIDE DEF p, r
<1>7. d \in ClockStates(script) BY <1>1, <1>5, <1>6 DEF ClockStates
<1>8. /\ d.queue = Tail(v.queue) /\ d.played = r
      /\ d.now = v.now /\ d.target = v.target /\ d.work = v.work /\ d.failed = v.failed
      /\ d.ticks = v.ticks /\ d.last = v.last /\ d.nextTick = v.nextTick
      /\ d.inputs = v.inputs /\ d.metros = v.metros /\ d.slots = v.slots
  BY <1>1, <1>6 DEF ClockStates
<1> HIDE DEF d
<1>9. CASE Event(v)[1] # "thread"
  <2>1. g = d BY <1>9 DEF Again, d
  <2>2. \A i : Event(v) # <<"thread", i>> BY <1>9
  <2> QED BY <1>3, <1>7, <1>8, <2>1, <2>2 DEF r, AgainFits
<1>10. CASE Event(v)[1] = "thread"
  <2> DEFINE i == Event(v)[2]
             x == (IF script.threads[i].kind = "sleep" THEN v.now ELSE v.slots[i].at)
                  + script.threads[i].every
             y == [v.slots[i] EXCEPT !.ready = TRUE, !.at = x]
  <2>1. Event(v) = <<"thread", i>> /\ i \in DOMAIN script.threads
    <3>1. CASE \E n \in DOMAIN script.metros : Event(v) = <<"metro", n>> BY <1>10, <3>1
    <3>2. CASE \E n \in DOMAIN script.threads : Event(v) = <<"thread", n>> BY <3>2
    <3> QED BY <1>3, <3>1, <3>2 DEF Callbacks
  <2>2. script.threads[i] \in [kind : {"sleep", "sync"}, every : Nat]
    <3>1. script.threads \in Seq([kind : {"sleep", "sync"}, every : Nat]) BY Zenon DEF Scripted
    <3> QED BY <2>1, <3>1, SequenceIs
  <2>3. v.slots[i] \in [alive : BOOLEAN, ready : BOOLEAN, at : Nat] BY <1>2, <2>1
  <2>4. x \in Nat BY <1>2, <2>2, <2>3
  <2>5. g = [d EXCEPT !.slots[i] = [@ EXCEPT !.ready = TRUE, !.at = x]]
    BY <1>8, <1>10, Zenon DEF Again, Rescheduled, d
  <2> HIDE DEF x, i
  <2>6. [d EXCEPT !.slots[i] = [@ EXCEPT !.ready = TRUE, !.at = x]]
          = [d EXCEPT !.slots = [v.slots EXCEPT ![i] = y]]
    <3>2. [d EXCEPT !.slots[i] = [@ EXCEPT !.ready = TRUE, !.at = x]]
            = [d EXCEPT !.slots = [d.slots EXCEPT ![i] = [d.slots[i] EXCEPT !.ready = TRUE, !.at = x]]]
      BY <1>7 DEF ClockStates
    <3> QED BY <1>8, <3>2
  <2> DEFINE z == [v.slots EXCEPT ![i] = y]
  <2>7. /\ y \in [alive : BOOLEAN, ready : BOOLEAN, at : Nat]
        /\ y.alive = v.slots[i].alive /\ y.ready = TRUE /\ y.at = x
    BY <2>3, <2>4
  <2> HIDE DEF y
  <2>8. z \in [DOMAIN script.threads -> [alive : BOOLEAN, ready : BOOLEAN, at : Nat]]
        /\ \A n \in DOMAIN script.threads : z[n] = IF n = i THEN y ELSE v.slots[n]
    BY <1>2, <2>1, <2>7
  <2>9. g = [d EXCEPT !.slots = z] BY <2>5, <2>6
  <2> HIDE DEF z
  <2>10. g \in ClockStates(script) BY <1>7, <2>8, <2>9 DEF ClockStates
  <2>11. /\ g.queue = Tail(v.queue) /\ g.played = r
         /\ g.now = v.now /\ g.target = v.target /\ g.work = v.work /\ g.failed = v.failed
         /\ g.ticks = v.ticks /\ g.last = v.last /\ g.nextTick = v.nextTick
         /\ g.inputs = v.inputs /\ g.metros = v.metros /\ g.slots = z
    BY <1>7, <1>8, <2>9 DEF ClockStates
  <2>12. \A n : Event(v) = <<"thread", n>> <=> n = i BY <2>1
  <2>13. \A n \in DOMAIN script.threads :
           /\ Event(v) = <<"thread", n>> =>
                /\ g.slots[n].alive = v.slots[n].alive /\ g.slots[n].ready = TRUE
                /\ g.slots[n].at = (IF script.threads[n].kind = "sleep" THEN v.now ELSE v.slots[n].at)
                     + script.threads[n].every
           /\ Event(v) # <<"thread", n>> => g.slots[n] = v.slots[n]
    <3> TAKE n \in DOMAIN script.threads
    <3>1. CASE n = i
      <4>1. g.slots[n] = y BY <2>8, <2>11, <3>1
      <4> QED BY <2>1, <2>7, <3>1, <4>1 DEF x
    <3>2. CASE n # i BY <2>8, <2>11, <2>12, <3>2
    <3> QED BY <3>1, <3>2
  <2> QED BY <1>3, <2>10, <2>11, <2>13 DEF r, AgainFits
<1> QED BY <1>9, <1>10

LEMMA CancelledIs ==
  ASSUME NEW s, Timed(s), NEW g \in ClockStates(s), NEW x \in Callbacks(s), NEW u, u = Cancelled(g, x)
  PROVE  /\ u \in ClockStates(s) /\ u.queue = g.queue /\ u.played = g.played
         /\ u.now = g.now /\ u.target = g.target /\ u.work = g.work /\ u.failed = g.failed
         /\ u.ticks = g.ticks /\ u.last = g.last /\ u.nextTick = g.nextTick /\ u.inputs = g.inputs
         /\ ~Armed(u, x) /\ (x[1] = "thread" => ~Heeded(u, x))
         /\ \A e \in Callbacks(s) : e # x =>
              /\ e[1] = "metro" => u.metros[e[2]] = g.metros[e[2]]
              /\ e[1] = "thread" => u.slots[e[2]] = g.slots[e[2]]
<1>1. /\ g.metros \in [DOMAIN s.metros -> [on : BOOLEAN, due : Nat, left : Nat \cup {Endless}]]
      /\ g.slots \in [DOMAIN s.threads -> [alive : BOOLEAN, ready : BOOLEAN, at : Nat]]
  BY TimedIsScripted, StateIs
<1>2. \A e \in Callbacks(s) : e[1] = x[1] /\ e[2] = x[2] => e = x
  <2> TAKE e \in Callbacks(s)
  <2>1. e = <<e[1], e[2]>> /\ x = <<x[1], x[2]>> BY CallbackIs
  <2> QED BY <2>1
<1>3. CASE x[1] = "metro"
  <2> DEFINE i == x[2]
             y == [g.metros[i] EXCEPT !.on = FALSE]
             z == [g.metros EXCEPT ![i] = y]
  <2>1. i \in DOMAIN s.metros /\ x[1] # "thread" BY <1>3, CallbackIs
  <2>2. u = [g EXCEPT !.metros = z] BY <1>3 DEF Cancelled, ClockStates
  <2>3. g.metros[i] \in [on : BOOLEAN, due : Nat, left : Nat \cup {Endless}] BY <1>1, <2>1
  <2>4. y \in [on : BOOLEAN, due : Nat, left : Nat \cup {Endless}] /\ y.on = FALSE BY <2>3
  <2> HIDE DEF y
  <2>5. z \in [DOMAIN s.metros -> [on : BOOLEAN, due : Nat, left : Nat \cup {Endless}]]
        /\ \A n \in DOMAIN s.metros : z[n] = IF n = i THEN y ELSE g.metros[n]
    BY <1>1, <2>1, <2>4
  <2> HIDE DEF z
  <2>6. u \in ClockStates(s) BY <2>2, <2>5 DEF ClockStates
  <2>7. /\ u.queue = g.queue /\ u.played = g.played
        /\ u.now = g.now /\ u.target = g.target /\ u.work = g.work /\ u.failed = g.failed
        /\ u.ticks = g.ticks /\ u.last = g.last /\ u.nextTick = g.nextTick /\ u.inputs = g.inputs
        /\ u.slots = g.slots /\ u.metros = z
    BY <2>2 DEF ClockStates
  <2>8. u.metros[i].on = FALSE BY <2>1, <2>4, <2>5, <2>7
  <2>9. ~Armed(u, x) BY <1>3, <2>8 DEF Armed
  <2>10. ASSUME NEW e \in Callbacks(s), e # x
         PROVE  /\ e[1] = "metro" => u.metros[e[2]] = g.metros[e[2]]
                /\ e[1] = "thread" => u.slots[e[2]] = g.slots[e[2]]
    <3>1. e[1] = "metro" => e[2] \in DOMAIN s.metros /\ e[2] # i BY <1>2, <1>3, <2>10, CallbackIs
    <3> QED BY <2>5, <2>7, <3>1
  <2> QED BY <2>1, <2>6, <2>7, <2>9, <2>10
<1>4. CASE x[1] = "thread"
  <2> DEFINE i == x[2]
             y == [g.slots[i] EXCEPT !.alive = FALSE, !.ready = FALSE]
             z == [g.slots EXCEPT ![i] = y]
  <2>1. i \in DOMAIN s.threads /\ x[1] # "metro" BY <1>4, CallbackIs
  <2>2. u = [g EXCEPT !.slots = z]
    <3>1. u = [g EXCEPT !.slots[i] = [@ EXCEPT !.alive = FALSE, !.ready = FALSE]]
      BY <2>1, Zenon DEF Cancelled
    <3> QED BY <3>1 DEF ClockStates
  <2>3. g.slots[i] \in [alive : BOOLEAN, ready : BOOLEAN, at : Nat] BY <1>1, <2>1
  <2>4. y \in [alive : BOOLEAN, ready : BOOLEAN, at : Nat] /\ y.alive = FALSE /\ y.ready = FALSE
    BY <2>3
  <2> HIDE DEF y
  <2>5. z \in [DOMAIN s.threads -> [alive : BOOLEAN, ready : BOOLEAN, at : Nat]]
        /\ \A n \in DOMAIN s.threads : z[n] = IF n = i THEN y ELSE g.slots[n]
    BY <1>1, <2>1, <2>4
  <2> HIDE DEF z
  <2>6. u \in ClockStates(s) BY <2>2, <2>5 DEF ClockStates
  <2>7. /\ u.queue = g.queue /\ u.played = g.played
        /\ u.now = g.now /\ u.target = g.target /\ u.work = g.work /\ u.failed = g.failed
        /\ u.ticks = g.ticks /\ u.last = g.last /\ u.nextTick = g.nextTick /\ u.inputs = g.inputs
        /\ u.metros = g.metros /\ u.slots = z
    BY <2>2 DEF ClockStates
  <2>8. u.slots[i].alive = FALSE /\ u.slots[i].ready = FALSE BY <2>1, <2>4, <2>5, <2>7
  <2>9. ~Armed(u, x) /\ ~Heeded(u, x) BY <1>4, <2>1, <2>8 DEF Armed, Heeded
  <2>10. ASSUME NEW e \in Callbacks(s), e # x
         PROVE  /\ e[1] = "metro" => u.metros[e[2]] = g.metros[e[2]]
                /\ e[1] = "thread" => u.slots[e[2]] = g.slots[e[2]]
    <3>1. e[1] = "thread" => e[2] \in DOMAIN s.threads /\ e[2] # i BY <1>2, <1>4, <2>10, CallbackIs
    <3> QED BY <2>5, <2>7, <3>1
  <2> QED BY <2>1, <2>6, <2>7, <2>9, <2>10
<1> QED BY <1>3, <1>4, CallbackIs

\* Queued events are of different sources, each later in the order than what was called.
LEMMA QueueIs ==
  ASSUME NEW s, Timed(s), NEW v, Good(s, v), v.queue # <<>>
  PROVE  /\ Event(v) \in Callbacks(s) /\ InQueue(v, Event(v))
         /\ Tail(v.queue) \in Seq(Callbacks(s))
         /\ \A x : Has(Tail(v.queue), x) <=> InQueue(v, x) /\ x # Event(v)
         /\ \A i \in DOMAIN v.played : Precedes(v.played[i], <<Event(v), v.now>>)
         /\ \A i \in DOMAIN v.played, j \in DOMAIN Tail(v.queue) :
              Precedes(v.played[i], <<Tail(v.queue)[j], v.now>>)
         /\ \A j \in DOMAIN Tail(v.queue) : Precedes(<<Event(v), v.now>>, <<Tail(v.queue)[j], v.now>>)
         /\ \A i, j \in DOMAIN Tail(v.queue) : i < j =>
              Precedes(<<Tail(v.queue)[i], v.now>>, <<Tail(v.queue)[j], v.now>>)
<1> DEFINE q == v.queue
<1>1. q \in Seq(Callbacks(s)) /\ v.now \in Nat /\ \A i \in DOMAIN q : q[i] \in Callbacks(s)
  BY GoodFields
<1>2. /\ \A i \in DOMAIN v.played, j \in DOMAIN q : Precedes(v.played[i], <<q[j], v.now>>)
      /\ \A i, j \in DOMAIN q : i < j => Precedes(<<q[i], v.now>>, <<q[j], v.now>>)
  BY DEF Good, InTurn
<1> HIDE DEF q
<1>3. \A i, j \in DOMAIN q : i < j => q[i] # q[j]
  <2> SUFFICES ASSUME NEW i \in DOMAIN q, NEW j \in DOMAIN q, i < j PROVE q[i] # q[j] OBVIOUS
  <2>1. Precedes(<<q[i], v.now>>, <<q[j], v.now>>) BY <1>2
  <2>2. q[i] \in ({"input"} \X Nat) \cup Callbacks(s) /\ q[j] \in ({"input"} \X Nat) \cup Callbacks(s)
    BY <1>1
  <2>3. <<q[i], v.now>> # <<q[j], v.now>> BY <1>1, <2>1, <2>2, PrecedesIs
  <2> QED BY <2>3
<1>4. /\ Head(q) \in Callbacks(s) /\ Head(q) = q[1] /\ 1 \in DOMAIN q /\ Tail(q) \in Seq(Callbacks(s))
      /\ \A i \in DOMAIN Tail(q) : i \in Nat /\ i + 1 \in DOMAIN q /\ 1 < i + 1 /\ Tail(q)[i] = q[i + 1]
      /\ \A x : Has(Tail(q), x) <=> Has(q, x) /\ x # Head(q)
  BY <1>1, <1>3, TailHas DEF q
<1> DEFINE r == Tail(q)
<1> HIDE DEF r
<1>5. Has(q, Head(q)) BY <1>4 DEF Has
<1>6. \A i \in DOMAIN v.played : Precedes(v.played[i], <<Head(q), v.now>>) BY <1>2, <1>4
<1>7. \A i \in DOMAIN v.played, j \in DOMAIN r : Precedes(v.played[i], <<r[j], v.now>>)
  BY <1>2, <1>4 DEF r
<1>8. \A j \in DOMAIN r : Precedes(<<Head(q), v.now>>, <<r[j], v.now>>) BY <1>2, <1>4 DEF r
<1>9. \A i, j \in DOMAIN r : i < j => Precedes(<<r[i], v.now>>, <<r[j], v.now>>)
  <2> SUFFICES ASSUME NEW i \in DOMAIN r, NEW j \in DOMAIN r, i < j
               PROVE  Precedes(<<r[i], v.now>>, <<r[j], v.now>>)
    OBVIOUS
  <2>1. i \in Nat /\ j \in Nat /\ i + 1 \in DOMAIN q /\ j + 1 \in DOMAIN q /\ r[i] = q[i + 1] /\ r[j] = q[j + 1]
    BY <1>4 DEF r
  <2>2. i + 1 < j + 1 BY <2>1
  <2> QED BY <1>2, <2>1, <2>2
<1> QED BY <1>4, <1>5, <1>6, <1>7, <1>8, <1>9, Zenon DEF q, r, Event, InQueue

\* A callback that is called stays in order, and its coroutine waits for its next time.
LEMMA AgainStands ==
  ASSUME Timed(script), NEW v, Good(script, v), ~Awaits(script, v), v.queue # <<>>, ~Ignores(v),
         NEW g, g = Again(v)
  PROVE  /\ g \in ClockStates(script) /\ g.now = v.now /\ g.target = v.target /\ g.work = v.work
         /\ g.failed = v.failed /\ g.inputs = v.inputs
         /\ g.played = Append(v.played, <<Event(v), v.now>>) /\ g.queue = Tail(v.queue)
         /\ Ticking(g) /\ InputsFed(script, g) /\ InTurn(g) /\ ~Awaits(script, g)
         /\ \A e \in Callbacks(script) : StandsAs(script, g, e, Struck(script, v, e))
<1> DEFINE s == script
           f == Event(v)
           c == <<f, v.now>>
           r == Tail(v.queue)
<1>1. /\ Scripted(s) /\ v \in ClockStates(s) /\ v.now \in Nat
      /\ v.played \in Seq(ClockCalls(s))
  BY GoodFields
<1>2. Ticking(v) /\ InputsFed(s, v) /\ InTurn(v) /\ \A e \in Callbacks(s) : Standing(s, v, e)
  BY DEF Good
<1>3. /\ g \in ClockStates(s) /\ g.queue = r /\ g.played = Append(v.played, c) /\ f \in Callbacks(s)
      /\ g.now = v.now /\ g.target = v.target /\ g.work = v.work /\ g.failed = v.failed
      /\ g.ticks = v.ticks /\ g.last = v.last /\ g.nextTick = v.nextTick
      /\ g.inputs = v.inputs /\ g.metros = v.metros
      /\ \A i \in DOMAIN script.threads :
           /\ f = <<"thread", i>> =>
                /\ g.slots[i].alive = v.slots[i].alive /\ g.slots[i].ready = TRUE
                /\ g.slots[i].at = (IF script.threads[i].kind = "sleep" THEN v.now ELSE v.slots[i].at)
                     + script.threads[i].every
           /\ f # <<"thread", i>> => g.slots[i] = v.slots[i]
  <2>1. v \in ClockStates(script) /\ Scripted(script) BY <1>1
  <2>2. AgainFits(v, g) BY <2>1, AgainIs
  <2> QED BY <2>2, Zenon DEF AgainFits
<1>4. /\ InQueue(v, f) /\ r \in Seq(Callbacks(s))
      /\ \A x : Has(r, x) <=> InQueue(v, x) /\ x # f
      /\ \A i \in DOMAIN v.played : Precedes(v.played[i], c)
      /\ \A i \in DOMAIN v.played, j \in DOMAIN r : Precedes(v.played[i], <<r[j], v.now>>)
      /\ \A j \in DOMAIN r : Precedes(c, <<r[j], v.now>>)
      /\ \A i, j \in DOMAIN r : i < j => Precedes(<<r[i], v.now>>, <<r[j], v.now>>)
  BY QueueIs
<1> HIDE DEF f, r
<1>5. c \in ClockCalls(s) /\ c[2] = v.now BY <1>1, <1>3 DEF ClockCalls
<1>6. /\ Len(v.played) \in Nat /\ DOMAIN v.played = 1..Len(v.played)
      /\ DOMAIN g.played = 1..(Len(v.played) + 1)
      /\ \A i \in 1..Len(v.played) : i \in DOMAIN g.played /\ g.played[i] = v.played[i]
      /\ g.played[Len(v.played) + 1] = c
      /\ \A x : HasPlayed(g, x) <=> HasPlayed(v, x) \/ x = c
  <2> HIDE DEF c
  <2> QED BY <1>1, <1>3, <1>5, AppendHas DEF HasPlayed
<1>7. Ticking(g) BY <1>2, <1>3 DEF Ticking
<1>8. InputsFed(s, g)
  <2>1. \A i, t : <<<<"input", i>>, t>> # c
    <3>1. f[1] # "input" BY <1>3, CallbackIs
    <3> QED BY <3>1
  <2>2. \A i, t : HasPlayed(g, <<<<"input", i>>, t>>) <=> HasPlayed(v, <<<<"input", i>>, t>>)
    BY <1>6, <2>1
  <2>3. g.now = v.now /\ g.inputs = v.inputs BY <1>3
  <2> HIDE DEF c
  <2> QED BY <1>2, <2>2, <2>3 DEF InputsFed
<1> HIDE DEF c
<1>9. InTurn(g)
  <2>1. \A i \in DOMAIN g.played :
          (i \in DOMAIN v.played /\ g.played[i] = v.played[i]) \/ (i = Len(v.played) + 1 /\ g.played[i] = c)
    BY <1>6
  <2>2. ASSUME NEW i \in DOMAIN g.played, NEW j \in DOMAIN g.played, i < j
        PROVE  Precedes(g.played[i], g.played[j])
    <3>1. i \in DOMAIN v.played /\ g.played[i] = v.played[i] BY <1>6, <2>1, <2>2
    <3>2. CASE j \in DOMAIN v.played /\ g.played[j] = v.played[j] BY <1>2, <2>2, <3>1, <3>2 DEF InTurn
    <3>3. CASE g.played[j] = c BY <1>4, <3>1, <3>3
    <3> QED BY <2>1, <3>2, <3>3
  <2>3. ASSUME NEW i \in DOMAIN g.played PROVE g.played[i][2] <= g.now
    <3>1. CASE i \in DOMAIN v.played /\ g.played[i] = v.played[i] BY <1>2, <1>3, <3>1 DEF InTurn
    <3>2. CASE g.played[i] = c BY <1>1, <1>3, <1>5, <3>2
    <3> QED BY <2>1, <3>1, <3>2
  <2>4. ASSUME NEW i \in DOMAIN g.played, NEW j \in DOMAIN g.queue
        PROVE  Precedes(g.played[i], <<g.queue[j], g.now>>)
    BY <1>3, <1>4, <2>1
  <2> QED BY <1>3, <1>4, <2>2, <2>3, <2>4 DEF InTurn
<1>10. ASSUME NEW e \in Callbacks(s)
       PROVE  StandsAs(s, g, e, Struck(s, v, e)) /\ ~Due(s, g, e)
  <2> DEFINE b == Struck(s, v, e)
  <2>1. StandsAs(s, v, e, b) /\ ~Due(s, v, e) BY <1>2 DEF Standing, Awaits, Due
  <2> HIDE DEF b
  <2>2. SUFFICES StandsAs(s, g, e, b) /\ ~Due(s, g, e) BY <2>2 DEF b
  <2>3. \A t : HasPlayed(g, <<e, t>>) <=> HasPlayed(v, <<e, t>>) \/ (e = f /\ t = v.now)
    <3>1. \A t : <<e, t>> = c <=> e = f /\ t = v.now BY DEF c
    <3> QED BY <1>6, <3>1
  <2>4. InQueue(g, e) <=> InQueue(v, e) /\ e # f BY <1>3, <1>4 DEF InQueue
  <2>5. e[1] = "metro" => g.metros[e[2]] = v.metros[e[2]] BY <1>3
  <2>6. CASE e # f \/ e[1] = "metro"
    <3>1. e[1] = "thread" => g.slots[e[2]] = v.slots[e[2]]
      <4>1. e[1] = "thread" => e[2] \in DOMAIN script.threads /\ e = <<"thread", e[2]>> /\ e[1] # "metro"
        BY CallbackIs
      <4> QED BY <1>3, <2>6, <4>1
    <3>2. /\ Upcoming(s, g, e) = Upcoming(s, v, e) /\ (Armed(g, e) <=> Armed(v, e))
          /\ (Heeded(g, e) <=> Heeded(v, e))
      BY <2>5, <3>1, SameSource
    <3>3. e = f => Heeded(v, e) /\ InQueue(v, e)
      <4>1. e[1] = "metro" => Heeded(v, e) BY DEF Heeded
      <4> QED BY <1>4, <2>6, <4>1
    <3>4. \A t : Came(g, e, t) <=> Came(v, e, t) BY <1>3, <2>3, <2>4, <3>2, <3>3 DEF Came
    <3>5. e[1] = "thread" => (InQueue(g, e) <=> InQueue(v, e))
      <4>1. e[1] = "metro" => e[1] # "thread" OBVIOUS
      <4> QED BY <2>4, <2>6, <4>1
    <3>6. StandsAs(s, g, e, b) BY <1>3, <2>1, <2>5, <3>1, <3>4, <3>5, SameStanding
    <3> QED BY <1>3, <2>1, <3>2, <3>6 DEF Due
  <2>7. CASE e = f /\ e[1] = "thread"
    <3> DEFINE p == s.threads[e[2]].every
    <3>1. /\ e[2] \in DOMAIN s.threads /\ e = <<"thread", e[2]>> /\ p \in Nat \ {0} /\ e[1] # "metro"
          /\ s.threads[e[2]].kind \in {"sleep", "sync"}
      BY <2>7, CallbackIs
    <3>2. v.slots[e[2]].alive = TRUE /\ v.slots[e[2]].at \in Nat BY <1>1, <2>7, SourceIs DEF Ignores, f
    <3>3. Heeded(v, e) BY <3>2 DEF Heeded
    <3>4. ~b /\ InQueue(v, e) /\ ~Armed(v, e) /\ Counter(s, v, e) /\ Upcoming(s, v, e) = v.now
      BY <1>4, <2>1, <2>7, <3>1, <3>3 DEF StandsAs
    <3>5. PICK k \in Nat \ {0} :
            Upcoming(s, v, e) = CallTime(s, e, k) /\ v.slots[e[2]].at = k * p
      BY <1>1, <2>7, <3>4, CounterIs
    <3>6. /\ g.slots[e[2]].alive = TRUE /\ g.slots[e[2]].ready = TRUE
          /\ g.slots[e[2]].at = (IF s.threads[e[2]].kind = "sleep" THEN v.now ELSE v.slots[e[2]].at) + p
      BY <1>3, <2>7, <3>1, <3>2
    <3>7. g.slots[e[2]].at = (k + 1) * p
      <4>1. (k + 1) * p = k * p + p BY <3>1
      <4>2. s.threads[e[2]].kind = "sleep" => v.now = k * p
        BY <3>1, <3>4, <3>5 DEF Upcoming
      <4> QED BY <3>5, <3>6, <4>1, <4>2
    <3>8. Armed(g, e) /\ Heeded(g, e) /\ Upcoming(s, g, e) = CallTime(s, e, k + 1)
      BY <3>1, <3>6, <3>7 DEF Armed, Heeded, Upcoming, CallTime
    <3>9. Counter(s, g, e)
      <4>1. k + 1 \in Nat \ {0} OBVIOUS
      <4> QED BY <3>1, <3>7, <4>1 DEF Counter
    <3>10. v.now < CallTime(s, e, k + 1) /\ CallTime(s, e, k + 1) \in Nat
      BY <3>4, <3>5, TimesIncrease
    <3>11. \A t : Came(g, e, t) <=> Came(v, e, t)
      BY <1>3, <2>3, <2>4, <2>7, <3>3, <3>4 DEF Came
    <3>12. \A t : Came(v, e, t) <=> t \in CallTimes(s, e) /\ t <= v.now
      BY <2>1, <3>4 DEF StandsAs
    <3>13. \A t \in CallTimes(s, e) : t < CallTime(s, e, k + 1) <=> t <= v.now
      BY <3>4, <3>5, NextTime
    <3>14. \A t : Came(g, e, t) <=> t \in CallTimes(s, e) /\ t < Upcoming(s, g, e)
      BY <3>8, <3>11, <3>12, <3>13
    <3>15. g.now <= Upcoming(s, g, e) /\ ~(Upcoming(s, g, e) <= g.now) BY <1>1, <1>3, <3>8, <3>10
    <3>16. ~InQueue(g, e) BY <2>4, <2>7
    <3> QED BY <3>1, <3>4, <3>8, <3>9, <3>14, <3>15, <3>16 DEF StandsAs, Due
  <2> QED BY <2>6, <2>7, CallbackIs
<1>11. ~Awaits(s, g)
  <2>1. ~\E e \in Callbacks(s) : Armed(g, e) /\ Upcoming(s, g, e) <= g.now BY <1>10 DEF Due
  <2> QED BY <1>3, <2>1 DEF Awaits
<1> QED BY <1>3, <1>7, <1>8, <1>9, <1>10, <1>11 DEF f, c, r

\* An event of a coroutine that is cancelled meanwhile is dropped.
LEMMA IgnoredIsDropped ==
  ASSUME Timed(script), NEW v, Good(script, v), ~Awaits(script, v), v.queue # <<>>, Ignores(v),
         NEW p, p = Popped(v)
  PROVE  Good(script, p)
<1> DEFINE s == script
           f == Event(v)
           r == Tail(v.queue)
<1>1. Scripted(s) /\ v \in ClockStates(s) BY GoodFields
<1>2. Ticking(v) /\ InputsFed(s, v) /\ InTurn(v) /\ \A e \in Callbacks(s) : Standing(s, v, e)
  BY DEF Good
<1>3. /\ p \in ClockStates(s) /\ p.queue = r
      /\ p.now = v.now /\ p.target = v.target /\ p.work = v.work /\ p.failed = v.failed
      /\ p.ticks = v.ticks /\ p.last = v.last /\ p.nextTick = v.nextTick
      /\ p.inputs = v.inputs /\ p.metros = v.metros /\ p.slots = v.slots /\ p.played = v.played
  BY <1>1, PoppedIs
<1>4. /\ f \in Callbacks(s) /\ f[1] = "thread"
      /\ \A x : Has(r, x) <=> InQueue(v, x) /\ x # f
      /\ \A i \in DOMAIN v.played, j \in DOMAIN r : Precedes(v.played[i], <<r[j], v.now>>)
      /\ \A i, j \in DOMAIN r : i < j => Precedes(<<r[i], v.now>>, <<r[j], v.now>>)
  BY QueueIs DEF Ignores
<1>5. ~Heeded(v, f)
  <2>1. v.slots[f[2]].alive \in BOOLEAN BY <1>1, <1>4, SourceIs
  <2> QED BY <1>4, <2>1 DEF Ignores, Heeded
<1> HIDE DEF f, r
<1>6. Ticking(p) BY <1>2, <1>3 DEF Ticking
<1>7. InputsFed(s, p)
  <2>1. p.now = v.now /\ p.inputs = v.inputs /\ p.played = v.played BY <1>3
  <2> QED BY <1>2, <2>1 DEF InputsFed, HasPlayed
<1>8. InTurn(p)
  <2>1. p.now = v.now /\ p.queue = r /\ p.played = v.played BY <1>3
  <2> QED BY <1>2, <1>4, <2>1 DEF InTurn
<1>9. ~Awaits(s, p)
  <2>1. p.now = v.now /\ p.inputs = v.inputs /\ p.metros = v.metros /\ p.slots = v.slots BY <1>3
  <2> QED BY <2>1 DEF Awaits, Armed, Upcoming
<1>10. ASSUME NEW e \in Callbacks(s) PROVE Standing(s, p, e)
  <2> DEFINE b == Struck(s, v, e)
  <2>1. Struck(s, p, e) = b
    <3>1. Fired(s, p) = Fired(s, v) BY <1>3 DEF Fired
    <3> QED BY <3>1 DEF Struck
  <2>2. StandsAs(s, v, e, b) BY <1>2 DEF Standing
  <2>3. InQueue(p, e) <=> InQueue(v, e) /\ e # f BY <1>3, <1>4 DEF InQueue
  <2> HIDE DEF b
  <2>4. \A t : HasPlayed(p, <<e, t>>) <=> HasPlayed(v, <<e, t>>) BY <1>3 DEF HasPlayed
  <2>5. Heeded(p, e) <=> Heeded(v, e) BY <1>3 DEF Heeded
  <2>6. \A t : Came(p, e, t) <=> Came(v, e, t) BY <1>3, <1>5, <2>3, <2>4, <2>5 DEF Came
  <2>7. StandsAs(s, p, e, b)
    <3>1. CASE e # f
      <4>1. InQueue(p, e) <=> InQueue(v, e) BY <2>3, <3>1
      <4> QED BY <1>3, <2>2, <2>6, <4>1, SameStanding
    <3>2. CASE e = f
      <4>1. e[1] = "thread" /\ e[1] # "metro" /\ ~Heeded(v, e) /\ ~Heeded(p, e) BY <1>4, <1>5, <2>5, <3>2
      <4>2. b /\ ~Armed(v, e) /\ \A t : Came(v, e, t) <=> t \in CallTimes(s, e) /\ Keeps(s, e, t)
        BY <2>2, <4>1 DEF StandsAs
      <4>3. ~Armed(p, e) BY <1>3, <4>2 DEF Armed
      <4> QED BY <2>6, <4>1, <4>2, <4>3 DEF StandsAs
    <3> QED BY <3>1, <3>2
  <2> QED BY <2>1, <2>7 DEF Standing
<1>11. Fresh(s, p) BY <1>9 DEF Fresh
<1> QED BY <1>3, <1>6, <1>7, <1>8, <1>10, <1>11 DEF Good

\* The callback that cancels another is at the first time of its source.
LEMMA CancellerIsFirst ==
  ASSUME Timed(script), NEW v, Good(script, v), ~Awaits(script, v), v.queue # <<>>, ~Ignores(v), Cancels(v)
  PROVE  /\ ~Fired(script, v)
         /\ v.now \in CallTimes(script, Event(v))
         /\ \A u \in CallTimes(script, Event(v)) : u \in Nat /\ v.now <= u
<1> DEFINE s == script
           f == Event(v)
<1>1. /\ Scripted(s) /\ v \in ClockStates(s) /\ v.now \in Nat
      /\ \A i \in DOMAIN v.played : v.played[i] = <<v.played[i][1], v.played[i][2]>>
  BY GoodFields
<1>2. f \in Callbacks(s) /\ InQueue(v, f) BY QueueIs
<1>3. /\ s.cancel[1] = f /\ s.cancel # <<>>
      /\ \A i \in DOMAIN v.played : v.played[i][1] # f
  BY DEF Cancels
<1>4. ~Fired(s, v) BY <1>3, Zenon DEF Fired
<1>5. StandsAs(s, v, f, Struck(s, v, f)) BY <1>2 DEF Good, Standing
<1>6. Heeded(v, f)
  <2>1. f[1] = "thread" => v.slots[f[2]].alive \in BOOLEAN BY <1>1, <1>2, SourceIs
  <2> QED BY <2>1 DEF Ignores, Heeded
<1> HIDE DEF f
<1>7. \A t : ~HasPlayed(v, <<f, t>>)
  <2> SUFFICES ASSUME NEW t, HasPlayed(v, <<f, t>>) PROVE FALSE OBVIOUS
  <2>1. PICK i \in DOMAIN v.played : v.played[i] = <<f, t>> BY DEF HasPlayed, Has
  <2>2. v.played[i][1] = f BY <2>1
  <2> QED BY <1>3, <2>2
<1>8. \A t : Came(v, f, t) <=> t = v.now BY <1>2, <1>6, <1>7 DEF Came
<1>9. ~Struck(s, v, f) BY <1>4 DEF Struck
<1>10. \A t : Came(v, f, t) <=>
          t \in CallTimes(s, f) /\ IF Armed(v, f) THEN t < Upcoming(s, v, f) ELSE t <= v.now
  BY <1>5, <1>9 DEF StandsAs
<1>11. Armed(v, f) => v.now <= Upcoming(s, v, f) /\ Upcoming(s, v, f) \in Nat
  BY <1>1, <1>2, <1>5, SourceIs DEF StandsAs
<1>12. v.now \in CallTimes(s, f) BY <1>8, <1>10
<1>13. ASSUME NEW u \in CallTimes(s, f) PROVE u \in Nat /\ v.now <= u
  <2>1. u \in Nat
    <3>1. 1 \in Nat \ {0} OBVIOUS
    <3> QED BY <1>2, <3>1, NextTime
  <2>2. u < v.now => Came(v, f, u) BY <1>1, <1>10, <1>11, <2>1
  <2>3. ~(u < v.now) BY <1>1, <1>8, <2>1, <2>2
  <2> QED BY <1>1, <2>1, <2>3
<1> QED BY <1>4, <1>12, <1>13 DEF f

\* What the cancellation strikes is as the script asks: it keeps what came before.
LEMMA StruckStands ==
  ASSUME Timed(script), NEW v, Good(script, v), ~Awaits(script, v), v.queue # <<>>, ~Ignores(v),
         Cancels(v), NEW x, x = script.cancel[2], NEW u, u = Cancelled(Again(v), x)
  PROVE  x \in Callbacks(script) /\ StandsAs(script, u, x, TRUE)
<1> DEFINE s == script
           g == Again(v)
           f == Event(v)
<1>1. Scripted(s) /\ v \in ClockStates(s) /\ v.now \in Nat BY GoodFields
<1>2. /\ g \in ClockStates(s) /\ g.now = v.now /\ InTurn(g) /\ ~Awaits(s, g)
      /\ g.played = Append(v.played, <<f, v.now>>) /\ g.queue = Tail(v.queue)
      /\ \A e \in Callbacks(s) : StandsAs(s, g, e, Struck(s, v, e))
  BY AgainStands
<1>3. /\ ~Fired(s, v) /\ v.now \in CallTimes(s, f)
      /\ \A y \in CallTimes(s, f) : y \in Nat /\ v.now <= y
  BY CancellerIsFirst
<1>4. f \in Callbacks(s) /\ f = s.cancel[1] /\ s.cancel # <<>> BY QueueIs DEF Cancels
<1>5. x \in Callbacks(s)
  <2>1. s.cancel \in Callbacks(s) \X Callbacks(s) BY <1>4 DEF Timed
  <2> QED BY <2>1
<1>6. /\ \A i \in DOMAIN v.played : Precedes(v.played[i], <<f, v.now>>)
      /\ \A j \in DOMAIN g.queue : Precedes(<<f, v.now>>, <<g.queue[j], v.now>>)
  BY <1>2, QueueIs
<1>7. \A c : HasPlayed(g, c) <=> HasPlayed(v, c) \/ c = <<f, v.now>>
  <2> DEFINE c == <<f, v.now>>
  <2>1. v.played \in Seq(ClockCalls(s)) BY GoodFields
  <2>2. c \in ClockCalls(s) BY <1>1, <1>4 DEF ClockCalls
  <2> HIDE DEF c
  <2>3. \A y : Has(Append(v.played, c), y) <=> Has(v.played, y) \/ y = c BY <2>1, <2>2, AppendHas
  <2> QED BY <1>2, <2>3 DEF HasPlayed, c
<1> HIDE DEF g, f
<1>8. /\ u \in ClockStates(s) /\ u.queue = g.queue /\ u.played = g.played /\ u.now = g.now
      /\ ~Armed(u, x) /\ (x[1] = "thread" => ~Heeded(u, x))
  BY <1>2, <1>5, CancelledIs DEF g
<1>9. StandsAs(s, g, x, FALSE)
  <2>1. StandsAs(s, g, x, Struck(s, v, x)) BY <1>2, <1>5
  <2>2. ~Struck(s, v, x) BY <1>3 DEF Struck
  <2>3. Struck(s, v, x) = FALSE BY <2>2 DEF Struck
  <2> QED BY <2>1, <2>3
<1>10. \A t : HasPlayed(u, <<x, t>>) <=> HasPlayed(g, <<x, t>>) BY <1>8 DEF HasPlayed
<1>11. \A t : HasPlayed(g, <<x, t>>) => t \in Nat /\ t <= v.now
  <2> SUFFICES ASSUME NEW t, HasPlayed(g, <<x, t>>) PROVE t \in Nat /\ t <= v.now OBVIOUS
  <2>1. PICK i \in DOMAIN g.played : g.played[i] = <<x, t>> BY DEF HasPlayed, Has
  <2>2. g.played[i][2] = t /\ g.played[i][2] <= g.now BY <1>2, <2>1 DEF InTurn
  <2>3. g.played[i] \in ClockCalls(s)
    <3>1. g.played \in Seq(ClockCalls(s)) BY <1>1, <1>2, StateIs
    <3> QED BY <3>1, SequenceIs
  <2>4. g.played[i][2] \in Nat BY <2>3 DEF ClockCalls
  <2> QED BY <1>2, <2>2, <2>4
<1>12. \A t \in CallTimes(s, x) : t \in Nat
  <2>1. 1 \in Nat \ {0} OBVIOUS
  <2> QED BY <1>5, <2>1, NextTime
\* Up to the cancellation all was called or queued, and after it nothing is.
<1>13. \A t : Came(g, x, t) <=> t \in CallTimes(s, x) /\ t <= v.now
  <2>1. \A t : Came(g, x, t) => t \in Nat /\ t <= v.now BY <1>1, <1>2, <1>11 DEF Came
  <2>2. \A t : Came(g, x, t) <=>
          t \in CallTimes(s, x) /\ IF Armed(g, x) THEN t < Upcoming(s, g, x) ELSE t <= g.now
    BY <1>9 DEF StandsAs
  <2>3. Armed(g, x) => v.now < Upcoming(s, g, x) /\ Upcoming(s, g, x) \in Nat
    <3>1. Armed(g, x) => ~(Upcoming(s, g, x) <= g.now) BY <1>2, <1>5 DEF Awaits
    <3>2. Upcoming(s, g, x) \in Nat BY <1>2, <1>5, SourceIs
    <3> QED BY <1>1, <1>2, <3>1, <3>2
  <2>4. \A t \in CallTimes(s, x) : t <= v.now => Came(g, x, t) BY <1>1, <1>2, <1>12, <2>2, <2>3
  <2> QED BY <2>1, <2>2, <2>4
<1>14. \A t \in CallTimes(s, x) : Keeps(s, x, t) <=>
          \A y \in CallTimes(s, f) : Precedes(<<f, y>>, <<x, t>>) => x[1] = "metro" /\ t = y
  BY <1>4 DEF Keeps
<1>15. \A y, t \in Nat :
         /\ Precedes(<<f, y>>, <<x, t>>) => y <= t
         /\ y < t => Precedes(<<f, y>>, <<x, t>>)
         /\ Precedes(<<f, y>>, <<x, t>>) => ~Precedes(<<x, t>>, <<f, y>>)
  <2>1. f \in ({"input"} \X Nat) \cup Callbacks(s) /\ x \in ({"input"} \X Nat) \cup Callbacks(s)
    BY <1>4, <1>5
  <2> QED BY <2>1, PrecedesIs
<1>16. \A t \in CallTimes(s, x) :
         /\ t < v.now => Keeps(s, x, t)
         /\ v.now < t => ~Keeps(s, x, t)
         /\ t = v.now => (Keeps(s, x, t) <=> (Precedes(<<f, t>>, <<x, t>>) => x[1] = "metro"))
  <2> TAKE t \in CallTimes(s, x)
  <2>1. t \in Nat BY <1>12
  <2>2. t < v.now => Keeps(s, x, t)
    <3>1. \A y \in CallTimes(s, f) : Precedes(<<f, y>>, <<x, t>>) => ~(t < v.now)
      BY <1>1, <1>3, <1>15, <2>1
    <3> QED BY <1>14, <3>1
  <2>3. v.now < t => ~Keeps(s, x, t)
    <3>1. v.now < t => Precedes(<<f, v.now>>, <<x, t>>) /\ t # v.now BY <1>1, <1>15, <2>1
    <3> QED BY <1>3, <1>14, <3>1
  <2>4. t = v.now => (Keeps(s, x, t) <=> (Precedes(<<f, t>>, <<x, t>>) => x[1] = "metro"))
    <3>1. \A y \in CallTimes(s, f) : Precedes(<<f, y>>, <<x, t>>) => y <= t /\ y \in Nat /\ v.now <= y
      BY <1>3, <1>15, <2>1
    <3>2. t = v.now => \A y \in CallTimes(s, f) : Precedes(<<f, y>>, <<x, t>>) => t = y
      BY <1>1, <3>1
    <3> QED BY <1>3, <1>14, <3>2
  <2> QED BY <2>2, <2>3, <2>4
<1>17. CASE x[1] = "metro"
  <2>1. x[1] # "thread" BY <1>17
  <2>2. \A t : Came(u, x, t) <=> Came(g, x, t)
    BY <1>8, <1>10, <2>1 DEF Came, Heeded, InQueue
  <2>3. \A t : Came(u, x, t) <=> t \in CallTimes(s, x) /\ Keeps(s, x, t)
    <3>1. \A t \in CallTimes(s, x) : Keeps(s, x, t) <=> t <= v.now BY <1>1, <1>12, <1>16, <1>17
    <3> QED BY <1>13, <2>2, <3>1
  <2> QED BY <1>5, <1>8, <2>1, <2>3 DEF StandsAs
<1>18. CASE x[1] = "thread"
  <2>1. x[1] # "metro" /\ ~Heeded(u, x) BY <1>8, <1>18
  <2>2. \A t : Came(u, x, t) <=> HasPlayed(g, <<x, t>>) BY <1>10, <2>1 DEF Came
  <2>3. \A t : t # v.now => (HasPlayed(g, <<x, t>>) <=> t \in CallTimes(s, x) /\ t <= v.now)
    BY <1>2, <1>13 DEF Came
  <2>4. HasPlayed(g, <<x, v.now>>) <=>
          v.now \in CallTimes(s, x) /\ ~Precedes(<<f, v.now>>, <<x, v.now>>)
    <3>1. ASSUME HasPlayed(g, <<x, v.now>>)
          PROVE  v.now \in CallTimes(s, x) /\ ~Precedes(<<f, v.now>>, <<x, v.now>>)
      <4>1. v.now \in CallTimes(s, x) BY <1>13, <3>1 DEF Came
      <4>2. CASE HasPlayed(v, <<x, v.now>>)
        <5>1. PICK i \in DOMAIN v.played : v.played[i] = <<x, v.now>> BY <4>2 DEF HasPlayed, Has
        <5>2. Precedes(<<x, v.now>>, <<f, v.now>>) BY <1>6, <5>1
        <5> QED BY <1>1, <1>15, <4>1, <5>2
      <4>3. CASE <<x, v.now>> = <<f, v.now>>
        <5>1. x = f BY <4>3
        <5> QED BY <1>1, <1>15, <4>1, <5>1
      <4> QED BY <1>7, <3>1, <4>2, <4>3
    <3>2. ASSUME v.now \in CallTimes(s, x), ~Precedes(<<f, v.now>>, <<x, v.now>>)
          PROVE  HasPlayed(g, <<x, v.now>>)
      <4>1. Came(g, x, v.now) BY <1>1, <1>13, <3>2
      <4>2. ~InQueue(g, x)
        <5> SUFFICES ASSUME InQueue(g, x) PROVE FALSE OBVIOUS
        <5>1. PICK j \in DOMAIN g.queue : g.queue[j] = x BY DEF InQueue, Has
        <5> QED BY <1>6, <3>2, <5>1
      <4> QED BY <4>1, <4>2 DEF Came
    <3> QED BY <3>1, <3>2
  <2>5. \A t : Came(u, x, t) <=> t \in CallTimes(s, x) /\ Keeps(s, x, t)
    <3> TAKE t
    <3>1. CASE t = v.now BY <1>16, <2>1, <2>2, <2>4, <3>1
    <3>2. CASE t # v.now
      <4>1. ASSUME t \in CallTimes(s, x) PROVE Keeps(s, x, t) <=> t <= v.now
        <5>1. t \in Nat /\ (t < v.now => Keeps(s, x, t)) /\ (v.now < t => ~Keeps(s, x, t))
          BY <1>12, <1>16, <4>1
        <5> HIDE DEF s
        <5> QED BY <1>1, <3>2, <5>1
      <4> QED BY <2>2, <2>3, <3>2, <4>1
    <3> QED BY <3>1, <3>2
  <2> QED BY <1>5, <1>8, <1>18, <2>1, <2>5 DEF StandsAs
<1> QED BY <1>5, <1>17, <1>18, CallbackIs

\* One event is handled: called at its time and in order, or dropped.
LEMMA GoodHandled ==
  ASSUME Timed(script), NEW v, Good(script, v), ~Awaits(script, v), v.queue # <<>>,
         NEW h, h = Handled(v)
  PROVE  /\ Good(script, h) /\ h.now = v.now /\ h.target = v.target /\ h.work = v.work
         /\ h.failed = v.failed /\ h.inputs = v.inputs
<1> DEFINE s == script
           g == Again(v)
           x == script.cancel[2]
<1>1. Scripted(s) /\ v \in ClockStates(s) BY GoodFields
<1>2. h = IF Ignores(v) THEN Popped(v) ELSE IF Cancels(v) THEN Cancelled(g, x) ELSE g
  BY <1>1, HandledIs
<1>3. CASE Ignores(v)
  <2>1. h = Popped(v) BY <1>2, <1>3
  <2>2. Good(s, h) BY <1>3, <2>1, IgnoredIsDropped
  <2>3. h.now = v.now /\ h.target = v.target /\ h.work = v.work /\ h.failed = v.failed /\ h.inputs = v.inputs
    BY <1>1, <2>1, PoppedIs
  <2> QED BY <2>2, <2>3
<1>4. CASE ~Ignores(v)
  <2>1. /\ g \in ClockStates(s) /\ g.now = v.now /\ g.target = v.target /\ g.work = v.work
        /\ g.failed = v.failed /\ g.inputs = v.inputs
        /\ g.played = Append(v.played, <<Event(v), v.now>>)
        /\ Ticking(g) /\ InputsFed(s, g) /\ InTurn(g) /\ ~Awaits(s, g)
        /\ \A e \in Callbacks(s) : StandsAs(s, g, e, Struck(s, v, e))
    BY <1>4, AgainStands
  <2>2. Event(v) \in Callbacks(s) BY QueueIs
  <2>3. /\ Len(v.played) \in Nat /\ DOMAIN v.played = 1..Len(v.played)
        /\ DOMAIN g.played = 1..(Len(v.played) + 1)
        /\ \A i \in 1..Len(v.played) : g.played[i] = v.played[i]
        /\ g.played[Len(v.played) + 1] = <<Event(v), v.now>>
    <3> DEFINE c == <<Event(v), v.now>>
    <3>1. v.played \in Seq(ClockCalls(s)) /\ v.now \in Nat BY GoodFields
    <3>2. c \in ClockCalls(s) BY <2>2, <3>1 DEF ClockCalls
    <3>3. g.played = Append(v.played, c) BY <2>1
    <3> HIDE DEF c, g
    <3>4. /\ Len(v.played) \in Nat /\ DOMAIN v.played = 1..Len(v.played)
          /\ DOMAIN g.played = 1..(Len(v.played) + 1)
          /\ \A i \in 1..Len(v.played) : g.played[i] = v.played[i]
          /\ g.played[Len(v.played) + 1] = c
      BY <3>1, <3>2, <3>3, AppendHas
    <3> QED BY <3>4 DEF c
  <2> HIDE DEF g, x
  <2>4. Fired(s, g) <=> Fired(s, v) \/ (s.cancel # <<>> /\ s.cancel[1] = Event(v))
    <3>1. \A i \in DOMAIN g.played :
            (i \in DOMAIN v.played /\ g.played[i] = v.played[i])
              \/ (i = Len(v.played) + 1 /\ g.played[i] = <<Event(v), v.now>>)
      BY <2>3
    <3>2. /\ \A i \in DOMAIN v.played : i \in DOMAIN g.played /\ g.played[i] = v.played[i]
          /\ Len(v.played) + 1 \in DOMAIN g.played
      BY <2>3
    <3>3. ASSUME NEW y PROVE (\E i \in DOMAIN g.played : g.played[i][1] = y)
                               <=> (\E i \in DOMAIN v.played : v.played[i][1] = y) \/ Event(v) = y
      <4>1. <<Event(v), v.now>>[1] = Event(v) OBVIOUS
      <4> QED BY <2>3, <3>1, <3>2, <4>1
    <3> QED BY <3>3 DEF Fired
  <2>5. CASE ~Cancels(v)
    <3>1. h = g BY <1>2, <1>4, <2>5
    <3>2. Fired(s, g) <=> Fired(s, v) BY <2>4, <2>5 DEF Cancels, Fired
    <3>3. \A e \in Callbacks(s) : Struck(s, g, e) = Struck(s, v, e) BY <3>2 DEF Struck
    <3>4. \A e \in Callbacks(s) : Standing(s, g, e) BY <2>1, <3>3 DEF Standing
    <3>5. Fresh(s, g) BY <2>1 DEF Fresh
    <3>6. Good(s, g) BY <2>1, <3>4, <3>5 DEF Good
    <3> QED BY <2>1, <3>1, <3>6
  <2>6. CASE Cancels(v)
    <3>1. h = Cancelled(g, x) BY <1>2, <1>4, <2>6
    <3>2. x \in Callbacks(s) /\ StandsAs(s, h, x, TRUE)
      BY <1>4, <2>6, <3>1, StruckStands DEF g, x
    <3>3. /\ h \in ClockStates(s) /\ h.queue = g.queue /\ h.played = g.played
          /\ h.now = g.now /\ h.target = g.target /\ h.work = g.work /\ h.failed = g.failed
          /\ h.ticks = g.ticks /\ h.last = g.last /\ h.nextTick = g.nextTick /\ h.inputs = g.inputs
          /\ ~Armed(h, x) /\ (x[1] = "thread" => ~Heeded(h, x))
          /\ \A e \in Callbacks(s) : e # x =>
               /\ e[1] = "metro" => h.metros[e[2]] = g.metros[e[2]]
               /\ e[1] = "thread" => h.slots[e[2]] = g.slots[e[2]]
      BY <2>1, <3>1, <3>2, CancelledIs
    <3>4. Ticking(h) BY <2>1, <3>3 DEF Ticking
    <3>5. InputsFed(s, h)
      <4>1. h.now = g.now /\ h.inputs = g.inputs /\ h.played = g.played BY <3>3
      <4> QED BY <2>1, <4>1 DEF InputsFed, HasPlayed
    <3>6. InTurn(h)
      <4>1. h.now = g.now /\ h.queue = g.queue /\ h.played = g.played BY <3>3
      <4> QED BY <2>1, <4>1 DEF InTurn
    <3>7. ~Fired(s, v) /\ Fired(s, h)
      <4>1. ~Fired(s, v) BY <1>4, <2>6, CancellerIsFirst
      <4>2. Fired(s, g) BY <2>4, <2>6 DEF Cancels
      <4> QED BY <3>3, <4>1, <4>2 DEF Fired
    <3>8. ASSUME NEW e \in Callbacks(s), e # x
          PROVE  Standing(s, h, e) /\ ~Due(s, h, e)
      <4>1. StandsAs(s, g, e, FALSE)
        <5>1. StandsAs(s, g, e, Struck(s, v, e)) BY <2>1
        <5>2. Struck(s, v, e) = FALSE BY <3>7 DEF Struck
        <5> QED BY <5>1, <5>2
      <4>2. Struck(s, h, e) = FALSE BY <3>8 DEF Struck, x
      <4>3. /\ e[1] = "metro" => h.metros[e[2]] = g.metros[e[2]]
            /\ e[1] = "thread" => h.slots[e[2]] = g.slots[e[2]]
        BY <3>3, <3>8
      <4>4. /\ Upcoming(s, h, e) = Upcoming(s, g, e) /\ (Armed(h, e) <=> Armed(g, e))
            /\ (Heeded(h, e) <=> Heeded(g, e))
        BY <4>3, SameSource
      <4>5. InQueue(h, e) <=> InQueue(g, e) BY <3>3 DEF InQueue
      <4>6. \A t : Came(h, e, t) <=> Came(g, e, t) BY <3>3, <4>4, <4>5 DEF Came, HasPlayed
      <4>7. StandsAs(s, h, e, FALSE) BY <3>3, <4>1, <4>3, <4>5, <4>6, SameStanding
      <4>8. ~Due(s, g, e) BY <2>1 DEF Awaits, Due
      <4> QED BY <3>3, <4>2, <4>4, <4>7, <4>8 DEF Standing, Due
    <3>9. \A e \in Callbacks(s) : Standing(s, h, e) /\ ~Due(s, h, e)
      <4> TAKE e \in Callbacks(s)
      <4>1. CASE e = x
        <5>1. Struck(s, h, e) = TRUE BY <3>7, <4>1 DEF Struck, x
        <5> QED BY <3>2, <3>3, <4>1, <5>1 DEF Standing, Due
      <4> QED BY <3>8, <4>1
    <3>10. ~Awaits(s, h)
      <4>1. ~\E e \in Callbacks(s) : Armed(h, e) /\ Upcoming(s, h, e) <= h.now BY <3>9 DEF Due
      <4>2. h.now = g.now /\ h.inputs = g.inputs BY <3>3
      <4> QED BY <2>1, <4>1, <4>2 DEF Awaits
    <3>11. Fresh(s, h) BY <3>10 DEF Fresh
    <3>12. Good(s, h) BY <3>3, <3>4, <3>5, <3>6, <3>9, <3>11 DEF Good
    <3> QED BY <2>1, <3>3, <3>12
  <2> QED BY <2>5, <2>6
<1> QED BY <1>3, <1>4

-----------------------------------------------------------------------------
(* The steps of the clock.                                                  *)

\* What a step does besides its callbacks: the count of iterations, the target, a failure.
LEMMA GoodFrame ==
  ASSUME NEW s, Timed(s), NEW w, Good(s, w), NEW u \in ClockStates(s),
         u.now = w.now, u.ticks = w.ticks, u.last = w.last, u.nextTick = w.nextTick,
         u.metros = w.metros, u.slots = w.slots, u.inputs = w.inputs, u.queue = w.queue,
         u.played = w.played
  PROVE  Good(s, u) /\ (Awaits(s, u) <=> Awaits(s, w))
<1>1. Ticking(w) /\ InputsFed(s, w) /\ InTurn(w) /\ Fresh(s, w) /\ \A e \in Callbacks(s) : Standing(s, w, e)
  BY DEF Good
<1>2. Ticking(u) BY <1>1 DEF Ticking
<1>3. InputsFed(s, u) BY <1>1 DEF InputsFed, HasPlayed
<1>4. InTurn(u) BY <1>1 DEF InTurn
<1>5. Awaits(s, u) <=> Awaits(s, w) BY DEF Awaits, Armed, Upcoming
<1>6. Fresh(s, u) BY <1>1, <1>5 DEF Fresh
<1>7. ASSUME NEW e \in Callbacks(s) PROVE Standing(s, u, e)
  <2>1. StandsAs(s, w, e, Struck(s, w, e)) BY <1>1 DEF Standing
  <2>2. Struck(s, u, e) = Struck(s, w, e)
    <3>1. Fired(s, u) = Fired(s, w) BY DEF Fired
    <3> QED BY <3>1 DEF Struck
  <2>3. (InQueue(u, e) <=> InQueue(w, e)) /\ (Heeded(u, e) <=> Heeded(w, e)) BY DEF InQueue, Heeded
  <2>4. \A t : Came(u, e, t) <=> Came(w, e, t) BY <2>3 DEF Came, HasPlayed
  <2>5. StandsAs(s, u, e, Struck(s, w, e)) BY <2>1, <2>3, <2>4, SameStanding
  <2> QED BY <2>2, <2>5 DEF Standing
<1> QED BY <1>2, <1>3, <1>4, <1>5, <1>6, <1>7 DEF Good

Fed(s, w) ==
  [w EXCEPT !.inputs = Tail(@),
            !.played = Append(@, <<<<"input", Len(s.inputs) - Len(w.inputs) + 1>>, w.now>>)]

\* An accepted input is fed at its own time, before everything else of that time.
LEMMA GoodInput ==
  ASSUME NEW s, Timed(s), NEW w, Good(s, w), w.inputs # <<>>, Head(w.inputs) <= w.now,
         NEW u, u = Fed(s, w)
  PROVE  /\ Good(s, u) /\ u.now = w.now /\ u.target = w.target /\ u.work = w.work /\ u.failed = w.failed
<1> DEFINE fed == Len(s.inputs) - Len(w.inputs) + 1
           f == <<"input", fed>>
           c == <<f, w.now>>
           q == Tail(w.inputs)
           r == Append(w.played, c)
<1>1. /\ w \in ClockStates(s) /\ w.now \in Nat
      /\ w.played \in Seq(ClockCalls(s)) /\ DOMAIN w.played = 1..Len(w.played) /\ Len(w.played) \in Nat
      /\ \A i \in DOMAIN w.played :
           /\ w.played[i] = <<w.played[i][1], w.played[i][2]>>
           /\ w.played[i][1] \in ({"input"} \X Nat) \cup Callbacks(s) /\ w.played[i][2] \in Nat
      /\ w.inputs \in Seq(Nat) /\ DOMAIN w.inputs = 1..Len(w.inputs) /\ Len(w.inputs) \in Nat
      /\ Len(s.inputs) \in Nat
  BY GoodFields
<1>2. Ticking(w) /\ InputsFed(s, w) /\ InTurn(w) /\ Fresh(s, w) /\ \A e \in Callbacks(s) : Standing(s, w, e)
  BY DEF Good
<1>3. /\ Len(w.inputs) \in Nat \ {0} /\ Len(w.inputs) <= Len(s.inputs)
      /\ w.inputs[1] = s.inputs[fed] /\ w.inputs[1] = w.now
      /\ q \in Seq(Nat) /\ Len(q) = Len(w.inputs) - 1
      /\ \A j \in 1..Len(q) : q[j] = w.inputs[j + 1]
  <2>1. Len(w.inputs) \in Nat \ {0} /\ Head(w.inputs) = w.inputs[1] BY <1>1
  <2>2. 1 \in 1..Len(w.inputs) BY <2>1
  <2>3. w.inputs[1] = s.inputs[Len(s.inputs) - Len(w.inputs) + 1] /\ w.now <= w.inputs[1]
        /\ Len(w.inputs) <= Len(s.inputs)
    BY <1>2, <2>2 DEF InputsFed
  <2>4. w.inputs[1] \in Nat BY <1>1, <2>2
  <2>5. w.inputs[1] = w.now
    <3>1. \A a, b \in Nat : a <= b /\ b <= a => a = b OBVIOUS
    <3>2. w.inputs[1] <= w.now BY <2>1, Zenon
    <3> QED BY <1>1, <2>3, <2>4, <3>1, <3>2, Zenon
  <2>6. q \in Seq(Nat) /\ Len(q) = Len(w.inputs) - 1 /\ \A j \in 1..Len(q) : q[j] = w.inputs[j + 1]
    BY <1>1, <2>1
  <2> QED BY <2>1, <2>3, <2>5, <2>6
<1>4. fed \in Nat \ {0} BY <1>1, <1>3
<1>5. u = [[w EXCEPT !.inputs = q] EXCEPT !.played = r] BY <1>1 DEF ClockStates, Fed
<1> HIDE DEF q, r, fed
<1>6. c \in ClockCalls(s) BY <1>1, <1>4 DEF ClockCalls
<1>7. /\ r \in Seq(ClockCalls(s))
      /\ DOMAIN r = 1..(Len(w.played) + 1)
      /\ \A i \in 1..Len(w.played) : i \in DOMAIN r /\ r[i] = w.played[i]
      /\ r[Len(w.played) + 1] = c
      /\ \A x : Has(r, x) <=> HasPlayed(w, x) \/ x = c
  <2> HIDE DEF c
  <2> QED BY <1>1, <1>6, AppendHas DEF r, HasPlayed
<1>8. u \in ClockStates(s) BY <1>1, <1>3, <1>5, <1>7 DEF ClockStates
<1>9. /\ u.inputs = q /\ u.played = r
      /\ u.now = w.now /\ u.target = w.target /\ u.work = w.work /\ u.failed = w.failed
      /\ u.ticks = w.ticks /\ u.last = w.last /\ u.nextTick = w.nextTick
      /\ u.metros = w.metros /\ u.slots = w.slots /\ u.queue = w.queue
  BY <1>1, <1>5 DEF ClockStates
<1>10. Ticking(u) BY <1>2, <1>9 DEF Ticking
<1>11. w.queue = <<>> /\ \A i \in DOMAIN w.played : w.played[i][2] = w.now => w.played[i][1][1] = "input"
  <2>1. Awaits(s, w) 
    <3>1. 1 \in 1..Len(w.inputs) /\ w.inputs[1] <= w.now BY <1>1, <1>3
    <3> QED BY <3>1 DEF Awaits
  <2> QED BY <1>2, <2>1 DEF Fresh
<1>12. f[1] = "input" /\ f[2] = fed /\ c[1] = f /\ c[2] = w.now OBVIOUS
<1>13. \A e \in Callbacks(s) : f # e BY <1>12, CallbackIs
<1>14. InputsFed(s, u)
  <2>1. Len(q) <= Len(s.inputs) BY <1>1, <1>3
  <2>2. ASSUME NEW j \in 1..Len(q)
        PROVE  q[j] = s.inputs[Len(s.inputs) - Len(q) + j] /\ w.now <= q[j]
    <3>1. j + 1 \in 1..Len(w.inputs) /\ Len(s.inputs) - Len(q) + j = Len(s.inputs) - Len(w.inputs) + (j + 1)
      <4> DEFINE a == Len(s.inputs)
                 b == Len(w.inputs)
                 m == Len(q)
      <4>1. a \in Nat /\ b \in Nat /\ m = b - 1 /\ j \in 1..m BY <1>1, <1>3
      <4> HIDE DEF a, b, m
      <4>2. j + 1 \in 1..b /\ a - m + j = a - b + (j + 1) BY <4>1
      <4> QED BY <4>2, Zenon DEF a, b, m
    <3>2. w.inputs[j + 1] = s.inputs[Len(s.inputs) - Len(w.inputs) + (j + 1)] /\ w.now <= w.inputs[j + 1]
      BY <1>2, <3>1 DEF InputsFed
    <3> QED BY <1>3, <3>1, <3>2
  <2>3. ASSUME NEW i, NEW t
        PROVE  HasPlayed(u, <<<<"input", i>>, t>>) <=> i \in 1..(Len(s.inputs) - Len(q)) /\ t = s.inputs[i]
    <3>1. <<<<"input", i>>, t>> = c <=> i = fed /\ t = w.now OBVIOUS
    <3>2. HasPlayed(u, <<<<"input", i>>, t>>) <=>
             HasPlayed(w, <<<<"input", i>>, t>>) \/ (i = fed /\ t = w.now)
      BY <1>7, <1>9, <3>1 DEF HasPlayed
    <3>3. HasPlayed(w, <<<<"input", i>>, t>>) <=>
             i \in 1..(Len(s.inputs) - Len(w.inputs)) /\ t = s.inputs[i]
      BY <1>2 DEF InputsFed
    <3>4. i \in 1..(Len(s.inputs) - Len(q)) <=> i \in 1..(Len(s.inputs) - Len(w.inputs)) \/ i = fed
      <4>1. \A a, b, m \in Nat : m = b - 1 /\ b <= a =>
              (i \in 1..(a - m) <=> i \in 1..(a - b) \/ i = a - b + 1)
        OBVIOUS
      <4>2. Len(q) \in Nat BY <1>3
      <4> QED BY <1>1, <1>3, <4>1, <4>2 DEF fed
    <3> QED BY <1>3, <3>2, <3>3, <3>4
  <2> QED BY <1>9, <2>1, <2>2, <2>3 DEF InputsFed
<1>15. InTurn(u)
  <2>1. \A i \in DOMAIN r :
          (i \in DOMAIN w.played /\ r[i] = w.played[i]) \/ (i = Len(w.played) + 1 /\ r[i] = c)
    BY <1>1, <1>7
  <2>2. ASSUME NEW i \in DOMAIN w.played PROVE Precedes(w.played[i], c)
    <3> DEFINE d == w.played[i]
    <3>1. d = <<d[1], d[2]>> /\ d[1] \in ({"input"} \X Nat) \cup Callbacks(s) /\ d[2] \in Nat /\ d[2] <= w.now
      BY <1>1, <1>2 DEF InTurn
    <3>2. f \in ({"input"} \X Nat) \cup Callbacks(s) BY <1>4
    <3>3. Rank(f) = 0 BY <1>12, <3>2, RanksAre
    <3>4. d[2] = w.now => Rank(d[1]) = 0 /\ d[1][2] < fed
      <4>1. SUFFICES ASSUME d[2] = w.now PROVE Rank(d[1]) = 0 /\ d[1][2] < fed OBVIOUS
      <4>2. d[1][1] = "input" BY <1>11, <4>1
      <4>3. Rank(d[1]) = 0 /\ d[1] = <<d[1][1], d[1][2]>> BY <3>1, <4>2, RanksAre
      <4>4. d = <<<<"input", d[1][2]>>, w.now>> BY <3>1, <4>1, <4>2, <4>3
      <4>5. HasPlayed(w, <<<<"input", d[1][2]>>, w.now>>) BY <4>4 DEF HasPlayed, Has
      <4>6. d[1][2] \in 1..(Len(s.inputs) - Len(w.inputs)) BY <1>2, <4>5 DEF InputsFed
      <4>7. \A a, b \in Nat : \A m \in 1..(a - b) : m < a - b + 1 OBVIOUS
      <4>8. d[1][2] < fed BY <1>1, <4>6, <4>7 DEF fed
      <4> QED BY <4>3, <4>8
    <3> HIDE DEF d, f
    <3>5. Precedes(<<d[1], d[2]>>, <<f, w.now>>) BY <1>1, <1>12, <3>1, <3>2, <3>3, <3>4, PrecedesIs
    <3> QED BY <3>1, <3>5 DEF d
  <2> HIDE DEF c, f
  <2>3. ASSUME NEW i \in DOMAIN r, NEW j \in DOMAIN r, i < j PROVE Precedes(r[i], r[j])
    <3>1. i \in DOMAIN w.played /\ r[i] = w.played[i] BY <1>1, <1>7, <2>1, <2>3
    <3>2. CASE j \in DOMAIN w.played /\ r[j] = w.played[j] BY <1>2, <2>3, <3>1, <3>2 DEF InTurn
    <3>3. CASE r[j] = c BY <2>2, <3>1, <3>3
    <3> QED BY <2>1, <3>2, <3>3
  <2>4. ASSUME NEW i \in DOMAIN r PROVE r[i][2] <= w.now
    <3>1. CASE i \in DOMAIN w.played /\ r[i] = w.played[i] BY <1>2, <3>1 DEF InTurn
    <3>2. CASE r[i] = c BY <1>1, <1>12, <3>2
    <3> QED BY <2>1, <3>1, <3>2
  <2>5. DOMAIN u.queue = {} BY <1>9, <1>11
  <2> QED BY <1>9, <2>3, <2>4, <2>5 DEF InTurn
<1>16. Fresh(s, u)
  <2>1. ASSUME NEW i \in DOMAIN r, r[i][2] = w.now PROVE r[i][1][1] = "input"
    <3>1. (i \in DOMAIN w.played /\ r[i] = w.played[i]) \/ r[i] = c BY <1>1, <1>7
    <3> QED BY <1>11, <1>12, <2>1, <3>1
  <2> QED BY <1>9, <1>11, <2>1 DEF Fresh
<1>17. ASSUME NEW e \in Callbacks(s) PROVE Standing(s, u, e)
  <2>1. StandsAs(s, w, e, Struck(s, w, e)) BY <1>2 DEF Standing
  <2>2. \A t : HasPlayed(u, <<e, t>>) <=> HasPlayed(w, <<e, t>>)
    <3>1. \A t : <<e, t>> # c BY <1>13
    <3> QED BY <1>7, <1>9, <3>1 DEF HasPlayed
  <2>3. Struck(s, u, e) = Struck(s, w, e)
    <3>1. s.cancel # <<>> => s.cancel[1] # f
      <4>1. s.cancel # <<>> => s.cancel[1] \in Callbacks(s) BY DEF Timed
      <4> QED BY <1>13, <4>1
    <3>2. \A i \in DOMAIN r : (i \in DOMAIN w.played /\ r[i] = w.played[i]) \/ r[i][1] = f
      BY <1>1, <1>7, <1>12
    <3>3. \A i \in DOMAIN w.played : i \in DOMAIN r /\ r[i] = w.played[i] BY <1>1, <1>7
    <3>4. Fired(s, u) <=> Fired(s, w) BY <1>9, <3>1, <3>2, <3>3 DEF Fired
    <3> QED BY <3>4 DEF Struck
  <2>4. (InQueue(u, e) <=> InQueue(w, e)) /\ (Heeded(u, e) <=> Heeded(w, e))
    BY <1>9 DEF InQueue, Heeded
  <2>5. \A t : Came(u, e, t) <=> Came(w, e, t) BY <1>9, <2>2, <2>4 DEF Came
  <2>6. StandsAs(s, u, e, Struck(s, w, e)) BY <1>9, <2>1, <2>4, <2>5, SameStanding
  <2> QED BY <2>3, <2>6 DEF Standing
<1> QED BY <1>8, <1>9, <1>10, <1>14, <1>15, <1>16, <1>17 DEF Good

-----------------------------------------------------------------------------
(* Time moves, and not past anything that is due.                           *)

LEMMA MinIs ==
  ASSUME NEW T \in SUBSET Nat, T # {} PROVE Min(T) \in T /\ \A y \in T : Min(T) <= y
<1>1. \E x \in T : \A y \in T : x <= y BY Counting!LeastNumber
<1> QED BY <1>1 DEF Min

LEMMA MaxIs ==
  ASSUME NEW a \in Nat, NEW b \in Nat
  PROVE  Max({a, b}) \in {a, b} /\ a <= Max({a, b}) /\ b <= Max({a, b})
<1>1. \E x \in {a, b} : \A y \in {a, b} : x >= y
  <2>1. CASE a <= b BY <2>1
  <2>2. CASE b <= a BY <2>2
  <2> QED BY <2>1, <2>2
<1>2. Max({a, b}) \in {a, b} /\ \A y \in {a, b} : Max({a, b}) >= y BY <1>1 DEF Max
<1> QED BY <1>2

LEMMA TimePasses ==
  ASSUME NEW s, Timed(s), NEW w, Good(s, w), ~Awaits(s, w), w.queue = <<>>,
         NEW n \in Nat, w.now < n, n <= CeilOf(w.nextTick, TickDen),
         \A e \in Callbacks(s) : Armed(w, e) => n <= Upcoming(s, w, e),
         \A j \in 1..Len(w.inputs) : n <= w.inputs[j],
         NEW u, u = [w EXCEPT !.now = n]
  PROVE  /\ Good(s, u) /\ u.now = n /\ u.target = w.target /\ u.work = w.work /\ u.failed = w.failed
<1>1. /\ w \in ClockStates(s) /\ w.now \in Nat /\ DOMAIN w.inputs = 1..Len(w.inputs)
      /\ \A i \in DOMAIN w.played : w.played[i][2] \in Nat
  BY GoodFields
<1>2. Ticking(w) /\ InputsFed(s, w) /\ InTurn(w) /\ \A e \in Callbacks(s) : Standing(s, w, e)
  BY DEF Good
<1>3. u \in ClockStates(s) BY <1>1 DEF ClockStates
<1>4. /\ u.now = n /\ u.target = w.target /\ u.work = w.work /\ u.failed = w.failed
      /\ u.ticks = w.ticks /\ u.last = w.last /\ u.nextTick = w.nextTick
      /\ u.metros = w.metros /\ u.slots = w.slots /\ u.queue = w.queue
      /\ u.inputs = w.inputs /\ u.played = w.played
  BY <1>1 DEF ClockStates
<1>5. Ticking(u)
  <2>1. w.last \in Nat BY <1>1, TimedIsScripted, StateIs
  <2> QED BY <1>1, <1>2, <1>4, <2>1 DEF Ticking
<1>6. InputsFed(s, u) BY <1>2, <1>4 DEF InputsFed, HasPlayed
<1>7. \A i \in DOMAIN w.played : w.played[i][2] < n
  <2>1. \A i \in DOMAIN w.played : w.played[i][2] <= w.now BY <1>2 DEF InTurn
  <2> QED BY <1>1, <2>1
<1>8. DOMAIN u.queue = {} BY <1>4
<1>9. InTurn(u)
  <2>1. \A i \in DOMAIN u.played : u.played[i][2] <= u.now BY <1>1, <1>4, <1>7
  <2>2. \A i, j \in DOMAIN u.played : i < j => Precedes(u.played[i], u.played[j])
    BY <1>2, <1>4 DEF InTurn
  <2> QED BY <1>8, <2>1, <2>2 DEF InTurn
<1>10. Fresh(s, u)
  <2>1. \A i \in DOMAIN u.played : u.played[i][2] # u.now BY <1>1, <1>4, <1>7
  <2> QED BY <1>4, <2>1 DEF Fresh
<1>11. ASSUME NEW e \in Callbacks(s) PROVE Standing(s, u, e)
  <2> DEFINE b == Struck(s, w, e)
  <2>1. StandsAs(s, w, e, b) BY <1>2 DEF Standing
  <2>2. Struck(s, u, e) = b
    <3>1. Fired(s, u) = Fired(s, w) BY <1>4 DEF Fired
    <3> QED BY <3>1 DEF Struck
  <2> HIDE DEF b
  <2>3. /\ Upcoming(s, u, e) = Upcoming(s, w, e) /\ (Armed(u, e) <=> Armed(w, e))
        /\ (Heeded(u, e) <=> Heeded(w, e)) /\ (Counter(s, u, e) <=> Counter(s, w, e))
    BY <1>4, SameSource
  <2>4. ~InQueue(u, e) /\ ~InQueue(w, e) BY <1>4, <1>8 DEF InQueue, Has
  <2>5. \A t : Came(u, e, t) <=> Came(w, e, t) BY <1>4, <2>4 DEF Came, HasPlayed
  <2>6. \A t \in CallTimes(s, e) : t \in Nat
    <3>1. 1 \in Nat \ {0} OBVIOUS
    <3> QED BY <3>1, NextTime
  <2>7. ~b /\ ~Armed(w, e) => e[1] = "metro" /\ \A t \in CallTimes(s, e) : t <= w.now
    BY <2>1, <2>4, CallbackIs DEF StandsAs
  <2>8. ~b /\ ~Armed(u, e) => e[1] = "metro" /\ \A t \in CallTimes(s, e) : t <= w.now /\ t <= u.now
    BY <1>1, <1>4, <2>3, <2>6, <2>7
  <2>9. \A t : Came(u, e, t) <=>
          /\ t \in CallTimes(s, e)
          /\ IF b THEN Keeps(s, e, t)
             ELSE IF Armed(u, e) THEN t < Upcoming(s, u, e) ELSE t <= u.now
    <3>1. \A t : Came(w, e, t) <=>
            /\ t \in CallTimes(s, e)
            /\ IF b THEN Keeps(s, e, t)
               ELSE IF Armed(w, e) THEN t < Upcoming(s, w, e) ELSE t <= w.now
      BY <2>1 DEF StandsAs
    <3>2. CASE b \/ Armed(w, e) BY <2>3, <2>5, <3>1, <3>2
    <3>3. CASE ~b /\ ~Armed(w, e) BY <2>3, <2>5, <2>7, <2>8, <3>1, <3>3
    <3> QED BY <3>2, <3>3
  <2>10. (b => ~Armed(u, e)) /\ (e[1] = "thread" => (Heeded(u, e) <=> ~b))
    BY <2>1, <2>3 DEF StandsAs
  <2>11. Armed(u, e) => Counter(s, u, e) /\ u.now <= Upcoming(s, u, e)
    BY <1>4, <2>1, <2>3 DEF StandsAs
  <2>12. StandsAs(s, u, e, b) BY <2>4, <2>8, <2>9, <2>10, <2>11 DEF StandsAs
  <2> QED BY <2>2, <2>12 DEF Standing
<1> QED BY <1>3, <1>4, <1>5, <1>6, <1>9, <1>10, <1>11 DEF Good

\* A deadline is a number, and a callback that waits has one up to its time.
LEMMA DeadlinesAre ==
  ASSUME Timed(script), NEW w, Good(script, w), ~Awaits(script, w), w.now < CeilOf(w.nextTick, TickDen)
  PROVE  /\ Deadlines(w) \in SUBSET Nat
         /\ CeilOf(w.nextTick, TickDen) \in Deadlines(w)
         /\ \A j \in 1..Len(w.inputs) : w.inputs[j] \in Deadlines(w) /\ w.now < w.inputs[j]
         /\ \A e \in Callbacks(script) : Armed(w, e) =>
              w.now < Upcoming(script, w, e) /\ \E d \in Deadlines(w) : d <= Upcoming(script, w, e)
<1> DEFINE s == script
           D == Deadlines(w)
           c == CeilOf(w.nextTick, TickDen)
<1>1. /\ Scripted(s) /\ w \in ClockStates(s) /\ w.now \in Nat
      /\ w.inputs \in Seq(Nat) /\ DOMAIN w.inputs = 1..Len(w.inputs)
      /\ \A j \in DOMAIN w.inputs : w.inputs[j] \in Nat
  BY GoodFields, SequenceIs
<1>2. /\ w.ticks \in Nat /\ w.last \in Nat /\ w.nextTick \in Nat
      /\ w.metros \in [DOMAIN s.metros -> [on : BOOLEAN, due : Nat, left : Nat \cup {Endless}]]
      /\ w.slots \in [DOMAIN s.threads -> [alive : BOOLEAN, ready : BOOLEAN, at : Nat]]
  BY <1>1, StateIs
<1>3. c \in Nat BY <1>2, Tempo, Ceiling
<1>4. c \in D BY DEF Deadlines
<1>5. \A j \in 1..Len(w.inputs) : w.inputs[j] \in D /\ w.now < w.inputs[j]
  <2> TAKE j \in 1..Len(w.inputs)
  <2>1. w.inputs[j] \in D BY <1>1 DEF Deadlines, InputDeadlines
  <2>2. ~(w.inputs[j] <= w.now) BY DEF Awaits
  <2> QED BY <1>1, <2>1, <2>2
<1>6. /\ w.last = CeilOf(w.ticks * TickNum, TickDen) /\ w.last <= w.now
      /\ c = CeilOf((w.ticks + 1) * TickNum, TickDen)
  BY DEF Good, Ticking
<1> HIDE DEF D, c
<1>7. \A i \in DOMAIN w.slots : i \in DOMAIN s.threads /\ <<"thread", i>> \in Callbacks(s)
  BY <1>2 DEF Callbacks
<1>8. \A i \in DOMAIN w.metros : i \in DOMAIN s.metros /\ <<"metro", i>> \in Callbacks(s)
  BY <1>2 DEF Callbacks
<1>9. ASSUME NEW e \in Callbacks(s), Armed(w, e)
      PROVE  w.now < Upcoming(s, w, e) /\ Upcoming(s, w, e) \in Nat
  <2>1. Upcoming(s, w, e) \in Nat BY <1>1, <1>9, SourceIs
  <2>2. ~(Upcoming(s, w, e) <= w.now) BY <1>9 DEF Awaits
  <2> QED BY <1>1, <2>1, <2>2
\* The deadline of a sync, which is exact for the beat of the last pulse.
<1>10. ASSUME NEW i \in Ready(w, "sync")
       PROVE  /\ w.last + ((w.slots[i].at - w.ticks) * TickNum) \div TickDen + 1 \in Nat
              /\ \/ w.last + ((w.slots[i].at - w.ticks) * TickNum) \div TickDen + 1
                      <= Upcoming(s, w, <<"thread", i>>)
                 \/ c <= Upcoming(s, w, <<"thread", i>>)
  <2> DEFINE e == <<"thread", i>>
             k == w.slots[i].at
             x == (k - w.ticks) * TickNum
  <2>1. i \in DOMAIN w.slots /\ w.slots[i].ready /\ s.threads[i].kind = "sync" BY DEF Ready
  <2>2. e \in Callbacks(s) /\ e[1] # "metro" /\ e[2] = i BY <1>7, <2>1
  <2>3. w.slots[i] \in [alive : BOOLEAN, ready : BOOLEAN, at : Nat] /\ k \in Nat BY <1>2, <2>1
  <2>4. w.slots[i].ready = TRUE BY <2>1, <2>3
  <2>5. Armed(w, e) BY <2>2, <2>4 DEF Armed
  <2>6. Upcoming(s, w, e) = CeilOf(k * TickNum, TickDen) + 1 BY <2>1, <2>2 DEF Upcoming
  <2>7. w.now < Upcoming(s, w, e) /\ Upcoming(s, w, e) \in Nat BY <1>9, <2>2, <2>5
  <2>8. /\ k < w.ticks => CeilOf(k * TickNum, TickDen) + 1 <= w.last
        /\ w.ticks < k => CeilOf((w.ticks + 1) * TickNum, TickDen) <= CeilOf(k * TickNum, TickDen)
    <3>1. w.now < CeilOf((w.ticks + 1) * TickNum, TickDen) BY <1>6 DEF c
    <3> QED BY <1>1, <1>2, <1>6, <2>3, <3>1, SyncWakes
  <2>9. ~(k < w.ticks) BY <1>1, <1>2, <1>6, <2>6, <2>7, <2>8
  <2>10. k - w.ticks \in Nat BY <1>2, <2>3, <2>9
  <2>11. x \in Nat BY <2>10, Tempo
  <2>12. k = w.ticks => x = 0 BY <1>2, Tempo
  <2> HIDE DEF x, k, e
  <2>13. x \div TickDen \in Nat BY <2>11, Tempo, Quotient
  <2>14. w.last + x \div TickDen + 1 \in Nat BY <1>2, <2>13
  <2>15. ASSUME k = w.ticks PROVE w.last + x \div TickDen + 1 <= Upcoming(s, w, e)
    <3>1. x \div TickDen = 0 BY <2>12, <2>15, Tempo
    <3>2. CeilOf(k * TickNum, TickDen) = w.last BY <1>6, <2>15, Zenon
    <3>3. Upcoming(s, w, e) = w.last + 1 BY <2>6, <3>2, Zenon
    <3>4. w.last + x \div TickDen + 1 = w.last + 1 BY <1>2, <3>1
    <3> QED BY <1>2, <3>3, <3>4
  <2>16. ASSUME w.ticks < k PROVE c <= Upcoming(s, w, e)
    <3>1. CeilOf(k * TickNum, TickDen) \in Nat
      <4>1. k * TickNum \in Nat BY <2>3, Tempo
      <4> QED BY <4>1, Tempo, Ceiling
    <3>2. c <= CeilOf(k * TickNum, TickDen) BY <1>6, <2>8, <2>16, Zenon
    <3>3. \A a, b \in Nat : a <= b => a <= b + 1 OBVIOUS
    <3>4. c <= Upcoming(s, w, e) BY <1>3, <2>6, <3>1, <3>2, <3>3, Zenon
    <3> QED BY <3>4
  <2>17. \/ w.last + x \div TickDen + 1 <= Upcoming(s, w, e)
         \/ c <= Upcoming(s, w, e)
    <3>1. k = w.ticks \/ w.ticks < k
      <4>1. \A a, b \in Nat : ~(a < b) => a = b \/ b < a OBVIOUS
      <4>2. k \in Nat /\ w.ticks \in Nat BY <1>2, <2>3
      <4> QED BY <2>9, <4>1, <4>2, Zenon
    <3> QED BY <2>15, <2>16, <3>1, Zenon
  <2> QED BY <2>14, <2>17, Zenon DEF x, k, e
<1>11. D \in SUBSET Nat
  <2>1. InputDeadlines(w) \subseteq Nat BY <1>1 DEF InputDeadlines
  <2>2. MetroDeadlines(w) \subseteq Nat BY <1>2 DEF MetroDeadlines
  <2>3. SleepDeadlines(w) \subseteq Nat BY <1>2 DEF SleepDeadlines, Ready
  <2>4. SyncDeadlines(w) \subseteq Nat BY <1>10 DEF SyncDeadlines
  <2> QED BY <1>3, <2>1, <2>2, <2>3, <2>4 DEF D, Deadlines, c
<1>12. ASSUME NEW e \in Callbacks(s), Armed(w, e) PROVE \E d \in D : d <= Upcoming(s, w, e)
  <2>1. Upcoming(s, w, e) \in Nat BY <1>9, <1>12
  <2>2. CASE e[1] = "metro"
    <3>1. w.metros[e[2]].on = TRUE /\ e[2] \in DOMAIN w.metros BY <1>2, <1>12, <2>2, CallbackIs DEF Armed
    <3>2. w.metros[e[2]].due \in D BY <3>1 DEF D, Deadlines, MetroDeadlines
    <3>3. Upcoming(s, w, e) = w.metros[e[2]].due BY <2>2 DEF Upcoming
    <3> QED BY <2>1, <3>2, <3>3
  <2>3. CASE e[1] = "thread"
    <3> DEFINE i == e[2]
    <3>1. /\ e[1] # "metro" /\ e = <<"thread", i>> /\ i \in DOMAIN w.slots
          /\ s.threads[i].kind \in {"sleep", "sync"}
      BY <1>2, <2>3, CallbackIs
    <3>2. w.slots[i].ready = TRUE BY <1>12, <3>1 DEF Armed
    <3>3. CASE s.threads[i].kind = "sleep"
      <4>1. w.slots[i].at \in D BY <3>1, <3>2, <3>3 DEF D, Deadlines, SleepDeadlines, Ready
      <4>2. Upcoming(s, w, e) = w.slots[i].at BY <3>1, <3>3 DEF Upcoming
      <4> QED BY <2>1, <4>1, <4>2
    <3>4. CASE s.threads[i].kind = "sync"
      <4>1. i \in Ready(w, "sync") BY <3>1, <3>2, <3>4 DEF Ready
      <4>2. w.last + ((w.slots[i].at - w.ticks) * TickNum) \div TickDen + 1 \in D
        BY <4>1 DEF D, Deadlines, SyncDeadlines
      <4> QED BY <1>4, <1>10, <3>1, <4>1, <4>2 DEF D, c
    <3> QED BY <3>1, <3>3, <3>4
  <2> QED BY <2>2, <2>3, CallbackIs
<1> QED BY <1>4, <1>5, <1>9, <1>11, <1>12 DEF D, c

\* The next moment is after this one, within the advance, and no deadline is missed.
LEMMA NextMoment ==
  ASSUME Timed(script), NEW w, Good(script, w), ~Awaits(script, w), w.now < CeilOf(w.nextTick, TickDen),
         w.target \in Nat, w.now < w.target,
         NEW n, n = Min({Max({w.now + 1, Min(Deadlines(w))}), w.target})
  PROVE  /\ n \in Nat /\ w.now < n /\ n <= w.target /\ n <= CeilOf(w.nextTick, TickDen)
         /\ \A e \in Callbacks(script) : Armed(w, e) => n <= Upcoming(script, w, e)
         /\ \A j \in 1..Len(w.inputs) : n <= w.inputs[j]
<1> DEFINE s == script
           m == Min(Deadlines(w))
           x == Max({w.now + 1, m})
<1>1. /\ w.now \in Nat /\ w \in ClockStates(s) /\ w.inputs \in Seq(Nat) BY GoodFields
<1>2. /\ Deadlines(w) \in SUBSET Nat
      /\ CeilOf(w.nextTick, TickDen) \in Deadlines(w)
      /\ \A j \in 1..Len(w.inputs) : w.inputs[j] \in Deadlines(w) /\ w.now < w.inputs[j]
      /\ \A e \in Callbacks(s) : Armed(w, e) =>
           w.now < Upcoming(s, w, e) /\ \E d \in Deadlines(w) : d <= Upcoming(s, w, e)
  BY DeadlinesAre
<1>3. m \in Nat /\ \A d \in Deadlines(w) : m <= d
  <2>1. m \in Deadlines(w) /\ \A d \in Deadlines(w) : m <= d BY <1>2, MinIs
  <2> QED BY <1>2, <2>1
<1> HIDE DEF m
<1>4. x \in {w.now + 1, m} /\ w.now + 1 <= x /\ x \in Nat
  <2>1. w.now + 1 \in Nat BY <1>1
  <2>2. x \in {w.now + 1, m} /\ w.now + 1 <= x BY <1>3, <2>1, MaxIs
  <2> QED BY <1>3, <2>1, <2>2
<1> HIDE DEF x
<1>5. n \in {x, w.target} /\ n <= x /\ n <= w.target
  <2> DEFINE T == {x, w.target}
  <2>1. T \in SUBSET Nat /\ T # {} BY <1>4
  <2>2. n = Min(T) BY DEF x, m
  <2> HIDE DEF T
  <2>3. n \in T /\ \A y \in T : n <= y
    <3>1. Min(T) \in T /\ \A y \in T : Min(T) <= y BY <2>1, MinIs
    <3> QED BY <2>2, <3>1, Zenon
  <2> QED BY <2>3 DEF T
<1>6. n \in Nat /\ w.now < n BY <1>1, <1>4, <1>5
<1>7. ASSUME NEW b \in Nat, w.now < b, \E d \in Deadlines(w) : d <= b PROVE n <= b
  <2>1. PICK d \in Deadlines(w) : d <= b BY <1>7
  <2>2. d \in Nat /\ m <= d BY <1>2, <1>3
  <2> QED BY <1>1, <1>3, <1>4, <1>5, <1>6, <1>7, <2>1, <2>2
<1>8. n <= CeilOf(w.nextTick, TickDen)
  <2>1. CeilOf(w.nextTick, TickDen) \in Nat BY <1>2
  <2>2. CeilOf(w.nextTick, TickDen) <= CeilOf(w.nextTick, TickDen) BY <2>1
  <2> QED BY <1>2, <1>7, <2>1, <2>2
<1>9. ASSUME NEW j \in 1..Len(w.inputs) PROVE n <= w.inputs[j]
  <2>1. w.inputs[j] \in Nat /\ w.inputs[j] <= w.inputs[j] /\ w.now < w.inputs[j] BY <1>2
  <2> QED BY <1>2, <1>7, <2>1
<1>10. ASSUME NEW e \in Callbacks(s), Armed(w, e) PROVE n <= Upcoming(s, w, e)
  <2>1. Upcoming(s, w, e) \in Nat BY <1>1, SourceIs
  <2> QED BY <1>2, <1>7, <1>10, <2>1
<1> QED BY <1>5, <1>6, <1>8, <1>9, <1>10

-----------------------------------------------------------------------------
(* The invariant holds of every state of the clock.                         *)

\* A script that comes to rest is timed; one that does not is cancelled by nothing.
LEMMA ScriptIs ==
  ASSUME script \in Scripts
  PROVE  /\ Scripted(script) /\ script.cancel \in {<<>>} \cup Callbacks(script) \X Callbacks(script)
         /\ ~NeverRests(script) => Timed(script)
         /\ NeverRests(script) =>
              script.cancel = <<>> /\ \A i \in DOMAIN script.metros :
                                        script.metros[i].period = 0 => script.metros[i].count = Endless
<1> DEFINE s == script
<1>1. /\ s \in [metros : Seq([period : Nat, count : Nat \cup {Endless}]),
                threads : Seq([kind : {"sleep", "sync"}, every : Nat]),
                inputs : Seq(Nat),
                cancel : {<<>>} \cup Callbacks(s) \X Callbacks(s)]
      /\ \A i, j \in DOMAIN s.inputs : i < j => s.inputs[i] <= s.inputs[j]
      /\ \A i \in DOMAIN s.threads : s.threads[i].kind = "sync" => s.threads[i].every > 0
      /\ NeverRests(s) =>
           s.cancel = <<>> /\ \A i \in DOMAIN s.metros :
                                s.metros[i].period = 0 => s.metros[i].count = Endless
  BY ScriptsAssumption, Zenon
<1> HIDE DEF s
<1>2. /\ s.metros \in Seq([period : Nat, count : Nat \cup {Endless}])
      /\ s.threads \in Seq([kind : {"sleep", "sync"}, every : Nat])
      /\ s.inputs \in Seq(Nat) /\ s.cancel \in {<<>>} \cup Callbacks(s) \X Callbacks(s)
  BY <1>1
<1>3. Scripted(s) BY <1>2 DEF Scripted
<1>4. ASSUME ~NeverRests(s) PROVE Timed(s)
  <2>1. \A i \in DOMAIN s.metros : s.metros[i] \in [period : Nat \ {0}, count : Nat \cup {Endless}]
    <3> TAKE i \in DOMAIN s.metros
    <3>1. s.metros[i] \in [period : Nat, count : Nat \cup {Endless}] BY <1>2, SequenceIs
    <3>2. s.metros[i].period # 0 BY <1>4 DEF NeverRests
    <3> QED BY <3>1, <3>2
  <2>2. \A i \in DOMAIN s.threads : s.threads[i] \in [kind : {"sleep", "sync"}, every : Nat \ {0}]
    <3> TAKE i \in DOMAIN s.threads
    <3>1. s.threads[i] \in [kind : {"sleep", "sync"}, every : Nat] BY <1>2, SequenceIs
    <3>2. s.threads[i].kind = "sleep" => s.threads[i].every # 0 BY <1>4 DEF NeverRests
    <3>3. s.threads[i].kind = "sync" => s.threads[i].every > 0 BY <1>1
    <3> QED BY <3>1, <3>2, <3>3
  <2>3. \A A, B : \A q \in Seq(A) : (\A i \in DOMAIN q : q[i] \in B) => q \in Seq(B) OBVIOUS
  <2>4. s.metros \in Seq([period : Nat \ {0}, count : Nat \cup {Endless}])
    <3> DEFINE A == [period : Nat, count : Nat \cup {Endless}]
               B == [period : Nat \ {0}, count : Nat \cup {Endless}]
    <3>1. s.metros \in Seq(A) /\ \A i \in DOMAIN s.metros : s.metros[i] \in B BY <1>2, <2>1
    <3> HIDE DEF A, B
    <3>2. s.metros \in Seq(B) BY <2>3, <3>1
    <3> QED BY <3>2, Zenon DEF B
  <2>5. s.threads \in Seq([kind : {"sleep", "sync"}, every : Nat \ {0}])
    <3> DEFINE A == [kind : {"sleep", "sync"}, every : Nat]
               B == [kind : {"sleep", "sync"}, every : Nat \ {0}]
    <3>1. s.threads \in Seq(A) /\ \A i \in DOMAIN s.threads : s.threads[i] \in B BY <1>2, <2>2
    <3> HIDE DEF A, B
    <3>2. s.threads \in Seq(B) BY <2>3, <3>1
    <3> QED BY <3>2, Zenon DEF B
  <2> QED BY <1>1, <1>2, <2>4, <2>5, Zenon DEF Timed
<1> QED BY <1>1, <1>2, <1>3, <1>4, Zenon DEF s

Framed(w, t, n, u) ==
  \/ u = [w EXCEPT !.target = t, !.work = n]
  \/ u = [w EXCEPT !.work = n] /\ t = w.target
  \/ u = [w EXCEPT !.target = t, !.failed = TRUE] /\ n = w.work

\* Setting the target, counting an iteration and failing leave the rest alone.
LEMMA FramedIs ==
  ASSUME NEW s, Timed(s), NEW w, Good(s, w), NEW t \in Nat \cup {AtRest}, NEW n \in Nat, NEW u, Framed(w, t, n, u)
  PROVE  /\ Good(s, u) /\ (Idle(s, u) <=> Idle(s, w))
         /\ u.now = w.now /\ u.target = t /\ u.work = n
<1>1. w \in ClockStates(s) BY GoodFields
<1>2. /\ u \in ClockStates(s) /\ u.target = t /\ u.work = n
      /\ u.now = w.now /\ u.ticks = w.ticks /\ u.last = w.last /\ u.nextTick = w.nextTick
      /\ u.metros = w.metros /\ u.slots = w.slots /\ u.inputs = w.inputs /\ u.queue = w.queue
      /\ u.played = w.played
  BY <1>1 DEF ClockStates, Framed
<1>3. Good(s, u) /\ (Awaits(s, u) <=> Awaits(s, w)) BY <1>2, GoodFrame
<1> QED BY <1>2, <1>3, Zenon DEF Idle

LEMMA StartIs ==
  ASSUME ClockInit, Scripted(script)
  PROVE  /\ logical \in ClockStates(script)
         /\ logical.now = 0 /\ logical.target = AtRest /\ logical.work = 0 /\ logical.ticks = 0
         /\ logical.last = 0 /\ logical.nextTick = TickNum /\ logical.inputs = script.inputs
         /\ logical.queue = <<>> /\ logical.played = <<>>
         /\ \A i \in DOMAIN script.metros :
              /\ logical.metros[i].on = TRUE /\ logical.metros[i].due = script.metros[i].period
              /\ logical.metros[i].left = script.metros[i].count
         /\ \A i \in DOMAIN script.threads :
              /\ logical.slots[i].alive = TRUE /\ logical.slots[i].ready = TRUE
              /\ logical.slots[i].at = script.threads[i].every
<1> DEFINE s == script
           w == logical
           M == [i \in DOMAIN script.metros |->
                      [on |-> TRUE, due |-> script.metros[i].period,
                       left |-> script.metros[i].count]]
           L == [i \in DOMAIN script.threads |->
                     [alive |-> TRUE, ready |-> TRUE, at |-> script.threads[i].every]]
<1>1. /\ w = [now |-> 0, target |-> AtRest, work |-> 0, failed |-> FALSE,
              ticks |-> 0, last |-> 0, nextTick |-> TickNum, metros |-> M, slots |-> L,
              inputs |-> s.inputs, queue |-> <<>>, played |-> <<>>]
  BY DEF ClockInit
<1>2. /\ s.inputs \in Seq(Nat)
      /\ \A i \in DOMAIN s.metros : s.metros[i] \in [period : Nat, count : Nat \cup {Endless}]
      /\ \A i \in DOMAIN s.threads : s.threads[i] \in [kind : {"sleep", "sync"}, every : Nat]
  BY SequenceIs, Zenon DEF Scripted
<1>3. M \in [DOMAIN s.metros -> [on : BOOLEAN, due : Nat, left : Nat \cup {Endless}]] BY <1>2
<1>4. L \in [DOMAIN s.threads -> [alive : BOOLEAN, ready : BOOLEAN, at : Nat]] BY <1>2
<1>5. \A i \in DOMAIN s.metros :
        M[i].on = TRUE /\ M[i].due = s.metros[i].period /\ M[i].left = s.metros[i].count
  OBVIOUS
<1>6. \A i \in DOMAIN s.threads : L[i].alive = TRUE /\ L[i].ready = TRUE /\ L[i].at = s.threads[i].every
  OBVIOUS
<1>7. <<>> \in Seq(Callbacks(s)) /\ <<>> \in Seq(ClockCalls(s)) OBVIOUS
<1> HIDE DEF M, L
<1>8. w \in ClockStates(s) BY <1>1, <1>2, <1>3, <1>4, <1>7, Tempo DEF ClockStates
<1>9. /\ w.now = 0 /\ w.target = AtRest /\ w.work = 0 /\ w.ticks = 0 /\ w.last = 0
      /\ w.nextTick = TickNum /\ w.metros = M /\ w.slots = L /\ w.inputs = s.inputs
      /\ w.queue = <<>> /\ w.played = <<>>
  BY <1>1
<1> HIDE DEF w
<1> QED BY <1>5, <1>6, <1>8, <1>9 DEF w

\* At the start every metro and coroutine waits for its first callback.
LEMMA SteadyStart ==
  ASSUME ClockInit, Timed(script) PROVE Steady(script, logical)
<1> DEFINE s == script
           w == logical
<1>1. s.inputs \in Seq(Nat) /\ Scripted(s) BY TimedIsScripted DEF Timed
<1>2. \A i \in DOMAIN s.metros :
        w.metros[i].on = TRUE /\ w.metros[i].due = s.metros[i].period
        /\ w.metros[i].left = s.metros[i].count
  BY <1>1, StartIs
<1>3. \A i \in DOMAIN s.threads :
        w.slots[i].alive = TRUE /\ w.slots[i].ready = TRUE /\ w.slots[i].at = s.threads[i].every
  BY <1>1, StartIs
<1>4. w \in ClockStates(s) BY <1>1, StartIs
<1>5. /\ w.now = 0 /\ w.target = AtRest /\ w.work = 0 /\ w.ticks = 0 /\ w.last = 0
      /\ w.nextTick = TickNum /\ w.inputs = s.inputs /\ w.queue = <<>> /\ w.played = <<>>
  BY <1>1, StartIs
<1> HIDE DEF w
<1>6. \A x : ~Has(w.queue, x) /\ ~HasPlayed(w, x) BY <1>5 DEF Has, HasPlayed
<1>7. Ticking(w)
  <2>1. (0 + 1) * TickNum = TickNum /\ 0 * TickNum = 0 BY Tempo
  <2>2. CeilOf(0, TickDen) = 0
    <3>1. CeilOf(0, TickDen) \in Nat /\ 0 <= TickDen * 0 BY Tempo, Ceiling
    <3>2. CeilOf(0, TickDen) <= 0 BY <3>1, Tempo, CeilingIs
    <3> QED BY <3>1, <3>2
  <2>3. CeilOf(TickNum, TickDen) \in Nat BY Tempo, Ceiling
  <2> QED BY <1>5, <2>1, <2>2, <2>3 DEF Ticking
<1>8. InputsFed(s, w)
  <2>1. Len(s.inputs) \in Nat /\ DOMAIN s.inputs = 1..Len(s.inputs) /\ \A j \in DOMAIN s.inputs : s.inputs[j] \in Nat
    BY <1>1, SequenceIs
  <2>2. \A n \in Nat : n - n = 0 /\ \A j \in 1..n : n - n + j = j OBVIOUS
  <2>3. \A j \in 1..Len(s.inputs) : Len(s.inputs) - Len(s.inputs) + j = j BY <2>1, <2>2
  <2>4. \A i : i \notin 1..(Len(s.inputs) - Len(s.inputs)) BY <2>1
  <2>5. \A j \in 1..Len(s.inputs) : 0 <= s.inputs[j] BY <2>1
  <2>6. Len(s.inputs) <= Len(s.inputs) BY <2>1
  <2> QED BY <1>5, <1>6, <2>3, <2>4, <2>5, <2>6 DEF InputsFed
<1>9. DOMAIN w.queue = {} /\ DOMAIN w.played = {} BY <1>5
<1>10. InTurn(w) /\ Fresh(s, w) BY <1>5, <1>9 DEF InTurn, Fresh
<1>11. ~Fired(s, w) BY <1>9 DEF Fired
<1>12. ASSUME NEW e \in Callbacks(s) PROVE Standing(s, w, e)
  <2>1. ~Struck(s, w, e) BY <1>11 DEF Struck
  <2>2. /\ e[1] \in {"metro", "thread"} /\ "metro" # "thread"
        /\ e[1] = "metro" => e[2] \in DOMAIN s.metros /\ s.metros[e[2]].period \in Nat \ {0}
                             /\ s.metros[e[2]].count \in Nat \cup {Endless}
        /\ e[1] = "thread" => e[2] \in DOMAIN s.threads /\ s.threads[e[2]].every \in Nat \ {0}
    BY CallbackIs
  <2>3. Armed(w, e) /\ Heeded(w, e) BY <1>2, <1>3, <1>5, <2>2 DEF Armed, Heeded
  <2>4. Counter(s, w, e)
    <3>1. \A n \in Nat : n = 1 * n /\ 1 <= n + 1 /\ n = n + 1 - 1 OBVIOUS
    <3>2. 1 \in Nat \ {0} OBVIOUS
    <3>3. CASE e[1] = "metro"
      <4>1. w.metros[e[2]].due = 1 * s.metros[e[2]].period BY <1>2, <1>5, <2>2, <3>1, <3>3
      <4>2. IF s.metros[e[2]].count = Endless THEN w.metros[e[2]].left = Endless
            ELSE 1 <= s.metros[e[2]].count + 1 /\ w.metros[e[2]].left = s.metros[e[2]].count + 1 - 1
        BY <1>2, <1>5, <2>2, <3>1, <3>3
      <4> QED BY <3>2, <3>3, <4>1, <4>2, Zenon DEF Counter
    <3>4. CASE e[1] = "thread"
      <4>1. w.slots[e[2]].at = 1 * s.threads[e[2]].every BY <1>3, <1>5, <2>2, <3>1, <3>4
      <4>2. e[1] # "metro" BY <3>4
      <4> QED BY <3>2, <4>1, <4>2, Zenon DEF Counter
    <3> QED BY <2>2, <3>3, <3>4
  <2>5. ~InQueue(w, e) BY <1>6 DEF InQueue
  <2>6. \A t : ~Came(w, e, t) BY <1>6, <2>5 DEF Came
  <2>7. Upcoming(s, w, e) = CallTime(s, e, 1)
    <3>1. \A n \in Nat : n = 1 * n OBVIOUS
    <3>2. CASE e[1] = "metro"
      <4>1. w.metros[e[2]].due = 1 * s.metros[e[2]].period BY <1>2, <1>5, <2>2, <3>1, <3>2
      <4> QED BY <3>2, <4>1, Zenon DEF Upcoming, CallTime
    <3>3. CASE e[1] = "thread"
      <4>1. w.slots[e[2]].at = 1 * s.threads[e[2]].every BY <1>3, <1>5, <2>2, <3>1, <3>3
      <4>2. e[1] # "metro" BY <3>3
      <4> QED BY <4>1, <4>2, Zenon DEF Upcoming, CallTime
    <3> QED BY <2>2, <3>2, <3>3
  <2>8. \A t : ~(t \in CallTimes(s, e) /\ t < Upcoming(s, w, e))
    <3> SUFFICES ASSUME NEW t \in CallTimes(s, e), t < CallTime(s, e, 1) PROVE FALSE BY <2>7
    <3>1. PICK k \in Nat \ {0} : t = CallTime(s, e, k) BY DEF CallTimes
    <3>2. k = 1 \/ 1 < k BY <3>1
    <3>3. 1 \in Nat /\ 0 \in Nat /\ 0 < 1 OBVIOUS
    <3>4. CallTime(s, e, 1) \in Nat BY <3>3, TimesIncrease
    <3>5. 1 < k => CallTime(s, e, k) \in Nat /\ CallTime(s, e, 1) < CallTime(s, e, k)
      BY <3>1, <3>3, TimesIncrease
    <3> QED BY <3>1, <3>2, <3>4, <3>5
  <2>9. w.now <= Upcoming(s, w, e)
    <3>1. Upcoming(s, w, e) \in Nat BY <1>4, SourceIs
    <3> QED BY <1>5, <3>1
  <2>10. StandsAs(s, w, e, FALSE) BY <2>3, <2>4, <2>5, <2>6, <2>8, <2>9, Zenon DEF StandsAs
  <2>11. Struck(s, w, e) = FALSE BY <2>1 DEF Struck
  <2> QED BY <2>10, <2>11 DEF Standing
<1>13. Good(s, w) BY <1>4, <1>7, <1>8, <1>10, <1>12 DEF Good
<1> QED BY <1>5, <1>13 DEF Steady, AtRest, w

\* No input of this moment is left when none is due.
LEMMA NoInputDue ==
  ASSUME NEW s, Timed(s), NEW w, Good(s, w), ~(w.inputs # <<>> /\ Head(w.inputs) <= w.now)
  PROVE  ~\E j \in 1..Len(w.inputs) : w.inputs[j] <= w.now
<1>1. w.inputs \in Seq(Nat) /\ Len(w.inputs) \in Nat /\ w.now \in Nat BY GoodFields
<1>2. SUFFICES ASSUME NEW j \in 1..Len(w.inputs), w.inputs[j] <= w.now PROVE FALSE OBVIOUS
<1>3. 1 \in 1..Len(w.inputs) /\ 1 <= j BY <1>1
<1>4. w.inputs # <<>> /\ Head(w.inputs) = w.inputs[1] BY <1>1, <1>3
<1>5. w.inputs[1] <= w.inputs[j] /\ w.inputs[1] \in Nat /\ w.inputs[j] \in Nat BY <1>3, InputsAscend
<1> QED BY <1>1, <1>2, <1>4, <1>5

LEMMA SteadyAdvance ==
  ASSUME Timed(script), Steady(script, logical), NEW delta \in Deltas, Advance(delta)
  PROVE  Steady(script, logical')
<1> DEFINE w == logical
           t == w.now + delta
<1>1. Good(script, w) /\ w.now \in Nat BY GoodFields DEF Steady
<1>2. delta \in Nat BY ControlledClockAssumption
<1>3. t \in Nat /\ w.now <= t /\ t # AtRest BY <1>1, <1>2 DEF AtRest
<1>4. logical' = [w EXCEPT !.target = t, !.work = 0] BY DEF Advance
<1> HIDE DEF t, w
<1>5. t \in Nat \cup {AtRest} /\ 0 \in Nat BY <1>3
<1>6. Framed(w, t, 0, logical') BY <1>4 DEF Framed
<1>7. Good(script, logical') /\ logical'.now = w.now /\ logical'.target = t
  BY <1>1, <1>5, <1>6, FramedIs
<1> QED BY <1>3, <1>7 DEF Steady

LEMMA SteadyGiveUp ==
  ASSUME Timed(script), Steady(script, logical), GiveUp PROVE Steady(script, logical')
<1> DEFINE w == logical
           r == AtRest
<1>1. Good(script, w) BY DEF Steady
<1>2. logical' = [w EXCEPT !.target = r, !.failed = TRUE] BY DEF GiveUp
<1>3. w \in ClockStates(script) BY <1>1, GoodFields
<1>4. w.work \in Nat /\ logical'.failed = TRUE BY <1>2, <1>3 DEF ClockStates
<1>5. r \in Nat \cup {AtRest} /\ r = AtRest OBVIOUS
<1> HIDE DEF w, r
<1>6. Framed(w, r, w.work, logical') BY <1>2 DEF Framed
<1>7. Good(script, logical') /\ logical'.target = r BY <1>1, <1>4, <1>5, <1>6, FramedIs
<1> QED BY <1>4, <1>5, <1>7 DEF Steady

\* What an iteration makes of a state is counted, and nothing else.
LEMMA SteadyIterated ==
  ASSUME NEW s, Timed(s), NEW w, Good(s, w), w.target \in Nat, w.now <= w.target,
         NEW n \in Nat, NEW u, u = [w EXCEPT !.work = n]
  PROVE  Steady(s, u)
<1>1. w.target \in Nat \cup {AtRest} /\ w.target # AtRest BY DEF AtRest
<1>2. Framed(w, w.target, n, u) BY DEF Framed
<1>3. Good(s, u) /\ u.now = w.now /\ u.target = w.target BY <1>1, <1>2, FramedIs
<1> QED BY <1>1, <1>3 DEF Steady

LEMMA IteratesIs ==
  ASSUME Timed(script), Steady(script, logical), logical.target # AtRest
  PROVE  /\ Good(script, logical) /\ logical.target \in Nat /\ logical.now <= logical.target
         /\ logical.now \in Nat /\ logical.work \in Nat /\ logical.work + 1 \in Nat
<1>1. Good(script, logical) /\ logical.now <= logical.target BY DEF Steady
<1>2. logical \in ClockStates(script) BY <1>1, GoodFields
<1>3. logical.target \in Nat /\ logical.now \in Nat /\ logical.work \in Nat BY <1>2 DEF ClockStates
<1> QED BY <1>1, <1>3

LEMMA SteadyInput ==
  ASSUME Timed(script), Steady(script, logical), TakeInput PROVE Steady(script, logical')
<1> DEFINE w == logical
           v == Fed(script, w)
<1>1. w.target # AtRest /\ w.inputs # <<>> /\ Head(w.inputs) <= w.now
  BY DEF TakeInput, Iterates, InputDue
<1>2. /\ Good(script, w) /\ w.target \in Nat /\ w.now <= w.target /\ w.work + 1 \in Nat
  BY <1>1, IteratesIs
<1>3. logical' = [v EXCEPT !.work = v.work + 1] BY DEF TakeInput, Iterated, Fed
<1> HIDE DEF w
<1>4. Good(script, v) /\ v.now = w.now /\ v.target = w.target /\ v.work = w.work
  BY <1>1, <1>2, GoodInput
<1> HIDE DEF v
<1> QED BY <1>2, <1>3, <1>4, SteadyIterated

LEMMA SteadyDispatch ==
  ASSUME Timed(script), Steady(script, logical), Dispatch PROVE Steady(script, logical')
<1> DEFINE w == logical
           t == Stepped(w)
           h == Handled(t)
<1>1. w.target # AtRest /\ ~(w.inputs # <<>> /\ Head(w.inputs) <= w.now) /\ t.queue # <<>>
  BY DEF Dispatch, Iterates, InputDue
<1>2. /\ Good(script, w) /\ w.target \in Nat /\ w.now <= w.target /\ w.work + 1 \in Nat
  BY <1>1, IteratesIs
<1>3. logical' = [h EXCEPT !.work = h.work + 1] BY DEF Dispatch, Iterated
<1> HIDE DEF w
<1>4. ~\E j \in 1..Len(w.inputs) : w.inputs[j] <= w.now BY <1>1, <1>2, NoInputDue
<1>5. /\ Good(script, t) /\ ~Awaits(script, t)
      /\ t.now = w.now /\ t.target = w.target /\ t.work = w.work
  BY <1>2, <1>4, GoodStepped
<1> HIDE DEF t
<1>6. Good(script, h) /\ h.now = t.now /\ h.target = t.target /\ h.work = t.work
  BY <1>1, <1>5, GoodHandled
<1> HIDE DEF h
<1> QED BY <1>2, <1>3, <1>5, <1>6, SteadyIterated

LEMMA SteadyMove ==
  ASSUME Timed(script), Steady(script, logical), MoveTime PROVE Steady(script, logical')
<1> DEFINE w == logical
           t == Stepped(w)
           n == Min({Max({t.now + 1, Min(Deadlines(t))}), t.target})
           v == [t EXCEPT !.now = n]
<1>1. /\ w.target # AtRest /\ ~(w.inputs # <<>> /\ Head(w.inputs) <= w.now)
      /\ t.queue = <<>> /\ t.now # t.target
  BY DEF MoveTime, Iterates, InputDue
<1>2. /\ Good(script, w) /\ w.target \in Nat /\ w.now \in Nat /\ w.now <= w.target /\ w.work + 1 \in Nat
  BY <1>1, IteratesIs
<1>3. logical' = [v EXCEPT !.work = v.work + 1] BY DEF MoveTime, Iterated
<1> HIDE DEF w
<1>4. ~\E j \in 1..Len(w.inputs) : w.inputs[j] <= w.now BY <1>1, <1>2, NoInputDue
<1>5. /\ Good(script, t) /\ ~Awaits(script, t) /\ t.now < CeilOf(t.nextTick, TickDen)
      /\ t.now = w.now /\ t.target = w.target /\ t.work = w.work
  BY <1>2, <1>4, GoodStepped
<1> HIDE DEF t
<1>6. t.target \in Nat /\ t.now < t.target BY <1>1, <1>2, <1>5
<1>7. /\ n \in Nat /\ t.now < n /\ n <= t.target /\ n <= CeilOf(t.nextTick, TickDen)
      /\ \A e \in Callbacks(script) : Armed(t, e) => n <= Upcoming(script, t, e)
      /\ \A j \in 1..Len(t.inputs) : n <= t.inputs[j]
  BY <1>5, <1>6, NextMoment
<1> HIDE DEF n
<1>8. Good(script, v) /\ v.now = n /\ v.target = t.target /\ v.work = t.work
  BY <1>1, <1>5, <1>7, TimePasses
<1> HIDE DEF v
<1> QED BY <1>2, <1>3, <1>5, <1>6, <1>7, <1>8, SteadyIterated

LEMMA SteadyEnd ==
  ASSUME Timed(script), Steady(script, logical), EndAdvance PROVE Steady(script, logical')
<1> DEFINE w == logical
           t == Stepped(w)
           r == AtRest
<1>1. /\ w.target # AtRest /\ ~(w.inputs # <<>> /\ Head(w.inputs) <= w.now) /\ t.queue = <<>>
  BY DEF EndAdvance, Iterates, InputDue
<1>2. Good(script, w) /\ w.work + 1 \in Nat BY <1>1, IteratesIs
<1>3. logical' = [t EXCEPT !.target = r, !.work = t.work + 1] BY DEF EndAdvance
<1> HIDE DEF w
<1>4. ~\E j \in 1..Len(w.inputs) : w.inputs[j] <= w.now BY <1>1, <1>2, NoInputDue
<1>5. Good(script, t) /\ ~Awaits(script, t) /\ t.work = w.work BY <1>2, <1>4, GoodStepped
<1>6. Idle(script, t) BY <1>1, <1>5 DEF Idle
<1>7. r \in Nat \cup {AtRest} /\ r = AtRest OBVIOUS
<1> HIDE DEF t, r
<1>8. t.work + 1 \in Nat BY <1>2, <1>5
<1>9. Framed(t, r, t.work + 1, logical') BY <1>3 DEF Framed
<1>10. Good(script, logical') /\ Idle(script, logical') /\ logical'.target = r
  BY <1>5, <1>6, <1>7, <1>8, <1>9, FramedIs
<1> QED BY <1>7, <1>10 DEF Steady

LEMMA ClockStep == ClockInv /\ [ClockNext]_clockVars => ClockInv'
<1> SUFFICES ASSUME ClockInv, [ClockNext]_clockVars PROVE ClockInv' OBVIOUS
<1>1. CASE UNCHANGED clockVars
  <2>1. script' = script /\ logical' = logical BY <1>1 DEF clockVars
  <2> QED BY <2>1 DEF ClockInv
<1>2. CASE ClockNext
  <2>1. script' = script
    BY <1>2 DEF ClockNext, Advance, GiveUp, TakeInput, Dispatch, MoveTime, EndAdvance, Iterated
  <2>2. Timed(script) => Steady(script, logical')
    BY <1>2, SteadyAdvance, SteadyGiveUp, SteadyInput, SteadyDispatch, SteadyMove, SteadyEnd, Zenon
    DEF ClockInv, ClockNext
  <2> QED BY <2>1, <2>2 DEF ClockInv
<1> QED BY <1>1, <1>2

LEMMA ClockStart == ClockInit => ClockInv
BY SteadyStart DEF ClockInv, ClockInit

-----------------------------------------------------------------------------
(* What has been called is what the script asks for.                        *)

\* A call, and whether it falls in the time up to until.
InputBy(s, c, until) ==
  \E i \in DOMAIN s.inputs : c = <<<<"input", i>>, s.inputs[i]>> /\ s.inputs[i] <= until
CallBy(s, c, until) ==
  \E e \in Callbacks(s) : \E t \in CallTimes(s, e) : c = <<e, t>> /\ t <= until

LEMMA AskedIs ==
  ASSUME Timed(script), NEW until \in Int, NEW c
  PROVE  /\ c \in Asked(until) =>
              (\E i \in DOMAIN script.inputs : c = <<<<"input", i>>, script.inputs[i]>>)
              \/ (\E e \in Callbacks(script) : \E t \in CallTimes(script, e) : c = <<e, t>>)
         /\ InputBy(script, c, until) \/ CallBy(script, c, until) => c \in Asked(until)
<1> DEFINE s == script
           M(i) == MetroCalls(i, until)
           T(i) == ThreadCalls(i, until)
<1>1. c \in Asked(until) <=>
         \/ \E i \in DOMAIN s.inputs : c = <<<<"input", i>>, s.inputs[i]>>
         \/ \E i \in DOMAIN s.metros : c \in M(i)
         \/ \E i \in DOMAIN s.threads : c \in T(i)
  <2> DEFINE X == UNION {M(i) : i \in DOMAIN s.metros}
             Y == UNION {T(i) : i \in DOMAIN s.threads}
  <2>1. Asked(until) = (InputCalls \cup X) \cup Y BY Zenon DEF Asked
  <2>2. c \in InputCalls <=> \E i \in DOMAIN s.inputs : c = <<<<"input", i>>, s.inputs[i]>>
    BY DEF InputCalls
  <2> HIDE DEF M, T
  <2>3. c \in X <=> \E i \in DOMAIN s.metros : c \in M(i) OBVIOUS
  <2>4. c \in Y <=> \E i \in DOMAIN s.threads : c \in T(i) OBVIOUS
  <2> HIDE DEF X, Y
  <2>5. c \in Asked(until) <=> c \in InputCalls \/ c \in X \/ c \in Y
    <3> DEFINE A == Asked(until)
    <3>1. A = (InputCalls \cup X) \cup Y BY <2>1
    <3> HIDE DEF A
    <3>2. c \in A <=> c \in InputCalls \/ c \in X \/ c \in Y BY <3>1
    <3> QED BY <3>2 DEF A
  <2> QED BY <2>2, <2>3, <2>4, <2>5, Zenon
<1>2. \A k \in 1..until : k \in Nat \ {0} OBVIOUS
<1>3. ASSUME NEW i \in DOMAIN s.metros, c \in M(i)
      PROVE  \E e \in Callbacks(s) : \E t \in CallTimes(s, e) : c = <<e, t>>
  <2> DEFINE e == <<"metro", i>>
  <2>1. PICK k \in 1..until : /\ s.metros[i].count = Endless \/ k <= s.metros[i].count
                              /\ c = <<e, k * s.metros[i].period>>
    BY <1>3 DEF MetroCalls
  <2>2. e \in Callbacks(s) /\ e[1] = "metro" /\ e[2] = i BY DEF Callbacks
  <2> HIDE DEF e
  <2>3. CallTime(s, e, k) = k * s.metros[i].period /\ Numbered(s, e, k)
    BY <2>1, <2>2, Zenon DEF CallTime, Numbered
  <2>4. CallTime(s, e, k) \in CallTimes(s, e) BY <1>2, <2>3 DEF CallTimes
  <2>5. c = <<e, CallTime(s, e, k)>> BY <2>1, <2>3
  <2> QED BY <2>2, <2>4, <2>5
<1>4. ASSUME NEW i \in DOMAIN s.threads, c \in T(i)
      PROVE  \E e \in Callbacks(s) : \E t \in CallTimes(s, e) : c = <<e, t>>
  <2> DEFINE e == <<"thread", i>>
  <2>1. PICK k \in 1..until :
          c = <<e, IF s.threads[i].kind = "sleep" THEN k * s.threads[i].every
                   ELSE CeilOf(k * s.threads[i].every * TickNum, TickDen) + 1>>
    BY <1>4 DEF ThreadCalls
  <2>2. e \in Callbacks(s) /\ e[1] # "metro" /\ e[2] = i BY DEF Callbacks
  <2> HIDE DEF e
  <2>3. CallTime(s, e, k) = (IF s.threads[i].kind = "sleep" THEN k * s.threads[i].every
                             ELSE CeilOf(k * s.threads[i].every * TickNum, TickDen) + 1)
        /\ Numbered(s, e, k)
    BY <2>2, Zenon DEF CallTime, Numbered
  <2>4. CallTime(s, e, k) \in CallTimes(s, e) BY <1>2, <2>3 DEF CallTimes
  <2>5. c = <<e, CallTime(s, e, k)>> BY <2>1, <2>3, Zenon
  <2> QED BY <2>2, <2>4, <2>5
<1>5. ASSUME NEW e \in Callbacks(s), NEW t \in CallTimes(s, e), c = <<e, t>>, t <= until
      PROVE  c \in Asked(until)
  <2>1. PICK k \in Nat \ {0} : Numbered(s, e, k) /\ t = CallTime(s, e, k) BY DEF CallTimes
  <2>2. k \in 1..until
    <3>1. 0 \in Nat /\ k \in Nat /\ 0 < k OBVIOUS
    <3>2. t \in Nat /\ k <= t BY <2>1, <3>1, TimesIncrease
    <3> QED BY <1>5, <3>2
  <2>3. CASE e[1] = "metro"
    <3>1. e = <<"metro", e[2]>> /\ e[2] \in DOMAIN s.metros BY <2>3, CallbackIs
    <3>2. t = k * s.metros[e[2]].period /\ (s.metros[e[2]].count = Endless \/ k <= s.metros[e[2]].count)
      BY <2>1, <2>3, Zenon DEF CallTime, Numbered
    <3>3. c = <<<<"metro", e[2]>>, k * s.metros[e[2]].period>> BY <1>5, <3>1, <3>2
    <3>4. c \in M(e[2]) BY <2>2, <3>2, <3>3 DEF MetroCalls
    <3> HIDE DEF M
    <3> QED BY <1>1, <3>1, <3>4
  <2>4. CASE e[1] = "thread"
    <3>1. e = <<"thread", e[2]>> /\ e[2] \in DOMAIN s.threads /\ e[1] # "metro" BY <2>4, CallbackIs
    <3>2. t = IF s.threads[e[2]].kind = "sleep" THEN k * s.threads[e[2]].every
              ELSE CeilOf(k * s.threads[e[2]].every * TickNum, TickDen) + 1
      BY <2>1, <3>1, Zenon DEF CallTime
    <3>3. c = <<<<"thread", e[2]>>, t>> BY <1>5, <3>1
    <3>4. c \in T(e[2]) BY <2>2, <3>2, <3>3, Zenon DEF ThreadCalls
    <3> HIDE DEF T
    <3> QED BY <1>1, <3>1, <3>4
  <2> QED BY <2>3, <2>4, CallbackIs
<1> HIDE DEF M, T
<1>6. CallBy(s, c, until) => c \in Asked(until) BY <1>5 DEF CallBy
<1>7. InputBy(s, c, until) => c \in Asked(until) BY <1>1 DEF InputBy
<1>8. c \in Asked(until) =>
         (\E i \in DOMAIN s.inputs : c = <<<<"input", i>>, s.inputs[i]>>)
         \/ (\E e \in Callbacks(s) : \E t \in CallTimes(s, e) : c = <<e, t>>)
  BY <1>1, <1>3, <1>4
<1> QED BY <1>6, <1>7, <1>8

\* What is expected by a time: the inputs, and the callbacks that no cancellation takes.
LEMMA ExpectedIs ==
  ASSUME Timed(script), NEW until \in Int, NEW c
  PROVE  c \in Expected(until) <=>
           \/ InputBy(script, c, until)
           \/ \E e \in Callbacks(script) : \E t \in CallTimes(script, e) :
                c = <<e, t>> /\ t <= until /\ Keeps(script, e, t)
<1> DEFINE s == script
           A == Asked(until)
<1>0. \A x, y : <<x, y>>[1] = x /\ <<x, y>>[2] = y OBVIOUS
<1>1. c \in Expected(until) <=> c \in A /\ c[2] <= until /\ Kept(c, A) BY DEF Expected
<1>2. s.cancel \in {<<>>} \cup Callbacks(s) \X Callbacks(s) BY DEF Timed
<1>3. s.cancel # <<>> => s.cancel[1] \in Callbacks(s) /\ s.cancel[2] \in Callbacks(s) BY <1>2
<1>4. \A e \in Callbacks(s) : \A t \in CallTimes(s, e) : t \in Nat
  <2>1. 1 \in Nat \ {0} OBVIOUS
  <2> QED BY <2>1, NextTime
<1>5. \A e \in Callbacks(s) : e[1] # "input" BY CallbackIs
<1> HIDE DEF A
<1>6. ASSUME InputBy(s, c, until) PROVE c \in A /\ c[2] <= until /\ Kept(c, A)
  <2>1. PICK i \in DOMAIN s.inputs : c = <<<<"input", i>>, s.inputs[i]>> /\ s.inputs[i] <= until
    BY <1>6 DEF InputBy
  <2>2. c[1] = <<"input", i>> /\ c[2] = s.inputs[i] /\ c[1][1] = "input" BY <1>0, <2>1
  <2>3. s.cancel # <<>> => c[1] # s.cancel[2] BY <1>3, <1>5, <2>2
  <2>4. Kept(c, A) BY <2>3, Zenon DEF Kept
  <2>5. c \in A BY <1>6, AskedIs DEF A
  <2> QED BY <2>1, <2>2, <2>4, <2>5
<1>7. ASSUME NEW e \in Callbacks(s), NEW t \in CallTimes(s, e), c = <<e, t>>, t <= until
      PROVE  c \in A /\ c[1] = e /\ c[2] <= until /\ (Kept(c, A) <=> Keeps(s, e, t))
  <2>1. c[1] = e /\ c[2] = t BY <1>0, <1>7
  <2>2. c \in A
    <3>1. CallBy(s, c, until) BY <1>7 DEF CallBy
    <3> QED BY <3>1, AskedIs DEF A
  <2>3. CASE s.cancel = <<>> \/ e # s.cancel[2]
    <3>1. Kept(c, A) /\ Keeps(s, e, t) BY <2>1, <2>3, Zenon DEF Kept, Keeps
    <3> QED BY <1>7, <2>1, <2>2, <3>1
  <2>4. CASE s.cancel # <<>> /\ e = s.cancel[2]
    <3> DEFINE f == s.cancel[1]
    <3>1. f \in Callbacks(s) BY <1>3, <2>4
    <3>2. Kept(c, A) <=>
            \A d \in A : d[1] = f /\ Precedes(d, c) => e[1] = "metro" /\ t = d[2]
      BY <2>1, <2>4, Zenon DEF Kept
    <3>3. Keeps(s, e, t) <=>
            \A u \in CallTimes(s, f) : Precedes(<<f, u>>, <<e, t>>) => e[1] = "metro" /\ t = u
      BY <2>4, Zenon DEF Keeps
    <3> HIDE DEF f
    <3>4. ASSUME Keeps(s, e, t), NEW d \in A, d[1] = f, Precedes(d, c) PROVE e[1] = "metro" /\ t = d[2]
      <4>1. d \in Asked(until) BY <3>4 DEF A
      <4>2. (\E i \in DOMAIN s.inputs : d = <<<<"input", i>>, s.inputs[i]>>)
            \/ (\E g \in Callbacks(s) : \E u \in CallTimes(s, g) : d = <<g, u>>)
        BY <4>1, AskedIs
      <4>3. ~\E i \in DOMAIN s.inputs : d = <<<<"input", i>>, s.inputs[i]>>
        <5>1. \A i : <<<<"input", i>>, s.inputs[i]>>[1][1] = "input" BY <1>0
        <5> QED BY <1>5, <3>1, <3>4, <5>1
      <4>4. PICK g \in Callbacks(s) : \E u \in CallTimes(s, g) : d = <<g, u>> BY <4>2, <4>3
      <4>5. PICK u \in CallTimes(s, g) : d = <<g, u>> BY <4>4
      <4>6. g = f /\ d[2] = u BY <1>0, <3>4, <4>5
      <4>7. Precedes(<<f, u>>, <<e, t>>) BY <1>7, <3>4, <4>5, <4>6
      <4>8. u \in CallTimes(s, f) BY <4>5, <4>6
      <4>9. e[1] = "metro" /\ t = u BY <3>3, <3>4, <4>7, <4>8
      <4> QED BY <4>6, <4>9
    <3>5. ASSUME Kept(c, A), NEW u \in CallTimes(s, f), Precedes(<<f, u>>, <<e, t>>)
          PROVE  e[1] = "metro" /\ t = u
      <4>1. t \in Nat /\ u \in Nat BY <1>4, <1>7, <3>1, <3>5
      <4>2. u <= t
        <5>1. e \in ({"input"} \X Nat) \cup Callbacks(s) /\ f \in ({"input"} \X Nat) \cup Callbacks(s)
          BY <1>7, <3>1
        <5> QED BY <3>5, <4>1, <5>1, PrecedesIs
      <4>3. u <= until BY <1>7, <4>1, <4>2
      <4>4. <<f, u>> \in A
        <5>1. CallBy(s, <<f, u>>, until) BY <3>1, <3>5, <4>3 DEF CallBy
        <5> QED BY <5>1, AskedIs DEF A
      <4>5. <<f, u>>[1] = f /\ <<f, u>>[2] = u BY <1>0
      <4>6. Precedes(<<f, u>>, c) BY <1>7, <3>5
      <4> QED BY <3>2, <3>5, <4>4, <4>5, <4>6, Zenon
    <3>6. Kept(c, A) <=> Keeps(s, e, t)
      <4>1. Keeps(s, e, t) => Kept(c, A) BY <3>2, <3>4
      <4>2. Kept(c, A) => Keeps(s, e, t) BY <3>3, <3>5
      <4> QED BY <4>1, <4>2
    <3> QED BY <1>7, <2>1, <2>2, <3>6
  <2> QED BY <2>3, <2>4
<1>8. ASSUME c \in A, c[2] <= until, Kept(c, A), ~InputBy(s, c, until)
      PROVE  \E e \in Callbacks(s) : \E t \in CallTimes(s, e) : c = <<e, t>> /\ t <= until /\ Keeps(s, e, t)
  <2>1. c \in Asked(until) BY <1>8 DEF A
  <2>2. (\E i \in DOMAIN s.inputs : c = <<<<"input", i>>, s.inputs[i]>>)
        \/ (\E e \in Callbacks(s) : \E t \in CallTimes(s, e) : c = <<e, t>>)
    BY <2>1, AskedIs
  <2>3. ~\E i \in DOMAIN s.inputs : c = <<<<"input", i>>, s.inputs[i]>> BY <1>0, <1>8 DEF InputBy
  <2>4. PICK e \in Callbacks(s) : \E t \in CallTimes(s, e) : c = <<e, t>> BY <2>2, <2>3
  <2>5. PICK t \in CallTimes(s, e) : c = <<e, t>> BY <2>4
  <2>6. t <= until BY <1>0, <1>8, <2>5
  <2>7. Keeps(s, e, t) BY <1>7, <1>8, <2>5, <2>6
  <2> QED BY <2>5, <2>6, <2>7
<1> QED BY <1>1, <1>6, <1>7, <1>8

\* While its canceller has not been called, what has been called is not cancelled.
LEMMA UnstruckKeeps ==
  ASSUME NEW s, Timed(s), NEW w, Good(s, w), ~Fired(s, w),
         NEW e \in Callbacks(s), NEW t \in Nat, HasPlayed(w, <<e, t>>)
  PROVE  Keeps(s, e, t)
<1> DEFINE f == s.cancel[1]
<1>1. SUFFICES ASSUME s.cancel # <<>>, e = s.cancel[2], NEW u \in CallTimes(s, f),
                      Precedes(<<f, u>>, <<e, t>>)
               PROVE  FALSE
  BY Zenon DEF Keeps
<1>2. f \in Callbacks(s)
  <2>1. s.cancel \in {<<>>} \cup Callbacks(s) \X Callbacks(s) BY DEF Timed
  <2> QED BY <1>1, <2>1
<1>3. /\ w \in ClockStates(s) /\ w.now \in Nat
      /\ InTurn(w) /\ Fresh(s, w) /\ StandsAs(s, w, f, Struck(s, w, f))
  BY <1>2, GoodFields DEF Good, Standing
<1>4. ~Struck(s, w, f) /\ \A x : ~HasPlayed(w, <<f, x>>)
  <2>1. ~Struck(s, w, f) BY DEF Struck
  <2>2. \A x : <<f, x>>[1] = f OBVIOUS
  <2>3. \A i \in DOMAIN w.played : w.played[i][1] # f BY <1>1 DEF Fired
  <2>4. \A x : ~HasPlayed(w, <<f, x>>) BY <2>2, <2>3, Zenon DEF HasPlayed, Has
  <2> QED BY <2>1, <2>4
<1>5. PICK i \in DOMAIN w.played : w.played[i] = <<e, t>> BY DEF HasPlayed, Has
<1> HIDE DEF f
<1>6. u \in Nat
  <2>1. 1 \in Nat \ {0} OBVIOUS
  <2> QED BY <1>1, <1>2, <2>1, NextTime
<1>7. e \in ({"input"} \X Nat) \cup Callbacks(s) /\ f \in ({"input"} \X Nat) \cup Callbacks(s) BY <1>2
<1>8. ~Precedes(<<e, t>>, <<f, u>>) /\ u <= t BY <1>1, <1>6, <1>7, PrecedesIs
<1>9. t <= w.now
  <2>1. w.played[i][2] <= w.now /\ w.played[i][2] = t BY <1>3, <1>5 DEF InTurn
  <2> QED BY <2>1
<1>10. ~Came(w, f, u)
  <2>1. SUFFICES ASSUME u = w.now, InQueue(w, f) PROVE FALSE BY <1>4 DEF Came
  <2>2. PICK j \in DOMAIN w.queue : w.queue[j] = f BY <2>1 DEF InQueue, Has
  <2>3. Precedes(w.played[i], <<w.queue[j], w.now>>) BY <1>3 DEF InTurn
  <2> QED BY <1>5, <1>8, <2>1, <2>2, <2>3
<1>11. Came(w, f, u) <=> u \in CallTimes(s, f) /\ IF Armed(w, f) THEN u < Upcoming(s, w, f) ELSE u <= w.now
  BY <1>3, <1>4, Zenon DEF StandsAs
<1>12. Armed(w, f) /\ ~(u < Upcoming(s, w, f))
  <2>1. u <= w.now BY <1>3, <1>6, <1>8, <1>9
  <2> QED BY <1>1, <1>10, <1>11, <2>1
<1>13. Upcoming(s, w, f) = w.now /\ t = w.now
  <2>1. Upcoming(s, w, f) \in Nat BY <1>2, <1>3, SourceIs
  <2>2. w.now <= Upcoming(s, w, f) BY <1>3, <1>12 DEF StandsAs
  <2> QED BY <1>3, <1>6, <1>8, <1>9, <1>12, <2>1, <2>2
<1>14. Awaits(s, w)
  <2>1. Upcoming(s, w, f) <= w.now BY <1>3, <1>13
  <2> QED BY <1>2, <1>12, <2>1 DEF Awaits
<1>15. w.played[i][1][1] = "input"
  <2>1. w.played[i][2] = w.now BY <1>5, <1>13
  <2> QED BY <1>3, <1>14, <2>1 DEF Fresh
<1>16. e[1] = "input" BY <1>5, <1>15
<1> QED BY <1>16, CallbackIs

\* What has been called is expected by now.
LEMMA PlayedIsExpected ==
  ASSUME Timed(script), Good(script, logical)
  PROVE  ToSet(logical.played) \subseteq Expected(logical.now)
<1> DEFINE s == script
           w == logical
<1>1. /\ w \in ClockStates(s) /\ w.now \in Nat /\ w.now \in Int
      /\ DOMAIN s.inputs = 1..Len(s.inputs) /\ Len(s.inputs) \in Nat /\ Len(w.inputs) \in Nat
      /\ \A i \in DOMAIN w.played :
           /\ w.played[i] = <<w.played[i][1], w.played[i][2]>>
           /\ w.played[i][1] \in ({"input"} \X Nat) \cup Callbacks(s) /\ w.played[i][2] \in Nat
  BY GoodFields
<1>2. InputsFed(s, w) /\ InTurn(w) /\ \A e \in Callbacks(s) : StandsAs(s, w, e, Struck(s, w, e))
  BY DEF Good, Standing
<1> HIDE DEF w
<1>3. SUFFICES ASSUME NEW i \in DOMAIN w.played PROVE w.played[i] \in Expected(w.now) BY DEF ToSet, w
<1> DEFINE c == w.played[i]
<1>4. c[2] <= w.now /\ HasPlayed(w, c) BY <1>2 DEF InTurn, HasPlayed, Has
<1>5. c = <<c[1], c[2]>> /\ c[1] \in ({"input"} \X Nat) \cup Callbacks(s) /\ c[2] \in Nat BY <1>1
<1> HIDE DEF c
<1>6. CASE c[1] \in {"input"} \X Nat
  <2>1. c[1] = <<"input", c[1][2]>> BY <1>6
  <2>2. HasPlayed(w, <<<<"input", c[1][2]>>, c[2]>>) BY <1>4, <1>5, <2>1
  <2>3. c[1][2] \in 1..(Len(s.inputs) - Len(w.inputs)) /\ c[2] = s.inputs[c[1][2]] BY <1>2, <2>2 DEF InputsFed
  <2>4. \A a, b \in Nat : 1..(a - b) \subseteq 1..a OBVIOUS
  <2>5. c[1][2] \in DOMAIN s.inputs BY <1>1, <2>3, <2>4
  <2>6. c = <<<<"input", c[1][2]>>, s.inputs[c[1][2]]>> /\ s.inputs[c[1][2]] <= w.now
    BY <1>4, <1>5, <2>1, <2>3, Zenon
  <2>7. InputBy(s, c, w.now) BY <2>5, <2>6 DEF InputBy
  <2> QED BY <1>1, <2>7, ExpectedIs DEF c
<1>7. CASE c[1] \in Callbacks(s)
  <2> DEFINE e == c[1]
             t == c[2]
  <2>1. e \in Callbacks(s) /\ t \in Nat /\ c = <<e, t>> /\ t <= w.now BY <1>4, <1>5, <1>7
  <2> HIDE DEF e, t
  <2>2. HasPlayed(w, <<e, t>>) BY <1>4, <2>1
  <2>3. Came(w, e, t) BY <2>2 DEF Came
  <2>4. StandsAs(s, w, e, Struck(s, w, e)) BY <1>2, <2>1
  <2>5. t \in CallTimes(s, e) /\ (Struck(s, w, e) => Keeps(s, e, t)) BY <2>3, <2>4, Zenon DEF StandsAs
  <2>6. Keeps(s, e, t)
    <3>1. CASE Struck(s, w, e) BY <2>5, <3>1
    <3>2. CASE ~Fired(s, w) 
      <4>1. Good(s, w) BY DEF w
      <4> QED BY <2>1, <2>2, <3>2, <4>1, UnstruckKeeps
    <3>3. CASE Fired(s, w) /\ e # s.cancel[2] BY <3>3, Zenon DEF Keeps
    <3> QED BY <3>1, <3>2, <3>3 DEF Struck
  <2>7. c \in Expected(w.now) BY <1>1, <2>1, <2>5, <2>6, ExpectedIs
  <2> QED BY <2>7 DEF c
<1> QED BY <1>5, <1>6, <1>7

\* What is expected before now has been called, and of now too when nothing waits.
LEMMA ExpectedIsPlayed ==
  ASSUME Timed(script), Good(script, logical), NEW until \in Int,
         until < logical.now \/ (until = logical.now /\ Idle(script, logical))
  PROVE  Expected(until) \subseteq ToSet(logical.played)
<1> DEFINE s == script
           w == logical
<1>1. /\ w \in ClockStates(s) /\ w.now \in Nat
      /\ DOMAIN s.inputs = 1..Len(s.inputs) /\ Len(s.inputs) \in Nat /\ Len(w.inputs) \in Nat
      /\ \A i \in DOMAIN s.inputs : s.inputs[i] \in Nat
  BY GoodFields
<1>2. InputsFed(s, w) /\ InTurn(w) /\ \A e \in Callbacks(s) : StandsAs(s, w, e, Struck(s, w, e))
  BY DEF Good, Standing
<1>3. SUFFICES ASSUME NEW c \in Expected(until) PROVE HasPlayed(w, c) BY DEF ToSet, HasPlayed, Has
<1>4. \/ InputBy(s, c, until)
      \/ \E e \in Callbacks(s) : \E t \in CallTimes(s, e) :
           c = <<e, t>> /\ t <= until /\ Keeps(s, e, t)
  BY <1>3, ExpectedIs
<1>5. until < w.now \/ (until = w.now /\ w.queue = <<>> /\ ~Awaits(s, w)) BY DEF Idle
<1> HIDE DEF w
<1>6. CASE InputBy(s, c, until)
  <2>1. PICK i \in DOMAIN s.inputs : c = <<<<"input", i>>, s.inputs[i]>> /\ s.inputs[i] <= until
    BY <1>6 DEF InputBy
  <2>2. CASE i \in 1..(Len(s.inputs) - Len(w.inputs))
    <3>1. HasPlayed(w, <<<<"input", i>>, s.inputs[i]>>) BY <1>2, <2>2 DEF InputsFed
    <3> QED BY <2>1, <3>1
  <2>3. CASE i \notin 1..(Len(s.inputs) - Len(w.inputs))
    <3> DEFINE a == Len(s.inputs)
               b == Len(w.inputs)
               j == i - (a - b)
    <3>1. a \in Nat /\ b \in Nat /\ b <= a /\ i \in 1..a BY <1>1, <1>2 DEF InputsFed
    <3>2. i \notin 1..(a - b) BY <2>3
    <3>3. \A j1 \in 1..b : w.inputs[j1] = s.inputs[a - b + j1] /\ w.now <= w.inputs[j1]
      BY <1>2 DEF InputsFed
    <3>4. \A j1 \in 1..b : w.inputs[j1] <= w.now => Awaits(s, w) BY DEF Awaits
    <3> HIDE DEF a, b
    <3>5. j \in 1..b /\ a - b + j = i BY <3>1, <3>2
    <3>6. w.inputs[j] = s.inputs[i] /\ w.now <= w.inputs[j] BY <3>3, <3>5
    <3>7. s.inputs[i] \in Nat BY <1>1
    <3>8. until = w.now /\ w.inputs[j] <= w.now BY <1>1, <1>5, <2>1, <3>6, <3>7
    <3> QED BY <1>5, <3>4, <3>5, <3>8, <1>1
  <2> QED BY <2>2, <2>3
<1>7. CASE ~InputBy(s, c, until)
  <2>1. PICK e \in Callbacks(s) : \E t \in CallTimes(s, e) : c = <<e, t>> /\ t <= until /\ Keeps(s, e, t)
    BY <1>4, <1>7
  <2>2. PICK t \in CallTimes(s, e) : c = <<e, t>> /\ t <= until /\ Keeps(s, e, t) BY <2>1
  <2>3. t \in Nat
    <3>1. 1 \in Nat \ {0} OBVIOUS
    <3> QED BY <3>1, NextTime
  <2>4. Upcoming(s, w, e) \in Nat BY <1>1, SourceIs
  <2>5. StandsAs(s, w, e, Struck(s, w, e)) BY <1>2
  <2>6. t <= w.now BY <1>1, <1>5, <2>2, <2>3
  <2>7. Armed(w, e) => t < Upcoming(s, w, e)
    <3>1. SUFFICES ASSUME Armed(w, e) PROVE t < Upcoming(s, w, e) OBVIOUS
    <3>2. w.now <= Upcoming(s, w, e) BY <2>5, <3>1 DEF StandsAs
    <3>3. ~Awaits(s, w) => ~(Upcoming(s, w, e) <= w.now) BY <3>1 DEF Awaits
    <3> QED BY <1>1, <1>5, <2>2, <2>3, <2>4, <3>2, <3>3
  <2>8. Came(w, e, t) BY <2>2, <2>5, <2>6, <2>7, Zenon DEF StandsAs
  <2>9. ~(t = w.now /\ InQueue(w, e))
    <3>1. until = w.now => w.queue = <<>> BY <1>1, <1>5
    <3>2. w.queue = <<>> => ~InQueue(w, e) BY DEF InQueue, Has
    <3>3. t = w.now => until = w.now BY <1>1, <1>5, <2>2
    <3> QED BY <3>1, <3>2, <3>3
  <2>10. HasPlayed(w, <<e, t>>) BY <2>8, <2>9 DEF Came
  <2> QED BY <2>2, <2>10
<1> QED BY <1>6, <1>7

LEMMA SteadyIsExact ==
  ASSUME Timed(script), Steady(script, logical)
  PROVE  /\ \A i, j \in DOMAIN logical.played :
              i < j => Precedes(logical.played[i], logical.played[j])
         /\ Expected(logical.now - 1) \subseteq ToSet(logical.played)
         /\ ToSet(logical.played) \subseteq Expected(logical.now)
         /\ logical.target = AtRest /\ logical.work > 0 /\ ~logical.failed =>
              ToSet(logical.played) = Expected(logical.now)
<1>1. Good(script, logical) BY DEF Steady
<1>2. logical.now \in Nat /\ logical.now \in Int BY <1>1, GoodFields
<1>3. \A i, j \in DOMAIN logical.played : i < j => Precedes(logical.played[i], logical.played[j])
  BY <1>1 DEF Good, InTurn
<1>4. Expected(logical.now - 1) \subseteq ToSet(logical.played)
  <2>1. logical.now - 1 \in Int /\ logical.now - 1 < logical.now BY <1>2
  <2> QED BY <1>1, <2>1, ExpectedIsPlayed
<1>5. ToSet(logical.played) \subseteq Expected(logical.now) BY <1>1, PlayedIsExpected
<1>6. ASSUME logical.target = AtRest, logical.work > 0, ~logical.failed
      PROVE  Expected(logical.now) \subseteq ToSet(logical.played)
  <2>1. Idle(script, logical) BY <1>6 DEF Steady
  <2> QED BY <1>1, <1>2, <2>1, ExpectedIsPlayed
<1> QED BY <1>3, <1>4, <1>5, <1>6

-----------------------------------------------------------------------------
(* A script that never rests: a metro without a period that is on for ever, *)
(* or a coroutine that sleeps no time at all.                               *)

RingsOn(s, w, i) ==
  /\ s.metros[i].period = 0
  /\ w.metros[i].on = TRUE /\ w.metros[i].due = 0 /\ w.metros[i].left = Endless

WakesOn(s, w, i) ==
  /\ s.threads[i].kind = "sleep" /\ s.threads[i].every = 0 /\ w.slots[i].alive = TRUE
  /\ InQueue(w, <<"thread", i>>) \/ (w.slots[i].ready = TRUE /\ w.slots[i].at <= w.now)

Restless(s, w) ==
  (\E i \in DOMAIN s.metros : RingsOn(s, w, i)) \/ (\E i \in DOMAIN s.threads : WakesOn(s, w, i))

Unresting(s, w) ==
  /\ w \in ClockStates(s) /\ Len(w.inputs) <= Len(s.inputs) /\ Restless(s, w)
  /\ w.target = AtRest /\ w.work > 0 => w.failed

RunawayInv == script \in Scripts /\ (NeverRests(script) => Unresting(script, logical))

\* What leaves the metros, the coroutines, the queue and the time alone.
LEMMA RestlessFrame ==
  ASSUME NEW s, NEW w, NEW u, Restless(s, w), u.metros = w.metros, u.slots = w.slots,
         \A x : InQueue(w, x) => InQueue(u, x), u.now = w.now
  PROVE  Restless(s, u)
<1>1. \A i : RingsOn(s, w, i) => RingsOn(s, u, i) BY DEF RingsOn
<1>2. \A i : WakesOn(s, w, i) => WakesOn(s, u, i) BY DEF WakesOn
<1> QED BY <1>1, <1>2, Zenon DEF Restless

\* An iteration finds something to call, and what never rests is still due.
LEMMA RestlessStepped ==
  ASSUME Scripted(script), NEW w \in ClockStates(script), Restless(script, w), NEW t, t = Stepped(w)
  PROVE  /\ t \in ClockStates(script) /\ Restless(script, t) /\ t.queue # <<>>
         /\ t.inputs = w.inputs /\ t.target = w.target /\ t.work = w.work /\ t.failed = w.failed
<1> DEFINE s == script
           p == PublishTick(w)
           m == StepMetros(p)
           R == MetrosRung(p)
           K == ThreadsWoken(m)
           a == Entries("metro", R)
           b == Entries("thread", K)
<1>1. t = StepScheduler(m) BY DEF Stepped
<1>2. /\ p \in ClockStates(s) /\ p.now = w.now /\ p.target = w.target /\ p.work = w.work
      /\ p.failed = w.failed /\ p.metros = w.metros /\ p.slots = w.slots
      /\ p.inputs = w.inputs /\ p.queue = w.queue
  BY PublishIs
<1> HIDE DEF p
<1>3. /\ m \in ClockStates(s) /\ m.now = p.now /\ m.target = p.target /\ m.work = p.work
      /\ m.failed = p.failed /\ m.slots = p.slots /\ m.inputs = p.inputs
      /\ m.queue = p.queue \o a
      /\ \A i \in DOMAIN s.metros :
           m.metros[i] = IF i \notin MetrosDue(p) THEN p.metros[i]
                         ELSE IF i \notin R THEN [p.metros[i] EXCEPT !.on = FALSE]
                         ELSE [on |-> TRUE, due |-> p.metros[i].due + s.metros[i].period,
                               left |-> IF p.metros[i].left = Endless THEN Endless
                                        ELSE p.metros[i].left - 1]
  BY <1>2, MetrosStep
<1> HIDE DEF m
<1>4. /\ t \in ClockStates(s) /\ t.now = m.now /\ t.target = m.target /\ t.work = m.work
      /\ t.failed = m.failed /\ t.metros = m.metros /\ t.inputs = m.inputs
      /\ t.queue = m.queue \o b
      /\ \A i \in DOMAIN s.threads :
           t.slots[i] = IF i \in K THEN [m.slots[i] EXCEPT !.ready = FALSE] ELSE m.slots[i]
  <2>1. m \in ClockStates(s) BY <1>3
  <2> QED BY <1>1, <2>1, ThreadsStep
<1>5. /\ DOMAIN p.metros = DOMAIN s.metros /\ DOMAIN m.slots = DOMAIN s.threads
      /\ DOMAIN s.metros = 1..Len(s.metros) /\ Len(s.metros) \in Nat
      /\ DOMAIN s.threads = 1..Len(s.threads) /\ Len(s.threads) \in Nat
      /\ w.queue \in Seq(Callbacks(s)) /\ w.now \in Nat
      /\ m.slots \in [DOMAIN s.threads -> [alive : BOOLEAN, ready : BOOLEAN, at : Nat]]
  BY <1>2, <1>3, StateIs
<1>6. /\ R \in SUBSET (1..Len(s.metros)) /\ \A x \in R : <<"metro", x>> \in Callbacks(s)
      /\ K \in SUBSET (1..Len(s.threads)) /\ \A x \in K : <<"thread", x>> \in Callbacks(s)
  BY <1>5 DEF MetrosRung, MetrosDue, ThreadsWoken, Callbacks
<1>7. \A i : i \in K <=> i \in DOMAIN m.slots /\ m.slots[i].ready /\ Woken(m, i) BY DEF ThreadsWoken
<1>8. \A i : i \in R <=> i \in DOMAIN p.metros /\ p.metros[i].on /\ p.metros[i].due <= p.now /\ p.metros[i].left # 0
  BY DEF MetrosRung, MetrosDue
<1>9. \A i : i \in R => i \in MetrosDue(p) BY DEF MetrosRung
<1> HIDE DEF R, K
<1>10. EntriesFit("metro", R, Callbacks(s), a) /\ EntriesFit("thread", K, Callbacks(s), b)
  BY <1>5, <1>6, EntriesAre
<1> HIDE DEF a, b
<1>11. /\ a \in Seq(Callbacks(s)) /\ b \in Seq(Callbacks(s))
       /\ \A e : Has(a, e) <=> \E x \in R : e = <<"metro", x>>
       /\ \A e : Has(b, e) <=> \E x \in K : e = <<"thread", x>>
  BY <1>10, Zenon DEF EntriesFit
<1>12. m.queue \in Seq(Callbacks(s)) /\ \A e : Has(m.queue, e) <=> Has(w.queue, e) \/ Has(a, e)
  BY <1>2, <1>3, <1>5, <1>11, ConcatHas
<1>13. \A e : InQueue(t, e) <=> Has(w.queue, e) \/ Has(a, e) \/ Has(b, e)
  BY <1>4, <1>11, <1>12, ConcatHas DEF InQueue
<1>14. ASSUME NEW i \in DOMAIN s.metros, RingsOn(s, w, i)
       PROVE  RingsOn(s, t, i) /\ InQueue(t, <<"metro", i>>)
  <2>1. /\ s.metros[i].period = 0
        /\ p.metros[i].on = TRUE /\ p.metros[i].due = 0 /\ p.metros[i].left = Endless
    BY <1>2, <1>14 DEF RingsOn
  <2>2. i \in R /\ i \in MetrosDue(p) BY <1>2, <1>5, <1>8, <1>9, <2>1 DEF Endless
  <2>3. m.metros[i] = [on |-> TRUE, due |-> p.metros[i].due + s.metros[i].period, left |-> Endless]
    BY <1>3, <2>1, <2>2
  <2>4. m.metros[i].on = TRUE /\ m.metros[i].due = 0 /\ m.metros[i].left = Endless BY <2>1, <2>3
  <2>5. RingsOn(s, t, i) BY <1>4, <2>1, <2>4 DEF RingsOn
  <2> QED BY <1>11, <1>13, <2>2, <2>5
<1>15. ASSUME NEW i \in DOMAIN s.threads, WakesOn(s, w, i)
       PROVE  WakesOn(s, t, i) /\ InQueue(t, <<"thread", i>>)
  <2>1. /\ s.threads[i].kind = "sleep" /\ s.threads[i].every = 0 /\ m.slots[i].alive = TRUE
        /\ InQueue(w, <<"thread", i>>) \/ (m.slots[i].ready = TRUE /\ m.slots[i].at <= m.now)
    BY <1>2, <1>3, <1>15 DEF WakesOn
  <2>2. m.slots[i] \in [alive : BOOLEAN, ready : BOOLEAN, at : Nat] BY <1>5
  <2>3. t.slots[i].alive = TRUE BY <1>4, <2>1, <2>2
  <2>4. InQueue(t, <<"thread", i>>)
    <3>1. CASE InQueue(w, <<"thread", i>>) BY <1>13, <3>1 DEF InQueue
    <3>2. CASE m.slots[i].ready = TRUE /\ m.slots[i].at <= m.now
      <4>1. Woken(m, i) BY <2>1, <3>2, <1>2, <1>3, <1>5, <2>2 DEF Woken
      <4>2. i \in K BY <1>5, <1>7, <3>2, <4>1
      <4> QED BY <1>11, <1>13, <4>2
    <3> QED BY <2>1, <3>1, <3>2
  <2> QED BY <2>1, <2>3, <2>4, Zenon DEF WakesOn
<1>16. Restless(s, t) /\ \E e : InQueue(t, e)
  <2>1. CASE \E i \in DOMAIN s.metros : RingsOn(s, w, i) BY <1>14, <2>1, Zenon DEF Restless
  <2>2. CASE \E i \in DOMAIN s.threads : WakesOn(s, w, i) BY <1>15, <2>2, Zenon DEF Restless
  <2> QED BY <2>1, <2>2, Zenon DEF Restless
<1>17. t.queue # <<>> BY <1>16 DEF InQueue, Has
<1> QED BY <1>2, <1>3, <1>4, <1>16, <1>17

\* A call does not end what never rests: its coroutine sleeps until now.
LEMMA RestlessHandled ==
  ASSUME Scripted(script), script.cancel = <<>>, NEW v \in ClockStates(script), Restless(script, v),
         v.queue # <<>>, NEW h, h = Handled(v)
  PROVE  /\ h \in ClockStates(script) /\ Restless(script, h)
         /\ h.inputs = v.inputs /\ h.target = v.target /\ h.work = v.work /\ h.failed = v.failed
<1> DEFINE s == script
           q == v.queue
<1>1. h = IF Ignores(v) THEN Popped(v) ELSE Again(v)
  <2>1. ~Cancels(v) BY DEF Cancels
  <2> QED BY <2>1, HandledIs
<1>2. q \in Seq(Callbacks(s)) /\ v.now \in Nat
      /\ v.slots \in [DOMAIN s.threads -> [alive : BOOLEAN, ready : BOOLEAN, at : Nat]]
  BY StateIs
<1>3. \A e : Has(q, e) /\ e # Event(v) => Has(Tail(q), e)
  <2> TAKE e
  <2> HAVE Has(q, e) /\ e # Event(v)
  <2>1. PICK j \in DOMAIN q : q[j] = e BY DEF Has
  <2>2. Event(v) = q[1] /\ DOMAIN q = 1..Len(q) /\ Len(q) \in Nat BY <1>2 DEF Event
  <2>3. j \in 2..Len(q) BY <2>1, <2>2
  <2>4. j - 1 \in DOMAIN Tail(q) /\ Tail(q)[j - 1] = q[j] BY <1>2, <2>3
  <2> QED BY <2>1, <2>4 DEF Has
<1> HIDE DEF q
<1>4. CASE Ignores(v)
  <2>1. h = Popped(v) BY <1>1, <1>4
  <2>2. /\ h \in ClockStates(s) /\ h.queue = Tail(q) /\ h.now = v.now
        /\ h.target = v.target /\ h.work = v.work /\ h.failed = v.failed
        /\ h.inputs = v.inputs /\ h.metros = v.metros /\ h.slots = v.slots
    BY <2>1, PoppedIs DEF q
  <2>3. \A i : RingsOn(s, v, i) => RingsOn(s, h, i) BY <2>2 DEF RingsOn
  <2>4. ASSUME NEW i, WakesOn(s, v, i) PROVE WakesOn(s, h, i)
    <3>1. <<"thread", i>> # Event(v)
      <4>1. <<"thread", i>>[2] = i OBVIOUS
      <4>2. v.slots[i].alive = TRUE BY <2>4 DEF WakesOn
      <4> QED BY <1>4, <4>1, <4>2 DEF Ignores
    <3>2. InQueue(v, <<"thread", i>>) => InQueue(h, <<"thread", i>>) BY <1>3, <2>2, <3>1 DEF InQueue, q
    <3> QED BY <2>2, <2>4, <3>2 DEF WakesOn
  <2>5. Restless(s, h) BY <2>3, <2>4, Zenon DEF Restless
  <2> QED BY <2>2, <2>5
<1>5. CASE ~Ignores(v)
  <2>1. h = Again(v) BY <1>1, <1>5
  <2>2. AgainFits(v, h) BY <2>1, AgainIs
  <2>3. /\ h \in ClockStates(s) /\ h.queue = Tail(q) /\ h.now = v.now
        /\ h.target = v.target /\ h.work = v.work /\ h.failed = v.failed
        /\ h.inputs = v.inputs /\ h.metros = v.metros
        /\ \A i \in DOMAIN s.threads :
             /\ Event(v) = <<"thread", i>> =>
                  /\ h.slots[i].alive = v.slots[i].alive /\ h.slots[i].ready = TRUE
                  /\ h.slots[i].at = (IF s.threads[i].kind = "sleep" THEN v.now ELSE v.slots[i].at)
                                       + s.threads[i].every
             /\ Event(v) # <<"thread", i>> => h.slots[i] = v.slots[i]
    BY <2>2, Zenon DEF AgainFits, q
  <2>4. \A i : RingsOn(s, v, i) => RingsOn(s, h, i) BY <2>3 DEF RingsOn
  <2>5. ASSUME NEW i \in DOMAIN s.threads, WakesOn(s, v, i) PROVE WakesOn(s, h, i)
    <3>1. CASE Event(v) = <<"thread", i>>
      <4>1. s.threads[i].kind = "sleep" /\ s.threads[i].every = 0 /\ v.slots[i].alive = TRUE
        BY <2>5 DEF WakesOn
      <4>2. h.slots[i].alive = TRUE /\ h.slots[i].ready = TRUE /\ h.slots[i].at = v.now + 0
        BY <2>3, <3>1, <4>1
      <4>3. h.slots[i].at <= h.now BY <1>2, <2>3, <4>2
      <4> QED BY <4>1, <4>2, <4>3 DEF WakesOn
    <3>2. CASE Event(v) # <<"thread", i>>
      <4>1. InQueue(v, <<"thread", i>>) => InQueue(h, <<"thread", i>>) BY <1>3, <2>3, <3>2 DEF InQueue, q
      <4>2. h.slots[i] = v.slots[i] BY <2>3, <3>2
      <4> QED BY <2>3, <2>5, <4>1, <4>2 DEF WakesOn
    <3> QED BY <3>1, <3>2
  <2>6. Restless(s, h) BY <2>4, <2>5, Zenon DEF Restless
  <2> QED BY <2>3, <2>6
<1> QED BY <1>4, <1>5

LEMMA RunawayStart == ClockInit => RunawayInv
<1> SUFFICES ASSUME ClockInit, NeverRests(script) PROVE Unresting(script, logical)
  BY DEF RunawayInv, ClockInit
<1> DEFINE s == script
           w == logical
<1>1. script \in Scripts BY DEF ClockInit
<1>2. Scripted(s) /\ \A i \in DOMAIN s.metros : s.metros[i].period = 0 => s.metros[i].count = Endless
  BY <1>1, ScriptIs
<1>3. /\ w \in ClockStates(s) /\ w.now = 0 /\ w.target = AtRest /\ w.work = 0 /\ w.inputs = s.inputs
      /\ \A i \in DOMAIN s.metros :
           w.metros[i].on = TRUE /\ w.metros[i].due = s.metros[i].period
           /\ w.metros[i].left = s.metros[i].count
      /\ \A i \in DOMAIN s.threads :
           w.slots[i].alive = TRUE /\ w.slots[i].ready = TRUE /\ w.slots[i].at = s.threads[i].every
  BY <1>2, StartIs
<1>4. Len(w.inputs) <= Len(s.inputs)
  <2>1. Len(s.inputs) \in Nat BY <1>2, SequenceIs DEF Scripted
  <2> QED BY <1>3, <2>1
<1> HIDE DEF w
<1>5. Restless(s, w)
  <2>1. CASE \E i \in DOMAIN s.metros : s.metros[i].period = 0
    <3>1. PICK i \in DOMAIN s.metros : s.metros[i].period = 0 BY <2>1
    <3>2. RingsOn(s, w, i) BY <1>2, <1>3, <3>1 DEF RingsOn
    <3> QED BY <3>2 DEF Restless
  <2>2. CASE \E i \in DOMAIN s.threads : s.threads[i].kind = "sleep" /\ s.threads[i].every = 0
    <3>1. PICK i \in DOMAIN s.threads : s.threads[i].kind = "sleep" /\ s.threads[i].every = 0 BY <2>2
    <3>2. WakesOn(s, w, i) BY <1>3, <3>1 DEF WakesOn
    <3> QED BY <3>2 DEF Restless
  <2> QED BY <2>1, <2>2 DEF NeverRests
<1>6. ~(w.work > 0) BY <1>3
<1> QED BY <1>3, <1>4, <1>5, <1>6 DEF Unresting, w

LEMMA RunawayStep == RunawayInv /\ [ClockNext]_clockVars => RunawayInv'
<1> SUFFICES ASSUME RunawayInv, [ClockNext]_clockVars PROVE RunawayInv' OBVIOUS
<1>1. CASE UNCHANGED clockVars
  <2>1. script' = script /\ logical' = logical BY <1>1 DEF clockVars
  <2> QED BY <2>1 DEF RunawayInv
<1>2. CASE ClockNext
  <2>1. script' = script /\ script \in Scripts
    BY <1>2 DEF ClockNext, Advance, GiveUp, TakeInput, Dispatch, MoveTime, EndAdvance, Iterated, RunawayInv
  <2>2. SUFFICES ASSUME NeverRests(script) PROVE Unresting(script, logical') BY <2>1 DEF RunawayInv
  <2> DEFINE s == script
             w == logical
             t == Stepped(w)
             h == Handled(t)
  <2>3. Scripted(s) /\ s.cancel = <<>> BY <2>1, <2>2, ScriptIs
  <2>4. w \in ClockStates(s) /\ Len(w.inputs) <= Len(s.inputs) /\ Restless(s, w)
    BY <2>2 DEF RunawayInv, Unresting
  <2>5. /\ w.now \in Nat /\ w.work \in Nat /\ w.target \in Nat \cup {AtRest}
        /\ w.inputs \in Seq(Nat) /\ w.played \in Seq(ClockCalls(s))
        /\ Len(s.inputs) \in Nat
    BY <2>3, <2>4, StateIs, SequenceIs DEF Scripted
  <2>6. /\ t \in ClockStates(s) /\ Restless(s, t) /\ t.queue # <<>>
        /\ t.inputs = w.inputs /\ t.target = w.target /\ t.work = w.work /\ t.failed = w.failed
    BY <2>3, <2>4, RestlessStepped
  <2>7. ASSUME NEW delta \in Deltas, Advance(delta) PROVE Unresting(s, logical')
    <3> DEFINE n == w.now + delta
    <3>1. logical' = [w EXCEPT !.target = n, !.work = 0] BY <2>7 DEF Advance
    <3>2. n \in Nat BY <2>5, ControlledClockAssumption
    <3> HIDE DEF n, w
    <3>3. /\ logical' \in ClockStates(s) /\ logical'.target = n /\ logical'.inputs = w.inputs
          /\ logical'.metros = w.metros /\ logical'.slots = w.slots /\ logical'.now = w.now
          /\ logical'.queue = w.queue
      BY <2>4, <3>1, <3>2 DEF ClockStates
    <3>4. Restless(s, logical') BY <2>4, <3>3, RestlessFrame DEF InQueue
    <3>5. n # AtRest BY <3>2 DEF AtRest
    <3> QED BY <2>4, <3>3, <3>4, <3>5 DEF Unresting
  <2>8. ASSUME GiveUp PROVE Unresting(s, logical')
    <3>1. logical' = [w EXCEPT !.target = AtRest, !.failed = TRUE] BY <2>8 DEF GiveUp
    <3> HIDE DEF w
    <3>2. /\ logical' \in ClockStates(s) /\ logical'.failed = TRUE /\ logical'.inputs = w.inputs
          /\ logical'.metros = w.metros /\ logical'.slots = w.slots /\ logical'.now = w.now
          /\ logical'.queue = w.queue
      BY <2>4, <3>1 DEF ClockStates
    <3>3. Restless(s, logical') BY <2>4, <3>2, RestlessFrame DEF InQueue
    <3> QED BY <2>4, <3>2, <3>3 DEF Unresting
  <2>9. ASSUME TakeInput PROVE Unresting(s, logical')
    <3> DEFINE fed == Len(s.inputs) - Len(w.inputs) + 1
               c == <<<<"input", fed>>, w.now>>
               q == Tail(w.inputs)
               r == Append(w.played, c)
               n == w.work + 1
    <3>1. logical' = [[[w EXCEPT !.inputs = q] EXCEPT !.played = r] EXCEPT !.work = n]
          /\ w.target # AtRest /\ w.inputs # <<>>
      BY <2>4, <2>9 DEF TakeInput, Iterated, Iterates, InputDue, ClockStates
    <3>2. q \in Seq(Nat) /\ Len(q) <= Len(s.inputs) /\ Len(q) \in Nat BY <2>4, <2>5, <3>1
    <3>3. c \in ClockCalls(s)
      <4>1. fed \in Nat BY <2>4, <2>5
      <4> HIDE DEF fed
      <4> QED BY <2>5, <4>1 DEF ClockCalls
    <3>4. r \in Seq(ClockCalls(s))
      <4> HIDE DEF c
      <4> QED BY <2>5, <3>3
    <3>5. n \in Nat BY <2>5
    <3> HIDE DEF q, r, n, w
    <3>6. /\ logical' \in ClockStates(s) /\ logical'.target = w.target /\ logical'.inputs = q
          /\ logical'.metros = w.metros /\ logical'.slots = w.slots /\ logical'.now = w.now
          /\ logical'.queue = w.queue
      BY <2>4, <3>1, <3>2, <3>4, <3>5 DEF ClockStates
    <3>7. Restless(s, logical') BY <2>4, <3>6, RestlessFrame DEF InQueue
    <3> QED BY <3>1, <3>2, <3>6, <3>7 DEF Unresting
  <2>10. ASSUME Dispatch PROVE Unresting(s, logical')
    <3>1. w.target # AtRest /\ logical' = [h EXCEPT !.work = h.work + 1]
      BY <2>10 DEF Dispatch, Iterates, Iterated
    <3> HIDE DEF t
    <3>2. /\ h \in ClockStates(s) /\ Restless(s, h)
          /\ h.inputs = t.inputs /\ h.target = t.target /\ h.work = t.work /\ h.failed = t.failed
      BY <2>3, <2>6, RestlessHandled
    <3> HIDE DEF h
    <3>3. h.work + 1 \in Nat BY <2>5, <2>6, <3>2
    <3>4. /\ logical' \in ClockStates(s) /\ logical'.target = h.target /\ logical'.inputs = h.inputs
          /\ logical'.metros = h.metros /\ logical'.slots = h.slots /\ logical'.now = h.now
          /\ logical'.queue = h.queue
      BY <3>1, <3>2, <3>3 DEF ClockStates
    <3>5. Restless(s, logical') BY <3>2, <3>4, RestlessFrame DEF InQueue
    <3> QED BY <2>4, <2>6, <3>1, <3>2, <3>4, <3>5 DEF Unresting
  <2>11. ~MoveTime /\ ~EndAdvance BY <2>6 DEF MoveTime, EndAdvance
  <2> QED BY <1>2, <2>7, <2>8, <2>9, <2>10, <2>11, Zenon DEF ClockNext
<1> QED BY <1>1, <1>2

-----------------------------------------------------------------------------
(* However time is cut into advances, an advance that does not give up has  *)
(* called every callback of its span, at its own time and in order, and no  *)
(* cancelled one, for every tempo, resolution and script; a script that     *)
(* never rests fails the advance and loses nothing in silence               *)
(* (emu_clock_advance).                                                     *)
ClockSpec == ClockInit /\ [][ClockNext]_clockVars

THEOREM AdvancesStayExact == ClockSpec => [](Runaway \/ ~logical.failed => AdvanceIsExact)
<1>1. ClockInv /\ RunawayInv => (Runaway \/ ~logical.failed => AdvanceIsExact)
  <2> SUFFICES ASSUME ClockInv, RunawayInv, Runaway \/ ~logical.failed PROVE AdvanceIsExact OBVIOUS
  <2>1. CASE Runaway
    <3>1. Unresting(script, logical) BY <2>1 DEF Runaway, RunawayInv
    <3> QED BY <2>1, <3>1 DEF AdvanceIsExact, Unresting
  <2>2. CASE ~Runaway
    <3>1. Timed(script) /\ Steady(script, logical) BY <2>2, ScriptIs DEF Runaway, ClockInv
    <3>2. ~logical.failed BY <2>2
    <3> QED BY <2>2, <3>1, <3>2, SteadyIsExact DEF AdvanceIsExact
  <2> QED BY <2>1, <2>2
<1> QED BY <1>1, ClockStart, ClockStep, RunawayStart, RunawayStep, PTL DEF ClockSpec
==============================================================================
