--------------------------- MODULE ControlledClock ---------------------------
(***************************************************************************)
(* Controlled time: emu_clock_advance of the native runtime, with the      *)
(* metros, the coroutine scheduler and the internal clock as the prepare   *)
(* scripts make them steppable.  Time is in nanoseconds, beats are in      *)
(* pulses of TickNum / TickDen nanoseconds at a fixed tempo.  A script     *)
(* runs metros and coroutines that sleep or sync over and over; its first  *)
(* callback of one may cancel another.  MaxTime bounds a behaviour.        *)
(***************************************************************************)
EXTENDS Integers, Sequences, FiniteSets, SequencesExt

CONSTANTS TickNum, TickDen,   \* the length of a pulse
          Scripts,            \* metros, threads, inputs and a cancellation
          Deltas, MaxTime, WorkLimit

ASSUME ControlledClockAssumption ==
  /\ {TickNum, TickDen, WorkLimit} \subseteq Nat \ {0} /\ TickNum >= TickDen
  /\ Deltas \subseteq Nat /\ MaxTime \in Nat

Endless == -1

\* What a script can cancel, and by whom: metros and coroutines.
Callbacks(s) ==
  {<<"metro", i>> : i \in DOMAIN s.metros} \cup {<<"thread", i>> : i \in DOMAIN s.threads}

NeverRests(s) ==
  \/ \E i \in DOMAIN s.metros : s.metros[i].period = 0
  \/ \E i \in DOMAIN s.threads : s.threads[i].kind = "sleep" /\ s.threads[i].every = 0

\* Inputs come in order, a sync is to a later beat, and what never rests goes on for ever.
ASSUME ScriptsAssumption ==
  \A s \in Scripts :
    /\ s \in [metros : Seq([period : Nat, count : Nat \cup {Endless}]),
               threads : Seq([kind : {"sleep", "sync"}, every : Nat]),
               inputs : Seq(Nat),
               cancel : {<<>>} \cup Callbacks(s) \X Callbacks(s)]
    /\ \A i, j \in DOMAIN s.inputs : i < j => s.inputs[i] <= s.inputs[j]
    /\ \A i \in DOMAIN s.threads : s.threads[i].kind = "sync" => s.threads[i].every > 0
    /\ NeverRests(s) =>
         s.cancel = <<>> /\ \A i \in DOMAIN s.metros :
                              s.metros[i].period = 0 => s.metros[i].count = Endless

VARIABLES script, logical

clockVars == <<script, logical>>

AtRest == -1

\* Everything starts at time zero; the inputs are a batch accepted before it.
ClockInit ==
  /\ script \in Scripts
  /\ logical =
       [now |-> 0, target |-> AtRest, work |-> 0, failed |-> FALSE,
        ticks |-> 0, last |-> 0, nextTick |-> TickNum,
        metros |-> [i \in DOMAIN script.metros |->
                      [on |-> TRUE, due |-> script.metros[i].period,
                       left |-> script.metros[i].count]],
        slots |-> [i \in DOMAIN script.threads |->
                     [alive |-> TRUE, ready |-> TRUE, at |-> script.threads[i].every]],
        inputs |-> script.inputs, queue |-> <<>>, played |-> <<>>]

-----------------------------------------------------------------------------
(* What one iteration does before it looks at the event queue. *)

\* clock_internal_publish_tick: the reference restarts at a whole pulse.
PublishTick(w) ==
  IF w.now * TickDen < w.nextTick THEN w
  ELSE [w EXCEPT !.ticks = @ + 1, !.last = w.now, !.nextTick = @ + TickNum]

Ascending(ids) ==
  CHOOSE s \in [1..Cardinality(ids) -> ids] : \A i, j \in DOMAIN s : i < j => s[i] < s[j]

Posted(w, kind, ids) ==
  LET ascending == Ascending(ids)
  IN [w EXCEPT !.queue = @ \o [i \in DOMAIN ascending |-> <<kind, ascending[i]>>]]

\* metros_step: a metro whose count is used up stops at its next deadline.
StepMetros(w) ==
  LET due == {i \in DOMAIN w.metros : w.metros[i].on /\ w.metros[i].due <= w.now}
      rings == {i \in due : w.metros[i].left # 0}
  IN [Posted(w, "metro", rings) EXCEPT !.metros =
        [i \in DOMAIN @ |->
           IF i \notin due THEN @[i]
           ELSE IF i \notin rings THEN [@[i] EXCEPT !.on = FALSE]
           ELSE [on |-> TRUE, due |-> @[i].due + script.metros[i].period,
                 left |-> IF @[i].left = Endless THEN Endless ELSE @[i].left - 1]]]

\* A sleep wakes at its time, a sync strictly after its beat.
Woken(w, i) ==
  IF script.threads[i].kind = "sleep" THEN w.now >= w.slots[i].at
  ELSE (w.slots[i].at - w.ticks) * TickNum < (w.now - w.last) * TickDen

StepScheduler(w) ==
  LET woken == {i \in DOMAIN w.slots : w.slots[i].ready /\ Woken(w, i)}
  IN [Posted(w, "thread", woken) EXCEPT !.slots =
        [i \in DOMAIN @ |-> IF i \in woken THEN [@[i] EXCEPT !.ready = FALSE] ELSE @[i]]]

Stepped(w) == StepScheduler(StepMetros(PublishTick(w)))

-----------------------------------------------------------------------------
(* One event: its callback, and what the script does in it. *)

\* Cancellation clears a slot and forgets the coroutine, or stops a metro; events
\* that are queued stay, and a resume of a forgotten coroutine does nothing.
Cancelled(w, what) ==
  IF what[1] = "metro" THEN [w EXCEPT !.metros[what[2]].on = FALSE]
  ELSE [w EXCEPT !.slots[what[2]] = [@ EXCEPT !.alive = FALSE, !.ready = FALSE]]

\* A coroutine sleeps from now on, and syncs from its previous target on.
Rescheduled(w, i) ==
  LET from == IF script.threads[i].kind = "sleep" THEN w.now ELSE w.slots[i].at
  IN [w EXCEPT !.slots[i] = [@ EXCEPT !.ready = TRUE, !.at = from + script.threads[i].every]]

Handled(w) ==
  LET event == Head(w.queue)
      ignored == event[1] = "thread" /\ ~w.slots[event[2]].alive
      popped == [w EXCEPT !.queue = Tail(@)]
      called == [popped EXCEPT !.played = Append(@, <<event, w.now>>)]
      again == IF event[1] = "thread" THEN Rescheduled(called, event[2]) ELSE called
      first == \A i \in DOMAIN w.played : w.played[i][1] # event
  IN IF ignored THEN popped
     ELSE IF script.cancel # <<>> /\ script.cancel[1] = event /\ first
     THEN Cancelled(again, script.cancel[2])
     ELSE again

-----------------------------------------------------------------------------
(* emu_clock_advance. *)

CeilOf(num, den) == (num + den - 1) \div den

MetroDeadlines(w) == {w.metros[i].due : i \in {j \in DOMAIN w.metros : w.metros[j].on}}
Ready(w, kind) == {i \in DOMAIN w.slots : w.slots[i].ready /\ script.threads[i].kind = kind}
SleepDeadlines(w) == {w.slots[i].at : i \in Ready(w, "sleep")}
SyncDeadlines(w) ==
  {w.last + ((w.slots[i].at - w.ticks) * TickNum) \div TickDen + 1 : i \in Ready(w, "sync")}
InputDeadlines(w) == {w.inputs[i] : i \in DOMAIN w.inputs}

DeadlinesWithoutMetros(w) ==
  {CeilOf(w.nextTick, TickDen)} \cup InputDeadlines(w) \cup SleepDeadlines(w) \cup SyncDeadlines(w)

Deadlines(w) ==
  {CeilOf(w.nextTick, TickDen)} \cup InputDeadlines(w) \cup MetroDeadlines(w)
    \cup SleepDeadlines(w) \cup SyncDeadlines(w)

\* A failure reaches the session as an error (advance_clock), which asks nothing more
\* of this runtime.
Advance(delta) ==
  /\ logical.target = AtRest /\ ~logical.failed
  /\ logical.now + delta <= MaxTime
  /\ logical' = [logical EXCEPT !.target = logical.now + delta, !.work = 0]
  /\ UNCHANGED script

Iterates == logical.target # AtRest /\ logical.work < WorkLimit
Iterated(w) == logical' = [w EXCEPT !.work = @ + 1] /\ UNCHANGED script
InputDue == logical.inputs # <<>> /\ Head(logical.inputs) <= logical.now

GiveUp ==
  /\ logical.target # AtRest /\ logical.work = WorkLimit
  /\ logical' = [logical EXCEPT !.target = AtRest, !.failed = TRUE]
  /\ UNCHANGED script

TakeInput ==
  /\ Iterates /\ InputDue
  /\ LET fed == Len(script.inputs) - Len(logical.inputs) + 1
     IN Iterated([logical EXCEPT !.inputs = Tail(@),
                                 !.played = Append(@, <<<<"input", fed>>, logical.now>>)])

Dispatch ==
  /\ Iterates /\ ~InputDue
  /\ Stepped(logical).queue # <<>>
  /\ Iterated(Handled(Stepped(logical)))

\* Time moves only when nothing is due, to the nearest deadline or the target.
MoveTime ==
  /\ Iterates /\ ~InputDue
  /\ LET w == Stepped(logical)
         next == Max({w.now + 1, Min(Deadlines(w))})
     IN /\ w.queue = <<>> /\ w.now # w.target
        /\ Iterated([w EXCEPT !.now = Min({next, w.target})])

EndAdvance ==
  /\ Iterates /\ ~InputDue
  /\ Stepped(logical).queue = <<>> /\ logical.now = logical.target
  /\ logical' = [Stepped(logical) EXCEPT !.target = AtRest, !.work = @ + 1]
  /\ UNCHANGED script

ClockNext ==
  \/ \E delta \in Deltas : Advance(delta)
  \/ GiveUp \/ TakeInput \/ Dispatch \/ MoveTime \/ EndAdvance

-----------------------------------------------------------------------------
(* Properties. *)

\* The callbacks that the script asks for by a time, from the meaning of metro, sleep,
\* sync and cancel alone.
InputCalls == {<<<<"input", i>>, script.inputs[i]>> : i \in DOMAIN script.inputs}
MetroCalls(i, until) ==
  {<<<<"metro", i>>, k * script.metros[i].period>> :
     k \in {n \in 1..until : script.metros[i].count = Endless \/ n <= script.metros[i].count}}
ThreadCalls(i, until) ==
  {<<<<"thread", i>>, IF script.threads[i].kind = "sleep" THEN k * script.threads[i].every
                      ELSE CeilOf(k * script.threads[i].every * TickNum, TickDen) + 1>> :
     k \in 1..until}

Asked(until) ==
  InputCalls \cup (UNION {MetroCalls(i, until) : i \in DOMAIN script.metros})
  \cup (UNION {ThreadCalls(i, until) : i \in DOMAIN script.threads})

Rank(event) == CASE event[1] = "input" -> 0 [] event[1] = "metro" -> 1 [] OTHER -> 2

Precedes(c, d) ==
  \/ c[2] < d[2]
  \/ c[2] = d[2] /\ Rank(c[1]) < Rank(d[1])
  \/ c[2] = d[2] /\ Rank(c[1]) = Rank(d[1]) /\ c[1][2] < d[1][2]

\* A metro event of the same time as its cancellation is queued already.
Kept(c, asked) ==
  script.cancel # <<>> /\ c[1] = script.cancel[2] =>
    \A d \in asked : d[1] = script.cancel[1] /\ Precedes(d, c) =>
                       c[1][1] = "metro" /\ c[2] = d[2]

Expected(until) ==
  LET asked == Asked(until) IN {c \in asked : c[2] <= until /\ Kept(c, asked)}

Runaway == NeverRests(script)

(* However time is cut into advances, an advance that succeeds has called   *)
(* every callback of its span, at its own time, in the order input, metros  *)
(* by number, coroutines by slot, and no cancelled one; no callback is ever *)
(* early.  A script that would never come to rest fails the advance, it is  *)
(* not dropped (emu_clock_advance, "Reconsider newly scheduled same-time    *)
(* work before moving time", "never permission to silently discard").       *)
AdvanceIsExact ==
  IF Runaway THEN logical.target = AtRest /\ logical.work > 0 => logical.failed
  ELSE LET played == ToSet(logical.played) IN
       /\ ~logical.failed
       /\ \A i, j \in DOMAIN logical.played :
            i < j => Precedes(logical.played[i], logical.played[j])
       /\ Expected(logical.now - 1) \subseteq played
       /\ played \subseteq Expected(logical.now)
       /\ logical.target = AtRest /\ logical.work > 0 => played = Expected(logical.now)
=============================================================================
