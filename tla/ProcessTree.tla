----------------------------- MODULE ProcessTree -----------------------------
(***************************************************************************)
(* ProcessTreeSampler of performance.py: the CPU counter of a tree of      *)
(* processes that fork, work and exit, whose pids are used again, and      *)
(* whose orphans leave the tree.  MaxForks, MaxWork and MaxTreeSamples     *)
(* bound a run.                                                            *)
(***************************************************************************)
EXTENDS Naturals, Sequences, SequencesExt

CONSTANTS Pids, RootPid, MaxForks, MaxWork, MaxTreeSamples

ASSUME ProcessTreeAssumption ==
  /\ IsFiniteSet(Pids) /\ Pids \subseteq Nat \ {0} /\ RootPid \in Pids
  /\ MaxForks \in Nat /\ MaxWork \in Nat /\ MaxTreeSamples \in Nat

VARIABLES table,     \* /proc: pid -> its process
          sampler,   \* ProcessTreeSampler.known, and the cpu_ns of the samples taken
          past       \* history: the forks, and each process's work when last sampled

treeVars == <<table, sampler, past>>

NoProcess == [start |-> 0, parent |-> 0, cpu |-> 0]
Live == {p \in Pids : table[p] # NoProcess}

ProcessTreeInit ==
  /\ table = [p \in Pids |-> IF p = RootPid THEN [NoProcess EXCEPT !.start = 1] ELSE NoProcess]
  /\ sampler = [known |-> {}, samples |-> <<>>]
  /\ past = [forks |-> 1, sampled |-> {}]

(* A later process has a later start_ticks than another with its pid.       *)
Fork(parent, p) ==
  /\ parent \in Live /\ p \notin Live /\ past.forks < MaxForks
  /\ table' = [table EXCEPT ![p] = [start |-> past.forks + 1, parent |-> parent, cpu |-> 0]]
  /\ past' = [past EXCEPT !.forks = @ + 1]
  /\ UNCHANGED sampler

Works(p) ==
  /\ p \in Live /\ table[p].cpu < MaxWork
  /\ table' = [table EXCEPT ![p].cpu = @ + 1]
  /\ UNCHANGED <<sampler, past>>

\* The children of a process that exits go to a process outside the tree.
Exits(p) ==
  /\ p \in Live \ {RootPid}
  /\ table' = [q \in Pids |-> CASE q = p -> NoProcess
                                [] table[q].parent = p /\ q # p -> [table[q] EXCEPT !.parent = 0]
                                [] OTHER -> table[q]]
  /\ UNCHANGED <<sampler, past>>

-----------------------------------------------------------------------------
(* sample().                                                                *)

\* A process is selected when the root is among its ancestors.
Reaches[p \in Pids \cup {0}, n \in 0..Cardinality(Pids)] ==
  /\ n > 0 /\ p \in Live
  /\ p = RootPid \/ Reaches[table[p].parent, n - 1]
Selected == {p \in Live : Reaches[p, Cardinality(Pids)]}

Identity(p) == <<p, table[p].start>>

Prior(id) == LET k == {l \in sampler.known : l.id = id} IN
             IF k = {} THEN 0 ELSE (CHOOSE l \in k : TRUE).cpu

Known ==
  LET now == {[id |-> Identity(p),
               cpu |-> IF table[p].cpu > Prior(Identity(p)) THEN table[p].cpu
                       ELSE Prior(Identity(p))] : p \in Selected}
  IN now \cup {k \in sampler.known : \A l \in now : l.id # k.id}

Sample ==
  /\ Len(sampler.samples) < MaxTreeSamples
  /\ sampler' = [known |-> Known,
                 samples |-> Append(sampler.samples, SumFunction([k \in Known |-> k.cpu]))]
  /\ past' = [past EXCEPT !.sampled =
       LET now == {[start |-> table[p].start, cpu |-> table[p].cpu] : p \in Selected}
       IN now \cup {s \in @ : \A t \in now : t.start # s.start}]
  /\ UNCHANGED table

ProcessTreeNext ==
  \/ \E p, q \in Pids : Fork(p, q)
  \/ \E p \in Pids : Works(p) \/ Exits(p)
  \/ Sample

TreeSpec == ProcessTreeInit /\ [][ProcessTreeNext]_treeVars

-----------------------------------------------------------------------------
(* The CPU counter of the tree never moves backwards, though processes exit *)
(* and their pids are used again, and it is the work of every process that  *)
(* was ever sampled, each counted once (ProcessTreeSampler.sample).         *)
TreeCounterIsExact ==
  LET samples == sampler.samples IN
  /\ \A i \in 1..(Len(samples) - 1) : samples[i] <= samples[i + 1]
  /\ samples # <<>> => Last(samples) = SumFunction([s \in past.sampled |-> s.cpu])
=============================================================================
