-------------------------- MODULE ResourceEnvelope ---------------------------
(***************************************************************************)
(* Whether the constrained performance lane can run on a host              *)
(* (performance.py): by the cgroup limits already enforced on the process, *)
(* read as CgroupStatsSampler.limits reads them, or by a cgroup it may     *)
(* create.  A limit that the kernel calls "max", or does not have, is      *)
(* Unlimited.                                                              *)
(***************************************************************************)
EXTENDS Integers, FiniteSets

CONSTANTS MemoryLimit,   \* MEMORY_LIMIT_BYTES
          Hosts          \* hosts: limits, and what the user may delegate

Unlimited == -1

Limits == [version : {1, 2}, quota : Int, period : Nat, memory : Int, swap : Int, cpus : Nat]
Delegations == [memberships : Nat, readable : BOOLEAN, missing : BOOLEAN, writable : BOOLEAN]

ASSUME EnvelopeAssumption ==
  /\ MemoryLimit \in Nat
  /\ \A h \in Hosts : h.limits \in Limits /\ h.delegation \in Delegations /\ h.counters \in BOOLEAN

VARIABLE machine   \* limits; whether the counters can be read at all; delegation

EnvelopeInit == machine \in Hosts

-----------------------------------------------------------------------------
(* envelope_violations.  The swap limit of version 1 is one of memory and   *)
(* swap together; an unreadable cpuset has no CPU.                          *)

CpuViolation(l) == l.quota = Unlimited \/ l.period = 0 \/ l.quota > l.period
MemoryViolation(l) == l.memory = Unlimited \/ l.memory > MemoryLimit

SwapViolation(l) ==
  IF l.version = 1 THEN l.swap = Unlimited \/ l.memory = Unlimited \/ l.swap > l.memory
  ELSE l.swap # 0

CpusetViolation(l) == l.cpus # 1

Violations(l) ==
  {v \in {"cpu", "memory", "swap", "cpuset"} :
     \/ v = "cpu" /\ CpuViolation(l)
     \/ v = "memory" /\ MemoryViolation(l)
     \/ v = "swap" /\ SwapViolation(l)
     \/ v = "cpuset" /\ CpusetViolation(l)}

\* enforced_envelope.
Enforced(h) == h.counters /\ Violations(h.limits) = {}

\* cgroup_capability.
Delegated(h) ==
  /\ h.delegation.memberships = 1 /\ h.delegation.readable
  /\ ~h.delegation.missing /\ h.delegation.writable

\* constrained_lane.
Mechanism(h) ==
  CASE Enforced(h) -> "enforced_envelope"
    [] ~Enforced(h) /\ Delegated(h) -> "delegated_cgroup_v2"
    [] OTHER -> "none"

-----------------------------------------------------------------------------
(* The constrained lane takes the limits that are enforced for its envelope *)
(* exactly when a process under them cannot have more than one CPU's time,  *)
(* on one CPU, nor more memory than the profile's, swapped or not           *)
(* (envelope_violations, constrained_lane).                                 *)
LaneIsBounded ==
  LET l == machine.limits
      cpuTime == IF l.quota = Unlimited \/ l.period = 0 THEN Unlimited ELSE l.quota
      memory == CASE l.memory = Unlimited \/ l.swap = Unlimited -> Unlimited
                  [] l.memory # Unlimited /\ l.swap # Unlimited /\ l.version = 1 ->
                       IF l.swap > l.memory THEN l.swap ELSE l.memory
                  [] OTHER -> l.memory + l.swap
      swaps == IF l.version = 1 THEN memory # l.memory ELSE l.swap # 0
  IN Mechanism(machine) = "enforced_envelope" <=>
       /\ machine.counters /\ l.cpus = 1
       /\ cpuTime # Unlimited /\ cpuTime <= l.period
       /\ memory # Unlimited /\ memory <= MemoryLimit /\ ~swaps
=============================================================================
