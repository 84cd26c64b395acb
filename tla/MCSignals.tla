------------------------------ MODULE MCSignals ------------------------------
(* Instances of Signals for TLC. *)
EXTENDS Signals, TLC

CONSTANT memory

CpuAndMemory == {cpu, memory}

Series(levels) == [1 .. 8 -> levels]

Pulse(low, high, first, last) == [i \in 1 .. 8 |-> IF i % 4 \in first .. last THEN high ELSE low]

Shapes == {Pulse(1, 3, 0, 0), Pulse(0, 1, 1, 2), Pulse(2, 2, 0, 0)}

\* Two levels of cpu in any order beside three shapes of memory.
TwoLevels ==
  {[values |-> cpu :> c @@ memory :> m, found |-> cpu :> p @@ memory :> q,
    strength |-> cpu :> s @@ memory :> t] :
     c \in Series({1, 4}) \cup Series({0, 1}) \cup Series({3, 4}), m \in Shapes,
     p \in {0, 3, 4}, q \in {2, 4}, s \in 0 .. 2, t \in {2}}

\* The defaults, and a request that lowers what can be lowered.
DefaultAndLoose ==
  {[min_period |-> 3, strength |-> 1, band |-> 10, jump_min |-> 50, ratio_max |-> 50],
   [min_period |-> 2, strength |-> 0, band |-> 0, jump_min |-> 0, ratio_max |-> 200]}

\* Neighbours that were observed from instant 3 on.
Neighbours ==
  {[period |-> 8, active |-> [i \in 3 .. 10 |-> i % 4 \in A]] : A \in {{0}, {0, 1}, {2}}}

\* A workload that is up for some hours of every eight, seen for three periods.
Up(hours, phase) == [i \in 1 .. 24 |-> IF (i + phase) % 8 < hours THEN 6 ELSE 1]

Days ==
  {[values |-> [r \in CpuAndMemory |-> Up(h, f)], found |-> [r \in CpuAndMemory |-> 8],
    strength |-> [r \in CpuAndMemory |-> 2]] : h \in 1 .. 7, f \in 0 .. 7}

Observations == TwoLevels \cup Days
=============================================================================
