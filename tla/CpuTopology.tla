----------------------------- MODULE CpuTopology -----------------------------
(***************************************************************************)
(* CpuCount::get() (threading/thread_helpers.{h,cpp}) on each platform: a  *)
(* call that asks the system several questions, some of which may fail,    *)
(* while CPUs go on and off line and the affinity of the process changes.  *)
(***************************************************************************)
EXTENDS Integers, Sequences, SequencesExt

\* What the system may be: its os; the CPUs online, each a record of its group,
\* its index and its core in this group, and its performance; the affinity; the
\* thread's group; the default CPU Sets of the process, the CPUs allocated to
\* another one; what sysfs exposes, or
\* Windows tells with a CPU Set; hardware_concurrency().
CONSTANTS Systems, MaxChanges

Unsigned == 65536   \* of unsigned numbers, for 2^32

CpuAssumption ==
  /\ MaxChanges \in Nat
  /\ \A t \in Systems :
       /\ IsFiniteSet(t.affinity) /\ IsFiniteSet(t.online) /\ Cardinality(t.online) < Unsigned
       /\ t.os \in {"linux", "windows", "other"} /\ t.concurrency \in Nat
       /\ \A k \in t.online : k.index \in Nat /\ k.performance \in Int

VARIABLES
  system,
  stage,          \* where the call stands
  changes,        \* of the system, for the bound
  exact,          \* history: during this call the system neither changed nor failed
  allowed, todo,  \* linux: the CPUs to count, and of these the ones not yet looked at
  inserted,       \* linux: the key of the core just inserted
  masks,          \* windows: the CPUs available per group
  cpuSets,        \* windows: what GetSystemCpuSetInformation said is not another's
  cores,          \* the cores found, by a key that differs per platform
  ranked,         \* allCoresHaveRelativePerformance
  count           \* the CpuCount returned

found == <<allowed, todo, inserted, masks, cpuSets, cores, ranked>>
vars == <<system, stage, changes, exact, found, count>>

NoCores == [k \in {} |-> 0]
NoCount == [logical |-> 0, physical |-> 0, classes |-> <<>>]
Forgotten == [os |-> "none"]

Init ==
  /\ system = Forgotten /\ stage = "idle" /\ changes = 0 /\ exact = TRUE
  /\ allowed = {} /\ todo = {} /\ inserted = {} /\ masks = NoCores /\ cpuSets = {}
  /\ cores = NoCores /\ ranked = TRUE /\ count = NoCount

Get ==
  /\ stage = "idle" /\ system' \in Systems
  /\ stage' = system'.os
  /\ UNCHANGED <<changes, exact, found, count>>

\* A CPU goes on or off line, or somebody sets the affinity, mid-call.
Change ==
  /\ stage \notin {"idle", "done"} /\ changes < MaxChanges /\ changes' = changes + 1
  /\ system' \in {t \in Systems \ {system} : t.os = system.os}
  /\ exact' = FALSE
  /\ UNCHANGED <<stage, found, count>>

\* The outcomes of a call to the system that may fail.
Answers(failed) == IF failed THEN exact' = FALSE ELSE UNCHANGED exact

-----------------------------------------------------------------------------
(* The result.                                                             *)

\* Mutant: a class counts its logical processors as its cores.
ClassOfThreads(S, p) ==
  LET members == {k \in DOMAIN S : S[k].performance = p}
      logical == SumFunction([k \in members |-> S[k].logical])
  IN [performance |-> p, physical |-> logical, logical |-> logical]

ClassOf(S, p) ==
  LET members == {k \in DOMAIN S : S[k].performance = p}
  IN [performance |-> p, physical |-> Cardinality(members),
      logical |-> SumFunction([k \in members |-> S[k].logical])]

DistinguishableClasses(S) ==
  LET levels == {S[k].performance : k \in DOMAIN S}
      ascending == CHOOSE seq \in [1 .. Cardinality(levels) -> levels] :
                     \A m, n \in DOMAIN seq : m < n => seq[m] < seq[n]
  IN IF Cardinality(levels) < 2 THEN <<>>
     ELSE [n \in 1 .. Cardinality(levels) |-> ClassOf(S, ascending[n])]

CpuCount(logical, physical, classes) ==
  LET atLeast1 == Max({1, logical})
  IN [logical |-> atLeast1, physical |-> Max({1, Min({physical, atLeast1})}),
      classes |-> classes]

Return(logical, physical, classes) ==
  /\ stage' = "done" /\ count' = CpuCount(logical, physical, classes)
  /\ UNCHANGED <<system, changes, found>>

PerformanceCores(c) ==
  IF c.classes = <<>> THEN c.physical ELSE Last(c.classes).physical
EfficiencyCores(c) == (c.physical - PerformanceCores(c)) % Unsigned

Fallback == Max({1, system.concurrency})
NoTopology == Return(Fallback, Fallback, <<>>) /\ UNCHANGED exact

\* One CPU more in the core with this key.
Counted(S, key, performance) ==
  IF key \in DOMAIN S THEN [S EXCEPT ![key].logical = @ + 1]
  ELSE [k \in DOMAIN S \cup {key} |->
          IF k \in DOMAIN S THEN S[k] ELSE [logical |-> 1, performance |-> performance]]

\* FreeBSD and whatever else there is, and macOS, whose CPUs have no SMT.
GetOther == stage = "other" /\ NoTopology

-----------------------------------------------------------------------------
(* Linux.                                                                  *)

AllowedLinuxCpus ==
  /\ stage = "linux"
  /\ \E failed \in BOOLEAN :
       /\ Answers(failed)
       /\ allowed' = IF failed THEN {} ELSE system.affinity \cap system.online
  /\ todo' = allowed'
  /\ stage' = IF allowed' = {} THEN "other" ELSE "topology"
  /\ UNCHANGED <<system, changes, inserted, masks, cpuSets, cores, ranked, count>>

\* They are looked at in the order of their indices.
Cpu == CHOOSE k \in todo : \A other \in todo : k.index <= other.index

Readable(file) == Cpu \in system.online /\ file \in system.exposes

\* The list: the CPUs of the core, as far as they are online.
CoreCpus(cpu) == {k.index : k \in {k \in system.online : k.core = cpu.core}}

\* Either of its two names will do: the newer one, then the older.
TopologyReadable == Readable("core_cpus_list") \/ Readable("thread_siblings_list")

ReadTopology ==
  /\ stage = "topology" /\ todo # {} /\ TopologyReadable
  /\ LET key == CoreCpus(Cpu) IN
     /\ inserted' = key
     /\ cores' = Counted(cores, key, 0)
     /\ stage' = IF key \in DOMAIN cores THEN "topology" ELSE "capacity"
     /\ todo' = IF key \in DOMAIN cores THEN todo \ {Cpu} ELSE todo
  /\ UNCHANGED <<system, changes, exact, allowed, masks, cpuSets, ranked, count>>

\* A CPU that has gone off line counts on as a core of its own, as all others do.
TopologyMissing ==
  /\ stage = "topology" /\ todo # {} /\ ~TopologyReadable
  /\ Return(Cardinality(allowed), Cardinality(allowed), <<>>)
  /\ exact' = FALSE

\* cpu_capacity, for the core just inserted.
ReadCapacity ==
  /\ stage = "capacity" /\ stage' = "topology" /\ todo' = todo \ {Cpu}
  /\ IF Readable("cpu_capacity")
     THEN cores' = [cores EXCEPT ![inserted].performance = Cpu.performance]
          /\ UNCHANGED ranked
     ELSE ranked' = FALSE /\ UNCHANGED cores
  /\ UNCHANGED <<system, changes, exact, allowed, inserted, masks, cpuSets, count>>

GetLinux ==
  /\ stage = "topology" /\ todo = {}
  /\ Return(Cardinality(allowed), Cardinality(DOMAIN cores),
            IF ranked THEN DistinguishableClasses(cores) ELSE <<>>)
  /\ UNCHANGED exact

Linux == AllowedLinuxCpus \/ ReadTopology \/ TopologyMissing \/ ReadCapacity \/ GetLinux

-----------------------------------------------------------------------------
(* Windows.  A group's mask is the set of the indices of its bits.         *)

WindowsStep(from, to) ==
  /\ stage = from /\ stage' = to
  /\ UNCHANGED <<system, changes, allowed, todo, inserted, ranked, count>>

GroupsOf(cpus) == {k.group : k \in cpus}
IndicesIn(cpus, g) == {k.index : k \in {k \in cpus : k.group = g}}
ActiveMask(g) == 0 .. Cardinality(IndicesIn(system.online, g)) - 1
ActiveMasks(groups) == [g \in groups |-> ActiveMask(g)]

\* The group the thread is in gets the mask of the process.
OwnMask(known) ==
  [g \in DOMAIN known \cup {system.group} |->
     IF g = system.group THEN IndicesIn(system.affinity, g) ELSE known[g]]

\* processAffinityMasks: the groups of the process, or else that of its thread.
ProcessGroups ==
  /\ WindowsStep("windows", "process mask")
  /\ \E failed \in BOOLEAN :
       /\ Answers(failed)
       /\ masks' \in IF failed
                     THEN {NoCores, OwnMask(NoCores)}
                     ELSE {ActiveMasks(GroupsOf(system.affinity))}
  /\ UNCHANGED <<cpuSets, cores>>

\* With no mask at all, get() takes every group as it is.
ProcessMask ==
  /\ WindowsStep("process mask", "cpu sets")
  /\ \E failed \in BOOLEAN :
       /\ Answers(failed)
       /\ LET known == IF failed THEN masks ELSE OwnMask(masks)
          IN masks' = IF known = NoCores THEN ActiveMasks(GroupsOf(system.online)) ELSE known
  /\ UNCHANGED <<cpuSets, cores>>

\* Each comes with its allocatedElsewhere, and neither use wants those that have it.
WindowsCpuSets ==
  /\ WindowsStep("cpu sets", "default sets")
  /\ \E failed \in BOOLEAN :
       /\ Answers(failed)
       /\ cpuSets' = IF failed THEN {} ELSE system.online \ system.elsewhere
  /\ UNCHANGED <<masks, cores>>

InMasks(k) == k.group \in DOMAIN masks /\ k.index \in masks[k.group]

\* applyProcessDefaultCpuSets: narrows the masks, but never to nothing.
DefaultCpuSets ==
  /\ WindowsStep("default sets", "count")
  /\ \E failed \in BOOLEAN :
       LET selected == {k \in cpuSets \cap system.defaults : InMasks(k)}
       IN /\ Answers(failed)
          /\ masks' = IF failed \/ selected = {} THEN masks
                      ELSE [g \in GroupsOf(selected) |-> IndicesIn(selected, g)]
  /\ UNCHANGED <<cpuSets, cores>>

\* Mutant: cores that have the same index in two groups are taken for one.
CoreIndex(k) == k.core
CoreKey(k) == <<k.group, k.core>>

CountCores ==
  LET available == {k \in cpuSets : InMasks(k)}
      affinityCount == SumFunction([g \in DOMAIN masks |-> Cardinality(masks[g])])
      all == FoldSet(LAMBDA k, S : Counted(S, CoreKey(k), k.performance), NoCores, available)
  IN /\ stage = "count" /\ UNCHANGED exact
     /\ IF available = {}
        THEN LET n == IF affinityCount # 0 THEN affinityCount ELSE Fallback
             IN Return(n, n, <<>>)
        ELSE Return(Cardinality(available), Cardinality(DOMAIN all), DistinguishableClasses(all))

Windows == ProcessGroups \/ ProcessMask \/ WindowsCpuSets \/ DefaultCpuSets \/ CountCores

Next == Get \/ Change \/ GetOther \/ Linux \/ Windows

Spec == Init /\ [][Next]_vars

-----------------------------------------------------------------------------
(* Correctness.                                                            *)

Sum(c, field) == SumFunction([n \in DOMAIN c.classes |-> c.classes[n][field]])

\* Whatever fails, and whatever goes off line half-way through the call, the counts
\* agree with one another: a core has a CPU, the classes are told apart, ascend
\* and add up, and the efficiency cores, a difference of unsigned numbers, are
\* those of the classes but the fastest.
CountsAddUp ==
  stage = "done" =>
    /\ 1 <= PerformanceCores(count) /\ PerformanceCores(count) <= count.physical
    /\ count.physical <= count.logical
    /\ EfficiencyCores(count) + PerformanceCores(count) = count.physical
    /\ count.classes # <<>> =>
         /\ Len(count.classes) >= 2
         /\ Sum(count, "physical") = count.physical /\ Sum(count, "logical") = count.logical
         /\ \A m, n \in DOMAIN count.classes : m < n =>
              count.classes[m].performance < count.classes[n].performance

\* What holds of a real system, for the counts to be right: a group and an index tell
\* a CPU, the threads of a core are alike; on Windows, a group's indices have no gaps,
\* and of a group other than its thread's a process has all CPUs or none.
CpusFit ==
  \A t \in Systems :
    /\ \A a, b \in t.online \cup t.affinity :
         /\ a.group = b.group /\ a.index = b.index => a = b
         /\ t.os = "linux" => a.group = b.group
    /\ \A a, b \in t.online :
         a.group = b.group /\ a.core = b.core => a.performance = b.performance
    /\ t.os = "linux" => t.elsewhere = {} /\ t.defaults = {}
    /\ t.os = "windows" => \A k \in t.online :
         /\ k.index < Cardinality(IndicesIn(t.online, k.group))
         /\ k.group # t.group /\ k.group \in GroupsOf(t.affinity) => k \in t.affinity

\* The CPUs that the process may use, when they can be known.
Usable ==
  LET affine == (system.affinity \cap system.online) \ system.elsewhere
  IN IF affine \cap system.defaults = {} THEN affine ELSE affine \cap system.defaults

\* "Current scheduling resources": if nothing fails or changes, the counts are those
\* of the CPUs the process may use, whatever affinity, groups and CPU Sets say,
\* and each class has its cores.
CountsMatchCpus ==
  stage = "done" /\ exact /\ system.os # "other" /\ Usable # {} =>
    LET CoresOf(S) == {<<k.group, k.core>> : k \in S}
        Ranked(p) == {k \in Usable : k.performance = p}
        levels == {k.performance : k \in Usable}
    IN /\ count.logical = Cardinality(Usable)
       /\ count.physical = Cardinality(CoresOf(Usable))
       /\ "cpu_capacity" \in system.exposes =>
            IF Cardinality(levels) < 2 THEN count.classes = <<>>
            ELSE ToSet(count.classes) =
                   {[performance |-> p, physical |-> Cardinality(CoresOf(Ranked(p))),
                     logical |-> Cardinality(Ranked(p))] : p \in levels}
=============================================================================
