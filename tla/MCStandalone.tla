---------------------------- MODULE MCStandalone ----------------------------
(***************************************************************************)
(* Small instances of the components of Standalone.                        *)
(***************************************************************************)
EXTENDS Standalone, Naturals

CONSTANTS t1, t2, t3, e1, e2, tagged,  \* of ExecutionQueue
          p1, p2, c1, c2, c3           \* of BlockingQueue

\* t1 and t2 share a tag, t3 has none.
Tags == [t \in Task |-> IF t = t3 THEN Untagged ELSE tagged]

\* One word that tells which words went in, the others new.
Fresh(words) ==
  [l \in DOMAIN words |-> {<<0, IF l = 0 THEN <<"permuted", words>> ELSE <<"lane", l>> >>}]
Lengths == (0 .. 9) \cup UNION {{n - 1, n, n + 1} : n \in {16, 64, 72, 104, 136}}

Bits == {{}, {0, 3, 17, 40}, {i \in 0 .. 63 : (i * i) % 7 < 4}}

\* Three sites, two of which share a counter.
Names == <<"m", "m", "n">>

\* Two kinds of cores, one with two threads; two groups with a core 0 each.
Cpu(g, i, core, p) == [group |-> g, index |-> i, core |-> core, performance |-> p]
Hybrid == {Cpu(0, 0, 0, 2), Cpu(0, 1, 0, 2), Cpu(0, 2, 1, 1), Cpu(0, 3, 1, 1)}
Grouped == {Cpu(0, 0, 0, 1), Cpu(0, 1, 0, 1), Cpu(0, 2, 1, 0), Cpu(1, 0, 0, 0), Cpu(1, 1, 0, 0)}
Group(g) == {k \in Grouped : k.group = g}

LinuxSystem(online, affinity, exposes) ==
  [os |-> "linux", online |-> online, affinity |-> affinity, group |-> 0, defaults |-> {},
   elsewhere |-> {}, exposes |-> exposes, concurrency |-> 4]
WindowsSystem(affinity, g, defaults, elsewhere) ==
  [os |-> "windows", online |-> Grouped, affinity |-> affinity, group |-> g,
   defaults |-> defaults, elsewhere |-> elsewhere, exposes |-> {"cpu_capacity"},
   concurrency |-> 5]

\* An affinity holds a CPU of the group its thread is in, at least.
Affinities(g) == {own \cup other : own \in {Group(g), {k \in Group(g) : k.index # 1}},
                                   other \in {{}, Group(1 - g)}}
Defaults == {{}, {Cpu(0, 0, 0, 1)}, {Cpu(0, 2, 1, 0), Cpu(1, 0, 0, 0)}}

SomeSystems ==
  {LinuxSystem(online, affinity, {"core_cpus_list", "cpu_capacity"}) :
     online \in SUBSET Hybrid \ {{}}, affinity \in {Hybrid, Hybrid \ {Cpu(0, 1, 0, 2)}}}
  \cup {LinuxSystem(Hybrid, Hybrid, exposes) : exposes \in {{}, {"thread_siblings_list"}}}
  \cup UNION {{WindowsSystem(affinity, g, defaults, elsewhere) :
     affinity \in Affinities(g), defaults \in Defaults, elsewhere \in {{}, {Cpu(0, 0, 0, 1)}}} :
     g \in {0, 1}}
  \cup {[LinuxSystem({}, {}, {}) EXCEPT !.os = "other", !.concurrency = n] : n \in {0, 3}}

\* On each system a disk of every sort that it shows, and what has none.
AnyDisk ==
  [os : {"linux", "macOS", "windows"}, kind : {"fixed"}, link : {"internal", "usb"},
   medium : {"solid"}, claims : {"solid", "spinning", ""}, mapped : BOOLEAN,
   partition : BOOLEAN]
SomeVolumes ==
  AnyDisk \cup {[v EXCEPT !.kind = k] : k \in {"removable", "ram", "none"},
     v \in {d \in AnyDisk : d.link = "internal" /\ d.claims = "solid"}}
=============================================================================
