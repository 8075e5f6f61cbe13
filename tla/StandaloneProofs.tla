--------------------------- MODULE StandaloneProofs ---------------------------
(***************************************************************************)
(* Components that have nothing to do with one another, each proved for    *)
(* every value of its constants.                                           *)
(***************************************************************************)
EXTENDS Standalone, Integers, SequenceTheorems, FiniteSetTheorems, TLAPS

-----------------------------------------------------------------------------
(* PeriodicThread: pause() and terminate() against the check and the call. *)

\* The parking check decides for a call only if neither has been called, and each
\* sets late back: so a call decided on by then finds none begun since, and once it
\* has begun the next check parks or ends the thread.
DecidedBefore ==
  late \in {0, 1} /\ (thread = "call" /\ (paused \/ terminate) => late = 0)

LEMMA DecidedStep == DecidedBefore /\ [Periodic!Next]_Periodic!vars => DecidedBefore'
<1> SUFFICES ASSUME DecidedBefore, [Periodic!Next]_Periodic!vars PROVE DecidedBefore'
  OBVIOUS
<1>1. CASE Periodic!SetWorkload \/ Periodic!Start \/ UNCHANGED Periodic!vars
  BY <1>1 DEF DecidedBefore, Periodic!SetWorkload, Periodic!Start, Periodic!vars
<1>2. CASE Periodic!Terminate \/ Periodic!Pause
  BY <1>2 DEF DecidedBefore, Periodic!Terminate, Periodic!Pause
<1>3. CASE Periodic!Join \/ Periodic!Resume \/ Periodic!SpuriousWake
  <2>1. Periodic!Notified = "call" => thread = "call"
    BY DEF Periodic!Notified
  <2>2. QED BY <1>3, <2>1 DEF DecidedBefore, Periodic!Join, Periodic!Resume,
                              Periodic!SpuriousWake, Periodic!Move
<1>4. CASE Periodic!ThreadStep \/ Periodic!DelayEnds \/ Periodic!PeriodEnds
  <2>1. CASE Periodic!CallWorkload
    BY <2>1 DEF DecidedBefore, Periodic!CallWorkload
  <2>2. CASE Periodic!Park
    BY <2>2 DEF DecidedBefore, Periodic!Park, Periodic!Move
  <2>3. CASE Periodic!Begin
    BY <2>3 DEF DecidedBefore, Periodic!Begin, Periodic!Move
  <2>4. CASE Periodic!Delay \/ Periodic!DelayEnds \/ Periodic!PeriodEnds
    BY <2>4 DEF DecidedBefore, Periodic!Delay, Periodic!DelayEnds, Periodic!PeriodEnds,
                Periodic!Move
  <2>5. CASE Periodic!WorkloadReturns \/ Periodic!Period
    BY <2>5 DEF DecidedBefore, Periodic!WorkloadReturns, Periodic!Period, Periodic!Move
  <2>6. QED BY <1>4, <2>1, <2>2, <2>3, <2>4, <2>5 DEF Periodic!ThreadStep
<1>5. QED BY <1>1, <1>2, <1>3, <1>4 DEF Periodic!Next

\* PeriodicThread: at most one call of the workload begins after a pause() or a
\* terminate(), the one already decided on.
THEOREM OneLateCall == Periodic!Spec => []AtMostOneLateCall
<1>1. Periodic!Init => DecidedBefore
  BY DEF Periodic!Init, DecidedBefore
<1>2. DecidedBefore => AtMostOneLateCall
  BY DEF DecidedBefore, AtMostOneLateCall, Periodic!AtMostOneLateCall
<1>3. QED BY <1>1, <1>2, DecidedStep, PTL DEF Periodic!Spec

-----------------------------------------------------------------------------
(* VolumeSpeed: whom each question of a query was about.                   *)

\* A volume found by FindNode, OpenVolume or FindMedia has answered what was asked
\* before; OpenVolume opens a GUID's own volume, whatever its mount path leads to.
Attested ==
  /\ volume.os \in {"linux", "macOS", "windows"} /\ mounted.os = volume.os
  /\ keyedBy = "guid" => Device!RamDisk(volume) \/ Device!HasDisk(volume)
  /\ step \in {"node", "parent"} => Device!HasDisk(found) /\ ~Device!ShowsUsb(found)
  /\ step = "windows" => volume.os = "windows"
  /\ step = "open" => keyedBy = "guid"
  /\ step \in {"seek penalty", "bus"} => Device!RamDisk(found) \/ Device!HasDisk(found)
  /\ step \in {"medium", "interconnect"} => Device!HasDisk(found)
  /\ step \in {"bus", "interconnect"} => found.claims = "solid"

LEMMA AttestedStep == Attested /\ [Device!Next]_Device!vars => Attested'
<1> SUFFICES ASSUME Attested, [Device!Next]_Device!vars PROVE Attested'
  OBVIOUS
<1> USE DEF Attested, Device!HasDisk, Device!ShowsUsb, Device!Continue, Device!Settle, Device!Slow,
            Device!Fast, Device!key, Device!RamDisk
<1>1. CASE Device!Replace \/ Device!CacheHit \/ Device!CacheMiss \/ UNCHANGED Device!vars
  BY <1>1 DEF Device!Replace, Device!CacheHit, Device!CacheMiss, Device!vars
<1>2. CASE Device!FindNode \/ Device!ReadNodeQueue \/ Device!ReadParentQueue
  BY <1>2 DEF Device!FindNode, Device!ReadNodeQueue, Device!ReadParentQueue, Device!Rotational
<1>3. CASE Device!DriveType \/ Device!OpenVolume \/ Device!SeekPenalty \/ Device!BusType
  BY <1>3 DEF Device!DriveType, Device!OpenVolume, Device!SeekPenalty, Device!BusType
<1>4. CASE Device!FindMedia \/ Device!MediumType \/ Device!Interconnect
  BY <1>4 DEF Device!FindMedia, Device!MediumType, Device!Interconnect
<1>5. QED BY <1>1, <1>2, <1>3, <1>4 DEF Device!Next, Device!Query

\* VolumeSpeed: FastRandomAccess is answered only if a volume that the key stood for
\* during the query attested to each thing asked, or on Windows a RAM disk is at the
\* key's mount path.
THEOREM FastWasAttested ==
  ASSUME Device!VolumesAssumption
  PROVE  Device!Spec => FastIsAttested
<1> DEFINE Told == Device!RamDisk(mounted) \/ \E v \in {found, volume} : Device!Attests(v)
<1>1. ASSUME Attested, [Device!Next]_Device!vars, cached = {}, cached' = {"FastRandomAccess"}
      PROVE  Told
  <2>1. /\ ~UNCHANGED Device!vars /\ ~Device!Replace /\ ~Device!CacheHit /\ ~Device!CacheMiss
        /\ ~Device!Slow /\ \A to : ~Device!Continue(to)
    BY <1>1 DEF Device!vars, Device!Replace, Device!CacheHit, Device!CacheMiss, Device!Slow,
                Device!Settle, Device!Continue
  <2>2. CASE Device!ReadNodeQueue \/ Device!ReadParentQueue
    <3>1. /\ step \in {"node", "parent"} /\ volume.claims = "solid"
          /\ Device!HasDisk(volume) /\ volume.link = found.link /\ volume.mapped = found.mapped
      BY <2>1, <2>2 DEF Device!ReadNodeQueue, Device!ReadParentQueue, Device!Rotational,
                        Device!Readable, Device!InPlace
    <3>2. ~(found.link = "usb" /\ ~found.mapped)
      BY <1>1, <3>1 DEF Attested, Device!ShowsUsb
    <3>3. Device!Attests(volume)
      BY <3>1, <3>2 DEF Device!Attests
    <3>4. QED BY <3>3
  <2>3. CASE Device!DriveType
    <3>1. Device!RamDisk(mounted)
      BY <1>1, <2>1, <2>3 DEF Device!DriveType, Attested, Device!RamDisk
    <3>2. QED BY <3>1
  <2>4. CASE Device!BusType \/ Device!Interconnect
    <3>1. /\ step \in {"bus", "interconnect"} /\ (found.link # "usb" \/ found.mapped)
      BY <2>1, <2>4 DEF Device!BusType, Device!Interconnect
    <3>2. Device!Attests(found)
      BY <1>1, <3>1 DEF Attested, Device!Attests
    <3>3. QED BY <3>2
  <2>5. ~(Device!FindNode \/ Device!OpenVolume \/ Device!SeekPenalty \/ Device!FindMedia
          \/ Device!MediumType)
    BY <2>1 DEF Device!FindNode, Device!OpenVolume, Device!SeekPenalty, Device!FindMedia,
                Device!MediumType
  <2>6. QED BY <1>1, <2>1, <2>2, <2>3, <2>4, <2>5 DEF Device!Next, Device!Query
<1>2. Device!Init => Attested
  BY DEF Device!VolumesAssumption, Device!Init, Attested, Device!HasDisk, Device!RamDisk
<1>3. Attested /\ [Device!Next]_Device!vars =>
        [cached = {} /\ cached' = {"FastRandomAccess"} =>
           Device!RamDisk(mounted) \/ \E v \in {found, volume} : Device!Attests(v)]_Device!vars
  BY <1>1
<1>4. QED BY <1>2, <1>3, AttestedStep, PTL DEF Device!Spec, FastIsAttested, Device!FastIsAttested

-----------------------------------------------------------------------------
(* ProfilerCounters: whose samples a counter holds.                        *)

Counter == [name : Profile!Names, ns : Nat, calls : Nat]
CounterTypes ==
  /\ counters \in Seq(Counter) /\ tally \in [Profile!Names -> [ns : Nat, calls : Nat]]
  /\ counterOf \in [Site -> 0 .. Len(counters)]
  /\ at \in [Site -> {"idle", "create", "ns", "calls"}]
  /\ resetting \in [index : 0 .. Len(counters), halfway : BOOLEAN]

\* The mutex: a site that found nothing creates its counter before anybody else looks
\* for one, and no counter is added while the counters are being reset.
Registry ==
  /\ \A c \in Site : at[c] = "create" => registryOwner = c /\ Profile!Named(NameOf[c]) = {}
  /\ resetting.index # 0 => registryOwner = Resetter
  /\ resetting.halfway => resetting.index # 0

\* So a name has one counter, and a site has that of its name.
OnePerName == \A k, m \in DOMAIN counters : counters[k].name = counters[m].name => k = m
SitesKnow == \A c \in Site :
  /\ counterOf[c] # 0 => counters[counterOf[c]].name = NameOf[c]
  /\ at[c] \in {"ns", "calls"} => counterOf[c] # 0

\* The time is always that of the tally; so are the calls, but between the two stores
\* of a reset, when whatever call comes in between is lost and blurs the name.
Agrees(k) == LET n == counters[k].name IN
  /\ counters[k].ns = tally[n].ns
  /\ n \notin blurred => IF Profile!HalfReset(k) THEN tally[n].calls = 0
                         ELSE counters[k].calls = tally[n].calls
Agreement ==
  /\ \A k \in DOMAIN counters : Agrees(k)
  /\ \A n \in Profile!Names : Profile!Named(n) = {} => tally[n] = Profile!NoSamples

ProfileInv == CounterTypes /\ Registry /\ OnePerName /\ SitesKnow /\ Agreement

\* A step that leaves the counters and their tally alone.
LEMMA LookupStep ==
  ASSUME Profile!CountersAssumption, ProfileInv, NEW c \in Site,
         Profile!Find(c) \/ Profile!FindNothing(c) \/ Profile!BeginSample(c)
  PROVE  ProfileInv'
<1>1. DOMAIN counters = 1 .. Len(counters) /\ Len(counters) \in Nat
  BY LenProperties DEF ProfileInv, CounterTypes
<1>2. UNCHANGED <<counters, tally, resetting, blurred>>
  BY DEF Profile!Find, Profile!FindNothing, Profile!BeginSample, Profile!UnchangedByLookup,
         Profile!UnchangedBySample
<1>3. Agreement' /\ OnePerName'
  BY <1>2 DEF ProfileInv, Agreement, Agrees, OnePerName, Profile!HalfReset, Profile!Named,
              Profile!Names
<1>4. CASE Profile!Find(c)
  <2>1. PICK k \in Profile!Named(NameOf[c]) : counterOf' = [counterOf EXCEPT ![c] = k]
    BY <1>4 DEF Profile!Find
  <2>2. k \in 1 .. Len(counters) /\ counters[k].name = NameOf[c]
    BY <1>1, <2>1 DEF Profile!Named
  <2>3. QED BY <1>1, <1>2, <1>3, <1>4, <2>1, <2>2
            DEF Profile!Find, Profile!UnchangedByLookup, ProfileInv, CounterTypes, Registry,
                SitesKnow, Profile!Named
<1>5. CASE Profile!FindNothing(c)
  BY <1>1, <1>2, <1>3, <1>5
     DEF Profile!FindNothing, Profile!Goto, ProfileInv, CounterTypes, Registry, SitesKnow,
         Profile!Named, Profile!CountersAssumption
<1>6. CASE Profile!BeginSample(c)
  BY <1>1, <1>2, <1>3, <1>6
     DEF Profile!BeginSample, Profile!Goto, Profile!UnchangedBySample, ProfileInv, CounterTypes,
         Registry, SitesKnow, Profile!Named
<1>7. QED BY <1>4, <1>5, <1>6

LEMMA CreateStep ==
  ASSUME Profile!CountersAssumption, ProfileInv, NEW c \in Site, Profile!Create(c)
  PROVE  ProfileInv'
<1> DEFINE new == [name |-> NameOf[c], ns |-> 0, calls |-> 0]
<1>0. PICK size \in Nat : size = Len(counters)
  BY LenProperties DEF ProfileInv, CounterTypes
<1>1. DOMAIN counters = 1 .. size /\ \A k \in 1 .. size : counters[k] \in Counter
  BY <1>0, LenProperties DEF ProfileInv, CounterTypes
<1>2. NameOf[c] \in Profile!Names /\ new \in Counter
  BY DEF Profile!Names, Counter
<1>3. /\ registryOwner = c /\ Profile!Named(NameOf[c]) = {} /\ resetting.index = 0
      /\ ~resetting.halfway
  BY DEF Profile!Create, Profile!Goto, ProfileInv, Registry, Profile!CountersAssumption
<1>4. /\ counters' \in Seq(Counter) /\ Len(counters') = size + 1 /\ counters'[size + 1] = new
      /\ \A k \in 1 .. size : counters'[k] = counters[k]
  BY <1>0, <1>1, <1>2, AppendProperties DEF Profile!Create, ProfileInv, CounterTypes
<1>5. DOMAIN counters' = 1 .. size + 1
  BY <1>4, LenProperties
<1>6. /\ counterOf' = [counterOf EXCEPT ![c] = size + 1] /\ at' = [at EXCEPT ![c] = "idle"]
      /\ registryOwner' = Nobody /\ UNCHANGED <<resetting, tally, blurred>>
  BY <1>0 DEF Profile!Create, Profile!Goto, Profile!UnchangedByLookup
<1> HIDE DEF new
<1>7. \A k \in 1 .. size : counters[k].name # NameOf[c]
  BY <1>1, <1>3 DEF Profile!Named
<1>8. new.name = NameOf[c] /\ new.ns = 0 /\ new.calls = 0
  BY DEF new
<1>9. CounterTypes'
  <2>1. counterOf' \in [Site -> 0 .. size + 1]
    BY <1>0, <1>6 DEF ProfileInv, CounterTypes
  <2>2. at' \in [Site -> {"idle", "create", "ns", "calls"}]
    BY <1>6 DEF ProfileInv, CounterTypes
  <2>3. resetting' \in [index : 0 .. size + 1, halfway : BOOLEAN]
    BY <1>0, <1>6 DEF ProfileInv, CounterTypes
  <2>4. QED BY <1>4, <1>6, <2>1, <2>2, <2>3 DEF ProfileInv, CounterTypes, Profile!Names
<1>10. Registry'
  <2>1. \A x \in Site : at'[x] # "create"
    BY <1>3, <1>6 DEF ProfileInv, Registry, CounterTypes
  <2>2. QED BY <1>3, <1>6, <2>1 DEF Registry
<1>11. OnePerName' /\ SitesKnow'
  <2>1. OnePerName'
    BY <1>1, <1>4, <1>5, <1>7, <1>8 DEF ProfileInv, OnePerName
  <2>2. \A x \in Site : counterOf[x] \in 0 .. size
    BY <1>0 DEF ProfileInv, CounterTypes
  <2>3. QED BY <1>1, <1>4, <1>6, <1>8, <2>1, <2>2 DEF ProfileInv, SitesKnow, CounterTypes
<1>12. Agreement'
  <2>1. \A k \in 1 .. size : Agrees(k)'
    BY <1>1, <1>4, <1>6 DEF ProfileInv, Agreement, Agrees, Profile!HalfReset
  <2>2. tally[NameOf[c]] = Profile!NoSamples
    BY <1>2, <1>3 DEF ProfileInv, Agreement
  <2>3. Agrees(size + 1)'
    <3>1. ~Profile!HalfReset(size + 1)'
      BY <1>3, <1>6 DEF Profile!HalfReset
    <3>2. counters'[size + 1].name = NameOf[c] /\ counters'[size + 1].ns = 0
          /\ counters'[size + 1].calls = 0
      BY <1>4, <1>8
    <3>3. tally'[NameOf[c]].ns = 0 /\ tally'[NameOf[c]].calls = 0
      BY <1>6, <2>2 DEF Profile!NoSamples
    <3>4. QED BY <3>1, <3>2, <3>3 DEF Agrees
  <2>4. \A n \in Profile!Names : Profile!Named(n)' = {} => Profile!Named(n) = {}
    BY <1>1, <1>4, <1>5 DEF Profile!Named
  <2>5. \A k \in DOMAIN counters' : k \in 1 .. size \/ k = size + 1
    BY <1>1, <1>5
  <2>6. \A n \in Profile!Names : Profile!Named(n)' = {} => tally'[n] = Profile!NoSamples
    BY <1>6, <2>4 DEF ProfileInv, Agreement
  <2>7. QED BY <2>1, <2>3, <2>5, <2>6 DEF Agreement, Profile!Names, Profile!NoSamples
<1>13. QED BY <1>9, <1>10, <1>11, <1>12 DEF ProfileInv

\* A field of one counter changes, and so may the tally of its name.
LEMMA OneChanges ==
  ASSUME CounterTypes, OnePerName, NEW k \in DOMAIN counters, NEW v \in Counter,
         v.name = counters[k].name, counters' = [counters EXCEPT ![k] = v]
  PROVE  /\ counters' \in Seq(Counter) /\ Len(counters') = Len(counters)
         /\ DOMAIN counters' = DOMAIN counters
         /\ \A m \in DOMAIN counters : counters'[m] = IF m = k THEN v ELSE counters[m]
         /\ \A m \in DOMAIN counters : counters'[m].name = counters[m].name
         /\ OnePerName'
         /\ \A n : Profile!Named(n)' = Profile!Named(n)
<1>1. DOMAIN counters = 1 .. Len(counters) /\ Len(counters) \in Nat
  BY LenProperties DEF CounterTypes
<1>2. /\ counters' \in Seq(Counter) /\ Len(counters') = Len(counters)
      /\ DOMAIN counters' = DOMAIN counters
  BY <1>1, ExceptSeq DEF CounterTypes
<1>3. \A m \in DOMAIN counters : counters'[m] = IF m = k THEN v ELSE counters[m]
  OBVIOUS
<1>4. \A m \in DOMAIN counters : counters'[m].name = counters[m].name
  BY <1>3
<1>5. QED BY <1>2, <1>3, <1>4 DEF OnePerName, Profile!Named

\* What holds of a counter that neither changes nor shares its name with one that does.
LEMMA OthersAgree ==
  ASSUME ProfileInv, NEW k \in DOMAIN counters, NEW m \in DOMAIN counters \ {k},
         counters'[m] = counters[m], tally'[counters[m].name] = tally[counters[m].name],
         counters[m].name \in blurred' <=> counters[m].name \in blurred,
         Profile!HalfReset(m)' <=> Profile!HalfReset(m)
  PROVE  Agrees(m)'
BY DEF ProfileInv, Agreement, Agrees

LEMMA SampleStep ==
  ASSUME Profile!CountersAssumption, ProfileInv, NEW c \in Site,
         Profile!AddNs(c) \/ Profile!AddCall(c)
  PROVE  ProfileInv'
<1>1. PICK k \in DOMAIN counters : counterOf[c] = k /\ counters[k].name = NameOf[c]
  <2>1. at[c] \in {"ns", "calls"}
    BY DEF Profile!AddNs, Profile!AddCall, Profile!Goto
  <2>2. counterOf[c] \in 1 .. Len(counters) /\ counters[counterOf[c]].name = NameOf[c]
    BY <2>1, LenProperties DEF ProfileInv, SitesKnow, CounterTypes
  <2>3. QED BY <2>2, LenProperties DEF ProfileInv, CounterTypes
<1>2. PICK n \in Profile!Names : n = NameOf[c] /\ counters[k].name = n
  BY <1>1 DEF Profile!Names
<1>3. counters[k] \in Counter /\ tally[n] \in [ns : Nat, calls : Nat]
  BY <1>1, LenProperties DEF ProfileInv, CounterTypes
<1>4. \A m \in DOMAIN counters \ {k} : counters[m].name # n
  BY <1>1, <1>2 DEF ProfileInv, OnePerName
<1>5. UNCHANGED <<registryOwner, counterOf, resetting, resets, sampled>>
  BY DEF Profile!AddNs, Profile!AddCall, Profile!UnchangedBySample
<1>6. ASSUME NEW v \in Counter, v.name = n, counters' = [counters EXCEPT ![k] = v],
             NEW w \in [ns : Nat, calls : Nat], tally' = [tally EXCEPT ![n] = w],
             NEW to \in {"calls", "idle"}, at' = [at EXCEPT ![c] = to],
             blurred \subseteq blurred', blurred' \subseteq blurred \cup {n}, Agrees(k)'
      PROVE  ProfileInv'
  <2>1. /\ counters' \in Seq(Counter) /\ Len(counters') = Len(counters)
        /\ DOMAIN counters' = DOMAIN counters
        /\ \A m \in DOMAIN counters : counters'[m] = IF m = k THEN v ELSE counters[m]
        /\ \A m \in DOMAIN counters : counters'[m].name = counters[m].name
        /\ OnePerName' /\ \A x : Profile!Named(x)' = Profile!Named(x)
    BY <1>2, <1>6, OneChanges DEF ProfileInv
  <2>2. CounterTypes'
    BY <1>5, <1>6, <2>1 DEF ProfileInv, CounterTypes, Profile!Names
  <2>3. Registry'
    BY <1>5, <1>6, <2>1 DEF ProfileInv, Registry, CounterTypes
  <2>4. SitesKnow'
    <3>1. \A x \in Site : counterOf[x] # 0 => counterOf[x] \in DOMAIN counters
      BY LenProperties DEF ProfileInv, CounterTypes
    <3>2. \A x \in Site : at'[x] \in {"ns", "calls"} => at[x] \in {"ns", "calls"}
      <4>1. at[c] \in {"ns", "calls"}
        BY DEF Profile!AddNs, Profile!AddCall, Profile!Goto
      <4>2. QED BY <1>6, <4>1 DEF ProfileInv, CounterTypes
    <3>3. QED BY <1>5, <2>1, <3>1, <3>2 DEF ProfileInv, SitesKnow
  <2>5. \A m \in DOMAIN counters \ {k} : Agrees(m)'
    <3> TAKE m \in DOMAIN counters \ {k}
    <3>1. counters'[m] = counters[m] /\ counters[m].name # n
      BY <1>4, <2>1
    <3>2. tally'[counters[m].name] = tally[counters[m].name]
      BY <1>6, <3>1 DEF ProfileInv, CounterTypes
    <3>3. counters[m].name \in blurred' <=> counters[m].name \in blurred
      BY <1>6, <3>1
    <3>4. Profile!HalfReset(m)' <=> Profile!HalfReset(m)
      BY <1>5 DEF Profile!HalfReset
    <3>5. QED BY <3>1, <3>2, <3>3, <3>4, OthersAgree
  <2>6. \A x \in Profile!Names : Profile!Named(x)' = {} => tally'[x] = Profile!NoSamples
    <3> TAKE x \in Profile!Names
    <3>1. ASSUME Profile!Named(x)' = {} PROVE tally'[x] = Profile!NoSamples
      <4>1. Profile!Named(x) = {} /\ x # n
        BY <1>1, <1>2, <2>1, <3>1 DEF Profile!Named
      <4>2. QED BY <1>6, <4>1 DEF ProfileInv, Agreement, CounterTypes
    <3>2. QED BY <3>1
  <2>7. Agreement'
    BY <1>6, <2>1, <2>5, <2>6 DEF Agreement, Profile!Names, Profile!NoSamples
  <2>8. QED BY <2>1, <2>2, <2>3, <2>4, <2>7 DEF ProfileInv
<1>7. Agrees(k)
  BY <1>1 DEF ProfileInv, Agreement
<1>8. CASE Profile!AddNs(c)
  <2>1. PICK d \in Durations : Profile!Added(k, "ns", d) /\ Profile!Tallied(n, "ns", d)
    BY <1>1, <1>2, <1>8 DEF Profile!AddNs
  <2> DEFINE v == [counters[k] EXCEPT !.ns = counters[k].ns + d]
             w == [tally[n] EXCEPT !.ns = tally[n].ns + d]
  <2>2. v \in Counter /\ v.name = n /\ w \in [ns : Nat, calls : Nat]
    BY <1>2, <1>3 DEF Counter, Profile!CountersAssumption
  <2>3. counters' = [counters EXCEPT ![k] = v] /\ tally' = [tally EXCEPT ![n] = w]
    BY <2>1 DEF Profile!Added, Profile!Tallied
  <2>4. at' = [at EXCEPT ![c] = "calls"] /\ blurred' = blurred
    BY <1>8 DEF Profile!AddNs, Profile!Goto
  <2>5. /\ counters'[k].name = n /\ counters'[k].ns = counters[k].ns + d
        /\ counters'[k].calls = counters[k].calls
        /\ tally'[n].ns = tally[n].ns + d /\ tally'[n].calls = tally[n].calls
    BY <1>1, <1>2, <1>3, <2>3 DEF Counter, ProfileInv, CounterTypes
  <2>6. Agrees(k)'
    BY <1>2, <1>5, <1>7, <2>4, <2>5 DEF Agrees, Profile!HalfReset
  <2> HIDE DEF v, w
  <2>7. QED BY <1>6, <2>2, <2>3, <2>4, <2>6
<1>9. CASE Profile!AddCall(c)
  <2>1. Profile!Added(k, "calls", 1) /\ Profile!Tallied(n, "calls", 1)
    BY <1>1, <1>2, <1>9 DEF Profile!AddCall
  <2> DEFINE v == [counters[k] EXCEPT !.calls = counters[k].calls + 1]
             w == [tally[n] EXCEPT !.calls = tally[n].calls + 1]
  <2>2. v \in Counter /\ v.name = n /\ w \in [ns : Nat, calls : Nat]
    BY <1>2, <1>3 DEF Counter
  <2>3. counters' = [counters EXCEPT ![k] = v] /\ tally' = [tally EXCEPT ![n] = w]
    BY <2>1 DEF Profile!Added, Profile!Tallied
  <2>4. /\ at' = [at EXCEPT ![c] = "idle"]
        /\ blurred' = blurred \cup {x \in {n} : Profile!HalfReset(k)}
    BY <1>1, <1>2, <1>9 DEF Profile!AddCall, Profile!Goto
  <2>5. /\ counters'[k].name = n /\ counters'[k].ns = counters[k].ns
        /\ counters'[k].calls = counters[k].calls + 1
        /\ tally'[n].ns = tally[n].ns /\ tally'[n].calls = tally[n].calls + 1
    BY <1>1, <1>2, <1>3, <2>3 DEF Counter, ProfileInv, CounterTypes
  <2>6. Agrees(k)'
    <3>1. n \notin blurred' => n \notin blurred /\ ~Profile!HalfReset(k)
      BY <2>4
    <3>2. Profile!HalfReset(k)' <=> Profile!HalfReset(k)
      BY <1>5 DEF Profile!HalfReset
    <3>3. QED BY <1>2, <1>7, <2>5, <3>1, <3>2 DEF Agrees
  <2>7. blurred \subseteq blurred' /\ blurred' \subseteq blurred \cup {n}
    BY <2>4
  <2> HIDE DEF v, w
  <2>8. QED BY <1>6, <2>2, <2>3, <2>4, <2>6, <2>7
<1>10. QED BY <1>8, <1>9

LEMMA ResetStep ==
  ASSUME Profile!CountersAssumption, ProfileInv, Profile!ResetNs \/ Profile!ResetCalls
  PROVE  ProfileInv'
<1>1. PICK k \in DOMAIN counters : resetting.index = k
  <2>1. resetting.index \in 1 .. Len(counters)
    BY DEF Profile!ResetNs, Profile!ResetCalls, ProfileInv, CounterTypes, Registry
  <2>2. QED BY <2>1, LenProperties DEF ProfileInv, CounterTypes
<1>2. counters[k] \in Counter
  BY <1>1, LenProperties DEF ProfileInv, CounterTypes
<1>3. PICK n \in Profile!Names : n = counters[k].name
  BY <1>2 DEF Counter
<1>4. \A m \in DOMAIN counters \ {k} : counters[m].name # n
  BY <1>1, <1>3 DEF ProfileInv, OnePerName
<1>5. UNCHANGED <<counterOf, at, sampled>>
  BY DEF Profile!ResetNs, Profile!ResetCalls, Profile!UnchangedByReset
<1>6. registryOwner = Resetter /\ k \in 1 .. Len(counters) /\ k # 0
  BY <1>1, LenProperties DEF ProfileInv, CounterTypes, Registry
<1>7. ASSUME NEW v \in Counter, v.name = n, counters' = [counters EXCEPT ![k] = v],
             NEW w \in [ns : Nat, calls : Nat], tally' = [tally EXCEPT ![n] = w],
             resetting' \in [index : 0 .. Len(counters), halfway : BOOLEAN],
             resetting'.index # 0 => registryOwner' = Resetter,
             resetting'.halfway => resetting'.index = k,
             \A x \in Profile!Names \ {n} : x \in blurred' <=> x \in blurred, Agrees(k)'
      PROVE  ProfileInv'
  <2>1. /\ counters' \in Seq(Counter) /\ Len(counters') = Len(counters)
        /\ DOMAIN counters' = DOMAIN counters
        /\ \A m \in DOMAIN counters : counters'[m] = IF m = k THEN v ELSE counters[m]
        /\ \A m \in DOMAIN counters : counters'[m].name = counters[m].name
        /\ OnePerName' /\ \A x : Profile!Named(x)' = Profile!Named(x)
    BY <1>3, <1>7, OneChanges DEF ProfileInv
  <2>2. CounterTypes'
    BY <1>5, <1>7, <2>1 DEF ProfileInv, CounterTypes, Profile!Names
  <2>3. \A x \in Site : at[x] # "create"
    BY <1>6 DEF ProfileInv, Registry, Profile!CountersAssumption
  <2>4. Registry'
    BY <1>5, <1>6, <1>7, <2>3 DEF Registry
  <2>5. SitesKnow'
    <3>1. \A x \in Site : counterOf[x] # 0 => counterOf[x] \in DOMAIN counters
      BY LenProperties DEF ProfileInv, CounterTypes
    <3>2. QED BY <1>5, <2>1, <3>1 DEF ProfileInv, SitesKnow
  <2>6. \A m \in DOMAIN counters \ {k} : Agrees(m)'
    <3> TAKE m \in DOMAIN counters \ {k}
    <3>0. counters[m] \in Counter
      BY LenProperties DEF ProfileInv, CounterTypes
    <3>1. counters'[m] = counters[m] /\ counters[m].name # n /\ counters[m].name \in Profile!Names
      BY <1>4, <2>1, <3>0 DEF Counter
    <3>2. tally'[counters[m].name] = tally[counters[m].name]
      BY <1>7, <3>1 DEF ProfileInv, CounterTypes
    <3>3. counters[m].name \in blurred' <=> counters[m].name \in blurred
      BY <1>7, <3>1
    <3>4. ~Profile!HalfReset(m)' /\ ~Profile!HalfReset(m)
      BY <1>1, <1>7 DEF Profile!HalfReset
    <3>5. QED BY <3>1, <3>2, <3>3, <3>4, OthersAgree
  <2>7. \A x \in Profile!Names : Profile!Named(x)' = {} => tally'[x] = Profile!NoSamples
    <3> TAKE x \in Profile!Names
    <3>1. ASSUME Profile!Named(x)' = {} PROVE tally'[x] = Profile!NoSamples
      <4>1. Profile!Named(x) = {} /\ x # n
        BY <1>1, <1>3, <2>1, <3>1 DEF Profile!Named
      <4>2. QED BY <1>7, <4>1 DEF ProfileInv, Agreement, CounterTypes
    <3>2. QED BY <3>1
  <2>8. Agreement'
    BY <1>7, <2>1, <2>6, <2>7 DEF Agreement, Profile!Names, Profile!NoSamples
  <2>9. QED BY <2>1, <2>2, <2>4, <2>5, <2>8 DEF ProfileInv
<1>8. Agrees(k)
  BY <1>1 DEF ProfileInv, Agreement
<1>9. CASE Profile!ResetNs
  <2> DEFINE v == [counters[k] EXCEPT !.ns = 0]
  <2>1. v \in Counter /\ v.name = n /\ v.ns = 0 /\ v.calls = counters[k].calls
    BY <1>2, <1>3 DEF Counter
  <2>2. /\ counters' = [counters EXCEPT ![k] = v]
        /\ tally' = [tally EXCEPT ![n] = Profile!NoSamples]
        /\ resetting' = [resetting EXCEPT !.halfway = TRUE] /\ registryOwner' = registryOwner
        /\ blurred' = blurred \cup {n} \/ blurred' = blurred \ {n}
    BY <1>1, <1>3, <1>9 DEF Profile!ResetNs
  <2>3. /\ resetting' \in [index : 0 .. Len(counters), halfway : BOOLEAN] /\ resetting'.index = k
        /\ resetting' = [index |-> k, halfway |-> TRUE]
    BY <1>1, <2>2 DEF ProfileInv, CounterTypes
  <2>4. Profile!NoSamples \in [ns : Nat, calls : Nat]
    BY DEF Profile!NoSamples
  <2>5. Agrees(k)'
    <3>1. counters'[k] = v
      BY <1>1, <2>2
    <3>2. tally'[n].ns = 0 /\ tally'[n].calls = 0
      BY <2>2 DEF ProfileInv, CounterTypes, Profile!NoSamples
    <3>3. Profile!HalfReset(k)'
      BY <2>3 DEF Profile!HalfReset
    <3> HIDE DEF v
    <3>4. QED BY <2>1, <3>1, <3>2, <3>3 DEF Agrees
  <2>6. \A x \in Profile!Names \ {n} : x \in blurred' <=> x \in blurred
    BY <2>2
  <2> HIDE DEF v
  <2>7. QED BY <1>6, <1>7, <2>1, <2>2, <2>3, <2>4, <2>5, <2>6
<1>10. CASE Profile!ResetCalls
  <2> DEFINE v == [counters[k] EXCEPT !.calls = 0]
  <2>1. v \in Counter /\ v.name = n /\ v.ns = counters[k].ns /\ v.calls = 0
    BY <1>2, <1>3 DEF Counter
  <2>2. /\ counters' = [counters EXCEPT ![k] = v] /\ UNCHANGED <<tally, blurred>>
        /\ resetting' = [index |-> IF k = Len(counters) THEN 0 ELSE k + 1, halfway |-> FALSE]
        /\ registryOwner' = IF k = Len(counters) THEN Nobody ELSE Resetter
        /\ resetting.halfway
    BY <1>1, <1>10 DEF Profile!ResetCalls
  <2>3. /\ resetting' \in [index : 0 .. Len(counters), halfway : BOOLEAN] /\ ~resetting'.halfway
        /\ resetting'.index # 0 => registryOwner' = Resetter
    BY <1>6, <2>2, LenProperties DEF ProfileInv, CounterTypes
  <2>4. tally' = [tally EXCEPT ![n] = tally[n]] /\ tally[n] \in [ns : Nat, calls : Nat]
    BY <2>2 DEF ProfileInv, CounterTypes
  <2>5. Agrees(k)'
    <3>1. counters'[k] = v
      BY <1>1, <2>2
    <3>2. Profile!HalfReset(k) /\ ~Profile!HalfReset(k)'
      BY <1>1, <2>2, <2>3 DEF Profile!HalfReset, ProfileInv, CounterTypes
    <3> HIDE DEF v
    <3>3. QED BY <1>3, <1>8, <2>1, <2>2, <3>1, <3>2 DEF Agrees
  <2> HIDE DEF v
  <2>6. QED BY <1>7, <2>1, <2>2, <2>3, <2>4, <2>5
<1>11. QED BY <1>9, <1>10

LEMMA BeginResetStep ==
  ASSUME Profile!CountersAssumption, ProfileInv, Profile!BeginReset
  PROVE  ProfileInv'
<1>1. /\ registryOwner = Nobody /\ counters # <<>> /\ registryOwner' = Resetter
      /\ resetting' = [index |-> 1, halfway |-> FALSE]
      /\ UNCHANGED <<counters, tally, blurred, counterOf, at, sampled>>
  BY DEF Profile!BeginReset, Profile!UnchangedByReset
<1>2. Len(counters) \in Nat /\ Len(counters) # 0 /\ DOMAIN counters = 1 .. Len(counters)
  BY <1>1, EmptySeq, LenProperties DEF ProfileInv, CounterTypes
<1>3. CounterTypes'
  BY <1>1, <1>2 DEF ProfileInv, CounterTypes, Profile!Names
<1>4. ~resetting.halfway /\ \A x \in Site : at[x] # "create"
  BY <1>1 DEF ProfileInv, Registry, Profile!CountersAssumption
<1>5. Registry'
  BY <1>1, <1>4 DEF Registry
<1>6. \A m \in DOMAIN counters : ~Profile!HalfReset(m) /\ ~Profile!HalfReset(m)'
  BY <1>1, <1>4 DEF Profile!HalfReset
<1>7. \A m \in DOMAIN counters : Agrees(m)'
  BY <1>1, <1>6 DEF ProfileInv, Agreement, Agrees
<1>8. QED BY <1>1, <1>3, <1>5, <1>7
          DEF ProfileInv, OnePerName, SitesKnow, Agreement, Profile!Named, Profile!Names,
              Profile!NoSamples

LEMMA ProfileInvariant ==
  Profile!CountersAssumption => (Profile!Spec => []ProfileInv)
<1> SUFFICES ASSUME Profile!CountersAssumption PROVE Profile!Spec => []ProfileInv
  OBVIOUS
<1>1. Profile!Init => ProfileInv
  <2> SUFFICES ASSUME Profile!Init PROVE ProfileInv
    OBVIOUS
  <2>1. counters = <<>> /\ Len(counters) = 0 /\ counters \in Seq(Counter) /\ DOMAIN counters = {}
    BY EmptySeq DEF Profile!Init
  <2>2. QED BY <2>1 DEF Profile!Init, ProfileInv, CounterTypes, Registry, OnePerName, SitesKnow,
                        Agreement, Profile!NoSamples
<1>2. ProfileInv /\ [Profile!Next]_Profile!vars => ProfileInv'
  <2>1. ASSUME ProfileInv, UNCHANGED Profile!vars PROVE ProfileInv'
    BY <2>1 DEF Profile!vars, ProfileInv, CounterTypes, Registry, OnePerName, SitesKnow, Agreement,
                Agrees, Profile!Named, Profile!Names, Profile!HalfReset, Profile!NoSamples
  <2>2. QED BY <2>1, LookupStep, CreateStep, SampleStep, ResetStep, BeginResetStep DEF Profile!Next
<1>3. QED BY <1>1, <1>2, PTL DEF Profile!Spec

\* ProfilerCounters: a name has one counter, whose time and calls are those of its
\* samples since the last reset, however sites and resets meet.
THEOREM EverySampleCounts ==
  ASSUME Profile!CountersAssumption
  PROVE  Profile!Spec => []SamplesAreCounted
<1>1. ASSUME ProfileInv, NEW k \in DOMAIN counters, ~Profile!HalfReset(k),
             counters[k].name \notin blurred
      PROVE  /\ Profile!Named(counters[k].name) = {k}
             /\ counters[k].ns = tally[counters[k].name].ns
             /\ counters[k].calls = tally[counters[k].name].calls
  BY <1>1 DEF ProfileInv, OnePerName, Agreement, Agrees, Profile!Named
<1>2. ProfileInv => SamplesAreCounted
  BY <1>1 DEF SamplesAreCounted, Profile!SamplesAreCounted
<1>3. QED BY <1>2, ProfileInvariant, PTL

-----------------------------------------------------------------------------
(* CpuTopology: the sums.                                                  *)

Plus(acc, n) == n + acc
Sums == INSTANCE Folding WITH Op <- Plus

\* A module's instance has cardinalities of its own.
LEMMA SameCardinality ==
  ASSUME NEW S
  PROVE  /\ Topology!Cardinality(S) = Cardinality(S) /\ Sums!Cardinality(S) = Cardinality(S)
         /\ Topology!IsFiniteSet(S) <=> IsFiniteSet(S)
         /\ Sums!IsFiniteSet(S) <=> IsFiniteSet(S)
<1>1. Topology!Cardinality(S) = Cardinality(S)
  BY DEF Topology!Cardinality, Cardinality
<1>2. Sums!Cardinality(S) = Cardinality(S)
  BY DEF Sums!Cardinality, Cardinality
<1>3. Topology!IsFiniteSet(S) <=> IsFiniteSet(S)
  BY DEF Topology!IsFiniteSet, IsFiniteSet
<1>4. Sums!IsFiniteSet(S) <=> IsFiniteSet(S)
  BY DEF Sums!IsFiniteSet, IsFiniteSet
<1>5. QED BY <1>1, <1>2, <1>3, <1>4

LEMMA Additive == Sums!Adds
BY DEF Sums!Adds, Plus

LEMMA SumIs ==
  ASSUME NEW f
  PROVE  Topology!SumFunction(f) = Sums!Total(f, DOMAIN f)
BY DEF Topology!SumFunction, Topology!SumFunctionOnSet, Topology!FoldFunctionOnSet,
       Topology!MapThenFoldSet, Sums!Total, Sums!FoldedOver, Sums!FoldFunctionOnSet,
       Sums!MapThenFoldSet, Plus

\* S are cores that have n CPUs in all, and each has one.
LogicalOf(S) == [k \in DOMAIN S |-> S[k].logical]

Tally(S, n) ==
  /\ IsFiniteSet(DOMAIN S)
  /\ \A k \in DOMAIN S : S[k] \in [logical : Nat \ {0}, performance : Int]
  /\ Sums!Total(LogicalOf(S), DOMAIN S) = n

LEMMA TallyCounts ==
  ASSUME NEW S, NEW n, Tally(S, n)
  PROVE  Sums!Counts(LogicalOf(S), DOMAIN S) /\ n \in Nat
<1>1. Sums!Counts(LogicalOf(S), DOMAIN S)
  BY SameCardinality DEF Tally, Sums!Counts, LogicalOf
<1>2. QED BY <1>1, Additive, Sums!TotalElement DEF Tally

LEMMA NoneTallied == Tally(Topology!NoCores, 0)
<1>1. DOMAIN Topology!NoCores = {}
  BY DEF Topology!NoCores
<1>2. QED BY <1>1, FS_EmptySet, Sums!TotalEmpty DEF Tally

LEMMA OneTallied ==
  ASSUME NEW S, NEW n, Tally(S, n), NEW key, NEW p \in Int
  PROVE  Tally(Topology!Counted(S, key, p), n + 1) /\ key \in DOMAIN Topology!Counted(S, key, p)
<1>1. PICK T : T = Topology!Counted(S, key, p)
  OBVIOUS
<1>2. DOMAIN T = DOMAIN S \cup {key}
  BY <1>1 DEF Topology!Counted
<1>3. \A k \in DOMAIN S \ {key} : T[k] = S[k]
  BY <1>1 DEF Topology!Counted
<1>4. \A k \in DOMAIN S : S[k] \in [logical : Nat \ {0}, performance : Int]
  BY DEF Tally
<1>5. key \in DOMAIN S =>
        T[key].logical = S[key].logical + 1 /\ T[key] \in [logical : Nat \ {0}, performance : Int]
  BY <1>1, <1>4 DEF Topology!Counted
<1>6. key \notin DOMAIN S =>
        T[key].logical = 1 /\ T[key] \in [logical : Nat \ {0}, performance : Int]
  BY <1>1 DEF Topology!Counted
<1>7. PICK f, g : f = LogicalOf(S) /\ g = LogicalOf(T)
  OBVIOUS
<1>8. \A k \in DOMAIN S \ {key} : g[k] = f[k]
  BY <1>2, <1>3, <1>7 DEF LogicalOf
<1>9. g[key] = IF key \in DOMAIN S THEN f[key] + 1 ELSE 1
  BY <1>2, <1>5, <1>6, <1>7 DEF LogicalOf
<1>10. Sums!Counts(f, DOMAIN S) /\ Sums!Total(f, DOMAIN S) = n
  BY <1>7, TallyCounts DEF Tally
<1>11. Sums!Total(g, DOMAIN S \cup {key}) = n + 1
  BY <1>8, <1>9, <1>10, Additive, Sums!TotalRaised
<1>12. IsFiniteSet(DOMAIN T)
  BY <1>2, FS_AddElement DEF Tally
<1>13. \A k \in DOMAIN T : T[k] \in [logical : Nat \ {0}, performance : Int]
  BY <1>2, <1>3, <1>4, <1>5, <1>6
<1>14. Tally(T, n + 1)
  BY <1>2, <1>7, <1>11, <1>12, <1>13 DEF Tally
<1>15. QED BY <1>1, <1>2, <1>14

LEMMA RankTallied ==
  ASSUME NEW S, NEW n, Tally(S, n), NEW key \in DOMAIN S, NEW p \in Int
  PROVE  Tally([S EXCEPT ![key].performance = p], n)
<1>1. PICK T : T = [S EXCEPT ![key].performance = p]
  OBVIOUS
<1>2. DOMAIN T = DOMAIN S /\ \A k \in DOMAIN S \ {key} : T[k] = S[k]
  BY <1>1
<1>3. \A k \in DOMAIN S : S[k] \in [logical : Nat \ {0}, performance : Int]
  BY DEF Tally
<1>4. T[key] = [S[key] EXCEPT !.performance = p]
  BY <1>1
<1>5. T[key] \in [logical : Nat \ {0}, performance : Int] /\ T[key].logical = S[key].logical
  BY <1>3, <1>4
<1>6. LogicalOf(T) = LogicalOf(S)
  BY <1>2, <1>5 DEF LogicalOf
<1>7. \A k \in DOMAIN T : T[k] \in [logical : Nat \ {0}, performance : Int]
  BY <1>2, <1>3, <1>5
<1>8. QED BY <1>1, <1>2, <1>6, <1>7 DEF Tally

LEMMA TallyBounds ==
  ASSUME NEW S, NEW n, Tally(S, n)
  PROVE  /\ Cardinality(DOMAIN S) \in Nat /\ Cardinality(DOMAIN S) <= n
         /\ n # 0 => Cardinality(DOMAIN S) # 0
<1>1. PICK f : f = LogicalOf(S)
  OBVIOUS
<1>2. Sums!Counts(f, DOMAIN S) /\ Sums!Total(f, DOMAIN S) = n
  BY <1>1, TallyCounts DEF Tally
<1>3. \A k \in DOMAIN S : f[k] >= 1
  BY <1>1 DEF Tally, LogicalOf
<1>4. Cardinality(DOMAIN S) <= n
  BY <1>2, <1>3, Additive, Sums!TotalOfOnes, SameCardinality
<1>5. IsFiniteSet(DOMAIN S)
  BY DEF Tally
<1>6. n # 0 => DOMAIN S # {}
  BY <1>2, Sums!TotalEmpty
<1>7. QED BY <1>4, <1>5, <1>6, FS_CardinalityType, FS_EmptySet

\* The cores that a set of CPUs is counted as.
CountedCpu(S, k) == Topology!Counted(S, Topology!CoreKey(k), k.performance)
Tallies == INSTANCE Folding WITH Op <- CountedCpu

LEMMA CpusTallied ==
  ASSUME NEW cpus, IsFiniteSet(cpus), \A k \in cpus : k.performance \in Int
  PROVE  Tally(Tallies!FoldedSet(Topology!NoCores, cpus), Cardinality(cpus))
<1>1. PICK it : /\ Tallies!AlongSubsets(it, Topology!NoCores, Tallies!Elements(cpus), cpus)
                /\ Tallies!FoldedSet(Topology!NoCores, cpus) = it[cpus]
  <2>1. Tallies!IsFiniteSet(cpus)
    BY DEF Tallies!IsFiniteSet, IsFiniteSet
  <2>2. QED BY <2>1, Tallies!FoldedSetSubsets
<1>2. /\ it[{}] = Topology!NoCores
      /\ \A cs \in SUBSET cpus : cs # {} => \E k \in cs : it[cs] = CountedCpu(it[cs \ {k}], k)
  BY <1>1 DEF Tallies!AlongSubsets, Tallies!Elements
<1> DEFINE R == {cs \in SUBSET cpus : Tally(it[cs], Cardinality(cs))}
<1>3. {} \in R
  BY <1>2, NoneTallied, FS_EmptySet
<1>4. ASSUME NEW cs \in SUBSET cpus, cs # {}, \A k \in cs : cs \ {k} \in R PROVE cs \in R
  <2>1. PICK k \in cs : it[cs] = CountedCpu(it[cs \ {k}], k)
    BY <1>2, <1>4
  <2>2. PICK n : n = Cardinality(cs \ {k})
    OBVIOUS
  <2>3. Tally(it[cs \ {k}], n)
    BY <1>4, <2>2
  <2>4. Tally(it[cs], n + 1)
    BY <2>1, <2>3, OneTallied DEF CountedCpu
  <2>5. Cardinality(cs) = n + 1
    <3>1. IsFiniteSet(cs)
      BY FS_Subset
    <3>2. n = Cardinality(cs) - 1 /\ Cardinality(cs) \in Nat
      BY <2>2, <3>1, FS_RemoveElement, FS_CardinalityType
    <3>3. QED BY <3>2
  <2>6. QED BY <2>4, <2>5
<1>5. SUBSET cpus \subseteq R
  <2>1. \A cs \in SUBSET cpus : cs # {} /\ (\A k \in cs : cs \ {k} \in R) => cs \in R
    BY <1>4
  <2>2. Sums!IsFiniteSet(cpus)
    BY SameCardinality
  <2> HIDE DEF R
  <2>3. QED BY <1>3, <2>1, <2>2, Sums!AllSubsets
<1>6. QED BY <1>1, <1>5

-----------------------------------------------------------------------------
(* CpuTopology: the classes.                                               *)

LevelsOf(S) == {S[k].performance : k \in DOMAIN S}
Members(S, p) == {k \in DOMAIN S : S[k].performance = p}

LEMMA LevelsFinite ==
  ASSUME NEW S, NEW n, Tally(S, n)
  PROVE  IsFiniteSet(LevelsOf(S)) /\ LevelsOf(S) \subseteq Int
<1>1. LevelsOf(S) \subseteq Int
  BY DEF Tally, LevelsOf
<1>2. PICK f : f = [k \in DOMAIN S |-> S[k].performance]
  OBVIOUS
<1>3. f \in Surjection(DOMAIN S, LevelsOf(S))
  BY <1>2 DEF Surjection, LevelsOf
<1>4. QED BY <1>1, <1>3, FS_Surjection DEF Tally

\* The cores of each level, from the lowest level to the highest.
LEMMA LevelsAreParts ==
  ASSUME NEW S, NEW n, Tally(S, n), NEW seq, Sums!Ascends(seq, LevelsOf(S)),
         NEW m, m = Cardinality(LevelsOf(S)), NEW part, part = [i \in 1 .. m |-> Members(S, seq[i])]
  PROVE  /\ m \in Nat /\ seq \in [1 .. m -> LevelsOf(S)]
         /\ \A i, j \in 1 .. m : i < j => seq[i] < seq[j]
         /\ Sums!Parts(part, 1 .. m, DOMAIN S) /\ Sums!Joined(part, 1 .. m) = DOMAIN S
         /\ \A i \in 1 .. m : part[i] # {}
<1>1. m \in Nat
  BY LevelsFinite, FS_CardinalityType
<1>2. seq \in [1 .. m -> LevelsOf(S)] /\ \A i, j \in 1 .. m : i < j => seq[i] < seq[j]
  BY SameCardinality DEF Sums!Ascends
<1>3. /\ \A i, j \in 1 .. m : i # j => seq[i] # seq[j]
      /\ \A p \in LevelsOf(S) : \E i \in 1 .. m : seq[i] = p
  <2>1. Sums!IsFiniteSet(LevelsOf(S)) /\ LevelsOf(S) \subseteq Int
    BY LevelsFinite, SameCardinality
  <2>2. Sums!Cardinality(LevelsOf(S)) = m
    BY SameCardinality
  <2>3. QED BY <2>1, <2>2, Sums!AscendingHasAll
<1>4. Sums!Parts(part, 1 .. m, DOMAIN S)
  BY <1>3 DEF Sums!Parts, Members
<1>5. Sums!Joined(part, 1 .. m) = DOMAIN S
  <2>1. ASSUME NEW k \in DOMAIN S PROVE \E i \in 1 .. m : k \in part[i]
    <3>1. S[k].performance \in LevelsOf(S)
      BY DEF LevelsOf
    <3>2. QED BY <1>3, <3>1 DEF Members
  <2>2. \A i \in 1 .. m : part[i] \subseteq DOMAIN S
    BY DEF Members
  <2>3. QED BY <2>1, <2>2 DEF Sums!Joined
<1>6. ASSUME NEW i \in 1 .. m PROVE part[i] # {}
  <2>1. PICK k \in DOMAIN S : S[k].performance = seq[i]
    BY <1>2 DEF LevelsOf
  <2>2. QED BY <2>1 DEF Members
<1>7. QED BY <1>1, <1>2, <1>4, <1>5, <1>6

\* The classes of cores with n CPUs in all.
ClassesAgree(classes, physical, logical) ==
  /\ classes \in Seq([performance : Int, physical : Nat, logical : Nat]) /\ Len(classes) >= 2
  /\ Topology!Sum([classes |-> classes], "physical") = physical
  /\ Topology!Sum([classes |-> classes], "logical") = logical
  /\ \A i, j \in DOMAIN classes : i < j => classes[i].performance < classes[j].performance
  /\ 1 <= Topology!Last(classes).physical /\ Topology!Last(classes).physical <= physical

IsClass(class, S, p) ==
  /\ class \in [performance : Int, physical : Nat, logical : Nat]
  /\ class.performance = p /\ class.physical = Cardinality(Members(S, p))
  /\ class.logical = Sums!Total(LogicalOf(S), Members(S, p))

LEMMA ClassIs ==
  ASSUME NEW S, NEW n, Tally(S, n), NEW p \in Int
  PROVE  IsClass(Topology!ClassOf(S, p), S, p)
<1>1. PICK members, f, g : /\ members = Members(S, p) /\ f = LogicalOf(S)
                           /\ g = [k \in members |-> S[k].logical]
  OBVIOUS
<1>2. Topology!ClassOf(S, p) = [performance |-> p, physical |-> Topology!Cardinality(members),
                                logical |-> Topology!SumFunction(g)]
  BY <1>1 DEF Topology!ClassOf, Members
<1>3. members \in SUBSET DOMAIN S /\ \A k \in members : f[k] = g[k]
  BY <1>1 DEF Members, LogicalOf
<1>4. Sums!Counts(f, members)
  BY <1>1, <1>3, TallyCounts, Sums!CountsSubset
<1>5. Topology!SumFunction(g) = Sums!Total(g, members)
  BY <1>1, SumIs
<1>6. Sums!Total(f, members) = Sums!Total(g, members) /\ Sums!Total(f, members) \in Nat
  BY <1>3, <1>4, Additive, Sums!TotalSame, Sums!TotalElement
<1>7. Topology!Cardinality(members) = Cardinality(members) /\ Cardinality(members) \in Nat
  BY <1>3, SameCardinality, FS_Subset, FS_CardinalityType DEF Tally
<1>8. QED BY <1>1, <1>2, <1>5, <1>6, <1>7 DEF IsClass

LEMMA ClassesAre ==
  ASSUME NEW S, NEW n, Tally(S, n)
  PROVE  IF Cardinality(LevelsOf(S)) < 2
         THEN Topology!DistinguishableClasses(S) = <<>>
         ELSE \E seq : /\ Sums!Ascends(seq, LevelsOf(S)) /\ Cardinality(LevelsOf(S)) >= 2
                       /\ Topology!DistinguishableClasses(S) =
                            [i \in 1 .. Cardinality(LevelsOf(S)) |-> Topology!ClassOf(S, seq[i])]
<1> DEFINE levels == LevelsOf(S)
           c == Topology!Cardinality(levels)
           ascending == CHOOSE sq \in [1 .. c -> levels] :
                          \A i, j \in DOMAIN sq : i < j => sq[i] < sq[j]
<1>1. Topology!DistinguishableClasses(S) =
        IF c < 2 THEN <<>> ELSE [i \in 1 .. c |-> Topology!ClassOf(S, ascending[i])]
  BY DEF Topology!DistinguishableClasses, LevelsOf
<1>2. c = Cardinality(levels) /\ Sums!Cardinality(levels) = c
  BY SameCardinality
<1>3. Sums!Ascends(ascending, levels)
  <2>1. \E sq : Sums!Ascends(sq, levels)
    <3>1. Sums!IsFiniteSet(levels) /\ levels \subseteq Int
      BY LevelsFinite, SameCardinality
    <3> HIDE DEF levels
    <3>2. QED BY <3>1, Sums!AscendingExists
  <2>2. \E sq \in [1 .. c -> levels] : \A i, j \in DOMAIN sq : i < j => sq[i] < sq[j]
    BY <2>1, <1>2 DEF Sums!Ascends
  <2>3. ascending \in [1 .. c -> levels]
          /\ \A i, j \in DOMAIN ascending : i < j => ascending[i] < ascending[j]
    BY <2>2
  <2>4. QED BY <1>2, <2>3 DEF Sums!Ascends
<1>4. c \in Nat
  BY <1>2, LevelsFinite, FS_CardinalityType
<1>5. PICK seq, m : seq = ascending /\ m = c
  OBVIOUS
<1> HIDE DEF ascending, c
<1>6. CASE m < 2
  BY <1>1, <1>2, <1>5, <1>6
<1>7. CASE m >= 2
  <2>1. Topology!DistinguishableClasses(S) = [i \in 1 .. m |-> Topology!ClassOf(S, seq[i])]
    BY <1>1, <1>4, <1>5, <1>7
  <2>2. m = Cardinality(LevelsOf(S)) /\ Sums!Ascends(seq, LevelsOf(S))
    BY <1>2, <1>3, <1>5
  <2>3. ~(m < 2)
    BY <1>4, <1>5, <1>7
  <2>4. QED BY <1>7, <2>1, <2>2, <2>3
<1>8. QED BY <1>4, <1>5, <1>6, <1>7

SummedClasses(classes, m, physical, logical) ==
  /\ Topology!SumFunction([i \in 1 .. m |-> classes[i].physical]) = physical
  /\ Topology!SumFunction([i \in 1 .. m |-> classes[i].logical]) = logical
  /\ \A i \in 1 .. m : classes[i].physical # 0
  /\ m \in Nat /\ classes \in [1 .. m -> [performance : Int, physical : Nat, logical : Nat]]
  /\ \A i, j \in 1 .. m : i < j => classes[i].performance < classes[j].performance

\* Each core and each CPU is in one class.
LEMMA ClassesSum ==
  ASSUME NEW S, NEW n, Tally(S, n), NEW seq, Sums!Ascends(seq, LevelsOf(S)),
         NEW m, m = Cardinality(LevelsOf(S)), NEW classes,
         classes = [i \in 1 .. m |-> Topology!ClassOf(S, seq[i])]
  PROVE  SummedClasses(classes, m, Cardinality(DOMAIN S), n)
<1>1. PICK part : part = [i \in 1 .. m |-> Members(S, seq[i])]
  OBVIOUS
<1>2. /\ m \in Nat /\ seq \in [1 .. m -> LevelsOf(S)]
      /\ \A i, j \in 1 .. m : i < j => seq[i] < seq[j]
      /\ Sums!Parts(part, 1 .. m, DOMAIN S) /\ Sums!Joined(part, 1 .. m) = DOMAIN S
      /\ \A i \in 1 .. m : part[i] # {}
  BY <1>1, LevelsAreParts
<1>3. \A i \in 1 .. m : seq[i] \in Int
  BY <1>2, LevelsFinite
<1>4. PICK f : f = LogicalOf(S)
  OBVIOUS
<1>5. ASSUME NEW i \in 1 .. m
      PROVE  /\ classes[i] \in [performance : Int, physical : Nat, logical : Nat]
             /\ classes[i].performance = seq[i]
             /\ classes[i].physical = Cardinality(part[i])
             /\ classes[i].logical = Sums!Total(f, part[i])
  <2>1. PICK p : p = seq[i]
    OBVIOUS
  <2>2. p \in Int /\ classes[i] = Topology!ClassOf(S, p) /\ part[i] = Members(S, p)
    BY <1>1, <1>3, <2>1
  <2>3. IsClass(classes[i], S, p)
    BY <2>2, ClassIs
  <2>4. QED BY <1>4, <2>1, <2>2, <2>3 DEF IsClass
<1>6. Sums!IsFiniteSet(1 .. m)
  BY <1>2, FS_Interval, SameCardinality
<1>7. Sums!Counts(f, DOMAIN S) /\ Sums!Total(f, DOMAIN S) = n
  BY <1>4, TallyCounts DEF Tally
<1>8. PICK g : g = [i \in 1 .. m |-> classes[i].logical]
  OBVIOUS
<1>9. Topology!SumFunction(g) = n
  <2>1. \A i \in 1 .. m : g[i] = Sums!Total(f, part[i])
    BY <1>5, <1>8
  <2>2. Sums!Total(g, 1 .. m) = Sums!Total(f, DOMAIN S)
    BY <1>2, <1>6, <1>7, <2>1, Additive, Sums!TotalOfParts
  <2>3. DOMAIN g = 1 .. m
    BY <1>8
  <2>4. QED BY <1>7, <2>2, <2>3, SumIs
<1>10. PICK ones : ones = [k \in DOMAIN S |-> 1]
  OBVIOUS
<1>11. Sums!Counts(ones, DOMAIN S)
  BY <1>7, <1>10 DEF Sums!Counts
<1>12. \A cs \in SUBSET DOMAIN S : Sums!Total(ones, cs) = Cardinality(cs)
  <2> SUFFICES ASSUME NEW cs \in SUBSET DOMAIN S PROVE Sums!Total(ones, cs) = Cardinality(cs)
    OBVIOUS
  <2>1. Sums!Counts(ones, cs)
    BY <1>11, Sums!CountsSubset
  <2>2. \A k \in cs : ones[k] = 1 /\ ones[k] >= 1
    BY <1>10
  <2>3. Sums!Cardinality(cs) = Sums!Total(ones, cs)
    BY <2>1, <2>2, Additive, Sums!TotalOfOnes
  <2>4. QED BY <2>3, SameCardinality
<1>13. PICK h : h = [i \in 1 .. m |-> classes[i].physical]
  OBVIOUS
<1>14. Topology!SumFunction(h) = Cardinality(DOMAIN S)
  <2>1. \A i \in 1 .. m : part[i] \in SUBSET DOMAIN S
    BY <1>2 DEF Sums!Parts
  <2>2. \A i \in 1 .. m : h[i] = Sums!Total(ones, part[i])
    BY <1>5, <1>12, <1>13, <2>1
  <2>3. Sums!Total(h, 1 .. m) = Sums!Total(ones, DOMAIN S)
    BY <1>2, <1>6, <1>11, <2>2, Additive, Sums!TotalOfParts
  <2>4. DOMAIN h = 1 .. m
    BY <1>13
  <2>5. QED BY <1>12, <2>3, <2>4, SumIs
<1>15. ASSUME NEW i \in 1 .. m PROVE classes[i].physical \in Nat /\ classes[i].physical # 0
  <2>1. IsFiniteSet(part[i]) /\ part[i] # {}
    BY <1>2, FS_Subset DEF Sums!Parts, Tally
  <2>2. QED BY <1>5, <2>1, FS_CardinalityType, FS_EmptySet
<1>16. classes \in [1 .. m -> [performance : Int, physical : Nat, logical : Nat]]
  BY <1>5
<1>17. \A i, j \in 1 .. m : i < j => classes[i].performance < classes[j].performance
  BY <1>2, <1>5
<1>18. QED BY <1>2, <1>8, <1>9, <1>13, <1>14, <1>15, <1>16, <1>17 DEF SummedClasses

LEMMA ClassesAddUp ==
  ASSUME NEW S, NEW n, Tally(S, n), NEW classes, classes = Topology!DistinguishableClasses(S)
  PROVE  classes = <<>> \/ ClassesAgree(classes, Cardinality(DOMAIN S), n)
<1> SUFFICES ASSUME classes # <<>> PROVE ClassesAgree(classes, Cardinality(DOMAIN S), n)
  OBVIOUS
<1>1. PICK m : m = Cardinality(LevelsOf(S))
  OBVIOUS
<1>2. PICK seq : /\ Sums!Ascends(seq, LevelsOf(S)) /\ m >= 2
                 /\ classes = [i \in 1 .. m |-> Topology!ClassOf(S, seq[i])]
  BY <1>1, ClassesAre
<1>3. /\ Topology!SumFunction([i \in 1 .. m |-> classes[i].physical]) = Cardinality(DOMAIN S)
      /\ Topology!SumFunction([i \in 1 .. m |-> classes[i].logical]) = n
      /\ m \in Nat /\ \A i \in 1 .. m : classes[i].physical # 0
      /\ classes \in [1 .. m -> [performance : Int, physical : Nat, logical : Nat]]
      /\ \A i, j \in 1 .. m : i < j => classes[i].performance < classes[j].performance
  <2>1. SummedClasses(classes, m, Cardinality(DOMAIN S), n)
    BY <1>1, <1>2, ClassesSum
  <2>2. QED BY <2>1 DEF SummedClasses
<1>4. classes \in Seq([performance : Int, physical : Nat, logical : Nat]) /\ Len(classes) = m
  <2>1. PICK T : T = [performance : Int, physical : Nat, logical : Nat]
    OBVIOUS
  <2>2. m \in Nat /\ classes \in [1 .. m -> T]
    BY <1>3, <2>1
  <2>3. classes \in Seq(T) /\ Len(classes) = m
    BY <2>2
  <2>4. QED BY <2>1, <2>3
<1>5. DOMAIN classes = 1 .. m
  BY <1>3
<1>6. Topology!Sum([classes |-> classes], "physical") = Cardinality(DOMAIN S)
  BY <1>3, <1>5 DEF Topology!Sum
<1>7. Topology!Sum([classes |-> classes], "logical") = n
  BY <1>3, <1>5 DEF Topology!Sum
<1>8. Topology!Last(classes) = classes[m]
  BY <1>4 DEF Topology!Last
<1>9. 1 <= classes[m].physical /\ classes[m].physical <= Cardinality(DOMAIN S)
  <2>1. m \in 1 .. m
    BY <1>2, <1>3
  <2>2. PICK h : h = [i \in 1 .. m |-> classes[i].physical]
    OBVIOUS
  <2>3. Sums!Counts(h, 1 .. m)
    BY <1>3, <2>2, FS_Interval, SameCardinality DEF Sums!Counts
  <2>4. Sums!Total(h, 1 .. m) = Cardinality(DOMAIN S)
    BY <1>3, <2>2, SumIs
  <2>5. PICK rest : rest = 1 .. m \ {m}
    OBVIOUS
  <2>6. Sums!Total(h, 1 .. m) = h[m] + Sums!Total(h, (1 .. m) \ {m})
    BY <2>1, <2>3, Additive, Sums!TotalElement
  <2>7. Sums!Total(h, (1 .. m) \ {m}) \in Nat
    BY <2>3, Additive, Sums!CountsSubset, Sums!TotalElement
  <2>8. h[m] = classes[m].physical /\ classes[m].physical \in Nat /\ classes[m].physical # 0
    BY <1>3, <2>1, <2>2
  <2>9. QED BY <2>4, <2>6, <2>7, <2>8
<1>10. QED BY <1>2, <1>3, <1>4, <1>5, <1>6, <1>7, <1>8, <1>9 DEF ClassesAgree

-----------------------------------------------------------------------------
(* CpuTopology: what the call returns.                                     *)

AddsUp(c) ==
  /\ 1 <= Topology!PerformanceCores(c) /\ Topology!PerformanceCores(c) <= c.physical
  /\ c.physical <= c.logical
  /\ Topology!EfficiencyCores(c) + Topology!PerformanceCores(c) = c.physical
  /\ c.classes # <<>> =>
       /\ Len(c.classes) >= 2
       /\ Topology!Sum(c, "physical") = c.physical /\ Topology!Sum(c, "logical") = c.logical
       /\ \A m, n \in DOMAIN c.classes : m < n =>
            c.classes[m].performance < c.classes[n].performance

LEMMA GreaterOfTwo ==
  ASSUME NEW a \in Int, NEW b \in Int
  PROVE  /\ Topology!Max({a, b}) = IF a >= b THEN a ELSE b
         /\ Topology!Min({a, b}) = IF a <= b THEN a ELSE b
<1>1. \E m \in {a, b} : \A y \in {a, b} : m >= y
  OBVIOUS
<1>2. \E m \in {a, b} : \A y \in {a, b} : m <= y
  OBVIOUS
<1>3. PICK m : m = Topology!Max({a, b})
  OBVIOUS
<1>4. m \in {a, b} /\ \A y \in {a, b} : m >= y
  BY <1>1, <1>3 DEF Topology!Max
<1>5. PICK k : k = Topology!Min({a, b})
  OBVIOUS
<1>6. k \in {a, b} /\ \A y \in {a, b} : k <= y
  BY <1>2, <1>5 DEF Topology!Min
<1>7. QED BY <1>3, <1>4, <1>5, <1>6

LEMMA CountIs ==
  ASSUME NEW l \in Nat, NEW p \in Nat, NEW classes
  PROVE  \E logical, physical \in Nat :
           /\ Topology!CpuCount(l, p, classes) =
                [logical |-> logical, physical |-> physical, classes |-> classes]
           /\ 1 <= physical /\ physical <= logical
           /\ 1 <= p /\ p <= l => logical = l /\ physical = p
<1>1. PICK logical : logical = Topology!Max({1, l})
  OBVIOUS
<1>2. logical = IF 1 >= l THEN 1 ELSE l
  BY <1>1, GreaterOfTwo
<1>3. logical \in Int /\ logical >= 1
  BY <1>2
<1>4. PICK least : least = Topology!Min({p, logical})
  OBVIOUS
<1>5. least = IF p <= logical THEN p ELSE logical
  BY <1>3, <1>4, GreaterOfTwo
<1>6. PICK physical : physical = Topology!Max({1, least})
  OBVIOUS
<1>7. physical = IF 1 >= least THEN 1 ELSE least
  <2>1. least \in Int
    BY <1>3, <1>5
  <2>2. QED BY <1>6, <2>1, GreaterOfTwo
<1>8. Topology!CpuCount(l, p, classes) =
        [logical |-> logical, physical |-> physical, classes |-> classes]
  BY <1>1, <1>4, <1>6 DEF Topology!CpuCount
<1>9. /\ logical \in Nat /\ physical \in Nat /\ 1 <= physical /\ physical <= logical
      /\ 1 <= p /\ p <= l => logical = l /\ physical = p
  BY <1>2, <1>3, <1>5, <1>7
<1>10. QED BY <1>8, <1>9

LEMMA NothingWraps ==
  ASSUME NEW n \in Nat, n < 65536
  PROVE  n % 65536 = n
OBVIOUS

LEMMA FlatAddsUp ==
  ASSUME NEW l \in Nat, NEW p \in Nat
  PROVE  AddsUp(Topology!CpuCount(l, p, <<>>))
<1>1. PICK logical \in Nat, physical \in Nat :
        /\ Topology!CpuCount(l, p, <<>>) =
             [logical |-> logical, physical |-> physical, classes |-> <<>>]
        /\ 1 <= physical /\ physical <= logical
  BY CountIs
<1>2. PICK c : c = [logical |-> logical, physical |-> physical, classes |-> <<>>]
  OBVIOUS
<1>3. Topology!PerformanceCores(c) = physical
  BY <1>2 DEF Topology!PerformanceCores
<1>4. Topology!EfficiencyCores(c) = 0
  BY <1>2, <1>3 DEF Topology!EfficiencyCores, Topology!Unsigned
<1>5. AddsUp(c)
  BY <1>1, <1>2, <1>3, <1>4 DEF AddsUp
<1>6. QED BY <1>1, <1>2, <1>5

LEMMA TalliedAddsUp ==
  ASSUME NEW S, NEW n, Tally(S, n), n # 0, n < Topology!Unsigned,
         NEW classes \in {<<>>, Topology!DistinguishableClasses(S)},
         NEW cs, cs = Cardinality(DOMAIN S)
  PROVE  AddsUp(Topology!CpuCount(n, cs, classes))
<1>1. cs \in Nat /\ n \in Nat /\ 1 <= cs /\ cs <= n
  BY TallyBounds, TallyCounts
<1>2. CASE classes = <<>>
  BY <1>1, <1>2, FlatAddsUp
<1>3. CASE classes # <<>>
  <2>1. ClassesAgree(classes, cs, n)
    BY <1>3, ClassesAddUp
  <2>2. PICK c : c = [logical |-> n, physical |-> cs, classes |-> classes]
    OBVIOUS
  <2>3. Topology!CpuCount(n, cs, classes) = c
    BY <1>1, <2>2, CountIs
  <2>4. PICK last : last = Topology!Last(classes).physical
    OBVIOUS
  <2>5. 1 <= last /\ last <= cs /\ last \in Nat
    <3>1. 1 <= last /\ last <= cs /\ Len(classes) \in DOMAIN classes
      BY <2>1, <2>4 DEF ClassesAgree
    <3>2. last = classes[Len(classes)].physical
      BY <2>4 DEF Topology!Last
    <3>3. PICK T : T = [performance : Int, physical : Nat, logical : Nat]
      OBVIOUS
    <3>4. classes \in Seq(T)
      BY <2>1, <3>3 DEF ClassesAgree
    <3>5. classes[Len(classes)] \in T
      BY <3>1, <3>4
    <3>6. QED BY <3>1, <3>2, <3>3, <3>5
  <2>6. Topology!PerformanceCores(c) = last
    BY <1>3, <2>2, <2>4 DEF Topology!PerformanceCores
  <2>7. Topology!EfficiencyCores(c) = cs - last
    <3>1. n < 65536
      BY DEF Topology!Unsigned
    <3>2. PICK rest : rest = cs - last
      OBVIOUS
    <3>3. rest \in Nat /\ rest < 65536
      BY <1>1, <2>5, <3>1, <3>2
    <3>4. rest % 65536 = rest
      BY <3>3, NothingWraps
    <3>5. Topology!EfficiencyCores(c) = (c.physical - last) % 65536 /\ c.physical = cs
      BY <2>2, <2>6 DEF Topology!EfficiencyCores, Topology!Unsigned
    <3>6. QED BY <3>2, <3>4, <3>5
  <2>8. Topology!Sum(c, "physical") = cs /\ Topology!Sum(c, "logical") = n
    BY <2>1, <2>2 DEF ClassesAgree, Topology!Sum
  <2>9. AddsUp(c)
    BY <1>1, <2>1, <2>2, <2>5, <2>6, <2>7, <2>8 DEF AddsUp, ClassesAgree
  <2>10. QED BY <2>3, <2>9
<1>4. QED BY <1>2, <1>3

-----------------------------------------------------------------------------
(* CpuTopology: the call.                                                  *)

\* CPUs that some state of the system had online.
CpusSeen(cpus) ==
  /\ IsFiniteSet(cpus) /\ Cardinality(cpus) < Topology!Unsigned
  /\ \A k \in cpus : k.index \in Nat /\ k.performance \in Int

MasksFinite(known) == IsFiniteSet(DOMAIN known) /\ \A g \in DOMAIN known : IsFiniteSet(known[g])

LinuxCounts ==
  /\ allowed # {} /\ CpusSeen(allowed) /\ todo \subseteq allowed
  /\ Tally(cores, Cardinality(allowed \ todo) + IF stage = "capacity" THEN 1 ELSE 0)
  /\ stage = "capacity" => todo # {} /\ inserted \in DOMAIN cores

CpuInv ==
  /\ stage # "idle" => system \in Systems
  /\ stage \in {"idle", "linux"} => cores = Topology!NoCores
  /\ stage \in {"topology", "capacity"} => LinuxCounts
  /\ stage \in {"process mask", "cpu sets", "default sets", "count"} => MasksFinite(masks)
  /\ stage \in {"default sets", "count"} => CpusSeen(cpuSets)
  /\ stage = "done" => AddsUp(count)

LEMMA SystemIs ==
  ASSUME Topology!CpuAssumption, NEW t \in Systems
  PROVE  /\ t.os \in {"linux", "windows", "other"} /\ IsFiniteSet(t.affinity) /\ CpusSeen(t.online)
         /\ t.concurrency \in Nat
BY SameCardinality DEF Topology!CpuAssumption, CpusSeen

LEMMA FewerSeen ==
  ASSUME NEW cpus, CpusSeen(cpus), NEW some \in SUBSET cpus
  PROVE  CpusSeen(some)
<1>1. IsFiniteSet(some) /\ Cardinality(some) <= Cardinality(cpus)
  BY FS_Subset DEF CpusSeen
<1>2. Cardinality(some) \in Nat /\ Cardinality(cpus) \in Nat
  BY <1>1, FS_CardinalityType DEF CpusSeen
<1>3. Cardinality(some) < Topology!Unsigned
  BY <1>1, <1>2 DEF CpusSeen, Topology!Unsigned
<1>4. QED BY <1>1, <1>3 DEF CpusSeen

LEMMA FirstCpu ==
  ASSUME CpusSeen(allowed), todo \in SUBSET allowed, todo # {}
  PROVE  Topology!Cpu \in todo
<1>1. PICK T : T = {k.index : k \in todo}
  OBVIOUS
<1>2. T \subseteq Nat /\ T # {}
  BY <1>1 DEF CpusSeen
<1>3. PICK m \in T : \A i \in T : m <= i
  BY <1>2, Sums!LeastNumber
<1>4. \E k \in todo : \A other \in todo : k.index <= other.index
  BY <1>1, <1>3
<1>5. QED BY <1>4 DEF Topology!Cpu

LEMMA IndicesFinite ==
  ASSUME NEW cpus, IsFiniteSet(cpus), NEW g
  PROVE  IsFiniteSet(Topology!IndicesIn(cpus, g)) /\ IsFiniteSet(Topology!GroupsOf(cpus))
<1>1. PICK own : own = {k \in cpus : k.group = g}
  OBVIOUS
<1>2. PICK f, h : f = [k \in own |-> k.index] /\ h = [k \in cpus |-> k.group]
  OBVIOUS
<1>3. f \in Surjection(own, Topology!IndicesIn(cpus, g))
  BY <1>1, <1>2 DEF Surjection, Topology!IndicesIn
<1>4. h \in Surjection(cpus, Topology!GroupsOf(cpus))
  BY <1>2 DEF Surjection, Topology!GroupsOf
<1>5. IsFiniteSet(own)
  BY <1>1, FS_Subset
<1>6. QED BY <1>3, <1>4, <1>5, FS_Surjection

LEMMA ActiveFinite ==
  ASSUME CpusSeen(system.online), NEW groups, IsFiniteSet(groups)
  PROVE  MasksFinite(Topology!ActiveMasks(groups))
<1>1. ASSUME NEW g \in groups PROVE IsFiniteSet(Topology!ActiveMask(g))
  <2>1. PICK n : n = Cardinality(Topology!IndicesIn(system.online, g))
    OBVIOUS
  <2>2. n \in Nat
    BY <2>1, IndicesFinite, FS_CardinalityType DEF CpusSeen
  <2>3. Topology!ActiveMask(g) = 0 .. n - 1
    BY <2>1, SameCardinality DEF Topology!ActiveMask
  <2>4. QED BY <2>2, <2>3, FS_Interval
<1>2. QED BY <1>1 DEF MasksFinite, Topology!ActiveMasks

LEMMA OwnFinite ==
  ASSUME IsFiniteSet(system.affinity), NEW known, MasksFinite(known)
  PROVE  MasksFinite(Topology!OwnMask(known))
<1>1. PICK own : own = Topology!OwnMask(known)
  OBVIOUS
<1>2. DOMAIN own = DOMAIN known \cup {system.group}
  BY <1>1 DEF Topology!OwnMask
<1>3. IsFiniteSet(DOMAIN own)
  BY <1>2, FS_AddElement DEF MasksFinite
<1>4. ASSUME NEW g \in DOMAIN own PROVE IsFiniteSet(own[g])
  <2>1. own[g] = IF g = system.group THEN Topology!IndicesIn(system.affinity, g) ELSE known[g]
    BY <1>1, <1>2 DEF Topology!OwnMask
  <2>2. CASE g = system.group
    BY <2>1, <2>2, IndicesFinite
  <2>3. CASE g # system.group
    BY <1>2, <2>1, <2>3 DEF MasksFinite
  <2>4. QED BY <2>2, <2>3
<1>5. QED BY <1>1, <1>3, <1>4 DEF MasksFinite

LEMMA GetKeepsCounts ==
  ASSUME Topology!CpuAssumption, CpuInv,
         Topology!Get \/ Topology!Change \/ UNCHANGED Topology!vars
  PROVE  CpuInv'
<1>1. CASE UNCHANGED Topology!vars
  BY <1>1 DEF CpuInv, LinuxCounts, Topology!vars, Topology!found
<1>2. CASE Topology!Change
  BY <1>2 DEF CpuInv, LinuxCounts, Topology!Change, Topology!found
<1>3. CASE Topology!Get
  <2>1. stage = "idle" /\ system' \in Systems /\ stage' = system'.os /\ cores' = cores
    BY <1>3 DEF Topology!Get, Topology!found
  <2>2. stage' \in {"linux", "windows", "other"} /\ cores' = Topology!NoCores
    BY <2>1, SystemIs DEF CpuInv
  <2>3. QED BY <2>1, <2>2 DEF CpuInv
<1>4. QED BY <1>1, <1>2, <1>3

LEMMA LinuxKeepsCounts ==
  ASSUME Topology!CpuAssumption, CpuInv, Topology!Linux
  PROVE  CpuInv'
<1>1. CASE Topology!AllowedLinuxCpus
  <2>1. PICK failed \in BOOLEAN :
          allowed' = IF failed THEN {} ELSE system.affinity \cap system.online
    BY <1>1 DEF Topology!AllowedLinuxCpus
  <2>2. stage = "linux" /\ system' = system /\ cores' = cores /\ todo' = allowed'
    BY <1>1 DEF Topology!AllowedLinuxCpus
  <2>3. stage' = IF allowed' = {} THEN "other" ELSE "topology"
    BY <1>1 DEF Topology!AllowedLinuxCpus
  <2>4. system \in Systems /\ cores' = Topology!NoCores
    BY <2>2 DEF CpuInv
  <2>5. ASSUME allowed' # {} PROVE LinuxCounts'
    <3>1. CpusSeen(system.online) /\ allowed' \in SUBSET system.online
      BY <2>1, <2>4, <2>5, SystemIs
    <3>2. CpusSeen(allowed')
      BY <3>1, FewerSeen
    <3>3. Cardinality(allowed' \ todo') = 0
      BY <2>2, FS_EmptySet
    <3>4. stage' = "topology"
      BY <2>3, <2>5
    <3>5. Tally(cores', Cardinality(allowed' \ todo') + IF stage' = "capacity" THEN 1 ELSE 0)
      BY <2>4, <3>3, <3>4, NoneTallied
    <3>6. QED BY <2>2, <2>5, <3>2, <3>4, <3>5 DEF LinuxCounts, CpusSeen
  <2>6. QED BY <2>2, <2>3, <2>4, <2>5 DEF CpuInv
<1>2. ASSUME LinuxCounts, todo # {}
      PROVE  /\ Topology!Cpu \in todo /\ Cardinality(allowed \ todo) \in Nat
             /\ Cardinality(allowed \ (todo \ {Topology!Cpu})) = Cardinality(allowed \ todo) + 1
             /\ Topology!Cpu.performance \in Int
  <2>1. PICK cpu : cpu = Topology!Cpu
    OBVIOUS
  <2>2. cpu \in todo
    BY <1>2, <2>1, FirstCpu DEF LinuxCounts
  <2>3. PICK seen : seen = allowed \ todo
    OBVIOUS
  <2>4. allowed \ (todo \ {cpu}) = seen \cup {cpu} /\ cpu \notin seen /\ cpu \in allowed
    BY <1>2, <2>2, <2>3 DEF LinuxCounts
  <2>5. IsFiniteSet(seen)
    BY <1>2, <2>3, FS_Difference DEF LinuxCounts, CpusSeen
  <2>6. Cardinality(seen \cup {cpu}) = Cardinality(seen) + 1 /\ Cardinality(seen) \in Nat
    BY <2>4, <2>5, FS_AddElement, FS_CardinalityType
  <2>7. cpu.performance \in Int
    BY <1>2, <2>4 DEF LinuxCounts, CpusSeen
  <2>8. QED BY <2>1, <2>2, <2>3, <2>4, <2>6, <2>7
<1>3. CASE Topology!ReadTopology
  <2>1. PICK key : key = Topology!CoreCpus(Topology!Cpu)
    OBVIOUS
  <2>2. /\ stage = "topology" /\ todo # {} /\ inserted' = key
        /\ cores' = Topology!Counted(cores, key, 0)
        /\ stage' = IF key \in DOMAIN cores THEN "topology" ELSE "capacity"
        /\ todo' = IF key \in DOMAIN cores THEN todo \ {Topology!Cpu} ELSE todo
        /\ UNCHANGED <<system, allowed, count>>
    BY <1>3, <2>1 DEF Topology!ReadTopology
  <2>3. LinuxCounts
    BY <2>2 DEF CpuInv
  <2>4. PICK n : n = Cardinality(allowed \ todo)
    OBVIOUS
  <2>5. n \in Nat /\ Cardinality(allowed \ (todo \ {Topology!Cpu})) = n + 1
    BY <1>2, <2>2, <2>3, <2>4
  <2>6. Tally(cores, n)
    BY <2>2, <2>3, <2>4, <2>5 DEF LinuxCounts
  <2>7. Tally(cores', n + 1) /\ key \in DOMAIN cores'
    BY <2>2, <2>6, OneTallied
  <2>8. Tally(cores', Cardinality(allowed' \ todo') + IF stage' = "capacity" THEN 1 ELSE 0)
    <3>1. CASE key \in DOMAIN cores
      <4>1. stage' = "topology" /\ allowed' \ todo' = allowed \ (todo \ {Topology!Cpu})
        BY <2>2, <3>1
      <4>2. Cardinality(allowed' \ todo') = n + 1
        BY <2>5, <4>1
      <4>3. QED BY <2>5, <2>7, <4>1, <4>2
    <3>2. CASE key \notin DOMAIN cores
      <4>1. stage' = "capacity" /\ allowed' \ todo' = allowed \ todo
        BY <2>2, <3>2
      <4>2. QED BY <2>4, <2>7, <4>1
    <3>3. QED BY <3>1, <3>2
  <2>9. LinuxCounts'
    BY <2>2, <2>3, <2>7, <2>8 DEF LinuxCounts, CpusSeen
  <2>10. QED BY <2>2, <2>9 DEF CpuInv
<1>4. CASE Topology!TopologyMissing
  <2>1. stage = "topology" /\ stage' = "done" /\ system' = system
        /\ count' = Topology!CpuCount(Topology!Cardinality(allowed),
                                      Topology!Cardinality(allowed), <<>>)
    BY <1>4 DEF Topology!TopologyMissing, Topology!Return
  <2>2. PICK n : n = Cardinality(allowed)
    OBVIOUS
  <2>3. n \in Nat /\ Topology!Cardinality(allowed) = n
    BY <2>1, <2>2, SameCardinality, FS_CardinalityType DEF CpuInv, LinuxCounts, CpusSeen
  <2>4. AddsUp(count')
    BY <2>1, <2>3, FlatAddsUp
  <2>5. QED BY <2>1, <2>4 DEF CpuInv
<1>5. CASE Topology!ReadCapacity
  <2>1. PICK n, cpu : n = Cardinality(allowed \ todo) /\ cpu = Topology!Cpu
    OBVIOUS
  <2>2. /\ stage = "capacity" /\ stage' = "topology" /\ todo' = todo \ {cpu}
        /\ \/ cores' = [cores EXCEPT ![inserted].performance = cpu.performance]
           \/ cores' = cores
        /\ UNCHANGED <<system, allowed, count>>
    BY <1>5, <2>1 DEF Topology!ReadCapacity
  <2>3. LinuxCounts /\ todo # {} /\ inserted \in DOMAIN cores
    BY <2>2 DEF CpuInv, LinuxCounts
  <2>4. n \in Nat /\ Cardinality(allowed \ (todo \ {cpu})) = n + 1 /\ cpu.performance \in Int
    BY <1>2, <2>1, <2>3
  <2>5. Tally(cores, n + 1)
    BY <2>1, <2>2, <2>3 DEF LinuxCounts
  <2>6. Tally(cores', n + 1)
    BY <2>2, <2>3, <2>4, <2>5, RankTallied
  <2>7. Tally(cores', Cardinality(allowed' \ todo') + IF stage' = "capacity" THEN 1 ELSE 0)
    BY <2>2, <2>4, <2>6
  <2>8. LinuxCounts'
    BY <2>2, <2>3, <2>7 DEF LinuxCounts, CpusSeen
  <2>9. QED BY <2>2, <2>8 DEF CpuInv
<1>6. CASE Topology!GetLinux
  <2>1. PICK n, c, classes :
          /\ n = Topology!Cardinality(allowed) /\ c = Topology!Cardinality(DOMAIN cores)
          /\ classes = IF ranked THEN Topology!DistinguishableClasses(cores) ELSE <<>>
    OBVIOUS
  <2>2. stage = "topology" /\ todo = {} /\ stage' = "done" /\ system' = system
        /\ count' = Topology!CpuCount(n, c, classes)
    BY <1>6, <2>1 DEF Topology!GetLinux, Topology!Return
  <2>3. LinuxCounts
    BY <2>2 DEF CpuInv
  <2>4. n = Cardinality(allowed) /\ c = Cardinality(DOMAIN cores) /\ n \in Nat
    BY <2>1, <2>3, SameCardinality, FS_CardinalityType DEF LinuxCounts, CpusSeen
  <2>5. allowed \ todo = allowed
    BY <2>2
  <2>6. Tally(cores, n)
    BY <2>2, <2>3, <2>4, <2>5 DEF LinuxCounts
  <2>7. n # 0 /\ n < Topology!Unsigned
    BY <2>3, <2>4, FS_EmptySet DEF LinuxCounts, CpusSeen
  <2>8. AddsUp(count')
    BY <2>1, <2>2, <2>4, <2>6, <2>7, TalliedAddsUp
  <2>9. QED BY <2>2, <2>8 DEF CpuInv
<1>7. QED BY <1>1, <1>3, <1>4, <1>5, <1>6 DEF Topology!Linux

LEMMA FallbackAddsUp ==
  ASSUME Topology!CpuAssumption, CpuInv, stage # "idle", NEW n, n \in {Topology!Fallback}
  PROVE  n \in Nat /\ AddsUp(Topology!CpuCount(n, n, <<>>))
<1>1. system.concurrency \in Nat
  BY SystemIs DEF CpuInv
<1>2. n \in Nat
  BY <1>1, GreaterOfTwo DEF Topology!Fallback
<1>3. QED BY <1>2, FlatAddsUp

LEMMA OtherKeepsCounts ==
  ASSUME Topology!CpuAssumption, CpuInv, Topology!GetOther
  PROVE  CpuInv'
<1>1. /\ stage = "other" /\ stage' = "done" /\ system' = system
      /\ count' = Topology!CpuCount(Topology!Fallback, Topology!Fallback, <<>>)
  BY DEF Topology!GetOther, Topology!NoTopology, Topology!Return
<1>2. AddsUp(count')
  BY <1>1, FallbackAddsUp
<1>3. QED BY <1>1, <1>2 DEF CpuInv

LEMMA WindowsKeepsCounts ==
  ASSUME Topology!CpuAssumption, CpuInv, Topology!Windows
  PROVE  CpuInv'
<1>1. stage \in {"windows", "process mask", "cpu sets", "default sets", "count"} =>
        system \in Systems /\ IsFiniteSet(system.affinity) /\ CpusSeen(system.online)
  BY SystemIs DEF CpuInv
<1>2. MasksFinite(Topology!NoCores)
  BY FS_EmptySet DEF MasksFinite, Topology!NoCores
<1>3. CASE Topology!ProcessGroups
  <2>1. stage = "windows" /\ stage' = "process mask" /\ system' = system
        /\ masks' \in {Topology!NoCores, Topology!OwnMask(Topology!NoCores),
                       Topology!ActiveMasks(Topology!GroupsOf(system.affinity))}
    BY <1>3 DEF Topology!ProcessGroups, Topology!WindowsStep
  <2>2. MasksFinite(Topology!OwnMask(Topology!NoCores))
    BY <1>1, <1>2, <2>1, OwnFinite
  <2>3. MasksFinite(Topology!ActiveMasks(Topology!GroupsOf(system.affinity)))
    BY <1>1, <2>1, IndicesFinite, ActiveFinite
  <2>4. MasksFinite(masks')
    BY <1>2, <2>1, <2>2, <2>3
  <2>5. QED BY <1>1, <2>1, <2>4 DEF CpuInv, MasksFinite
<1>4. CASE Topology!ProcessMask
  <2>1. PICK known : /\ known \in {masks, Topology!OwnMask(masks)}
                     /\ masks' \in {known, Topology!ActiveMasks(Topology!GroupsOf(system.online))}
    BY <1>4 DEF Topology!ProcessMask
  <2>2. stage = "process mask" /\ stage' = "cpu sets" /\ system' = system
    BY <1>4 DEF Topology!ProcessMask, Topology!WindowsStep
  <2>3. MasksFinite(masks)
    BY <2>2 DEF CpuInv
  <2>4. MasksFinite(known)
    BY <1>1, <2>1, <2>2, <2>3, OwnFinite
  <2>5. MasksFinite(Topology!ActiveMasks(Topology!GroupsOf(system.online)))
    BY <1>1, <2>2, IndicesFinite, ActiveFinite DEF CpusSeen
  <2>6. MasksFinite(masks')
    BY <2>1, <2>4, <2>5
  <2>7. QED BY <1>1, <2>2, <2>6 DEF CpuInv, MasksFinite
<1>5. CASE Topology!WindowsCpuSets
  <2>1. stage = "cpu sets" /\ stage' = "default sets" /\ system' = system /\ masks' = masks
        /\ cpuSets' \in SUBSET system.online
    BY <1>5 DEF Topology!WindowsCpuSets, Topology!WindowsStep
  <2>2. CpusSeen(system.online)
    BY <1>1, <2>1
  <2>3. CpusSeen(cpuSets')
    BY <2>1, <2>2, FewerSeen
  <2>4. QED BY <1>1, <2>1, <2>3 DEF CpuInv, CpusSeen, MasksFinite
<1>6. CASE Topology!DefaultCpuSets
  <2>1. PICK failed \in BOOLEAN, selected \in SUBSET cpuSets :
          masks' = IF failed \/ selected = {} THEN masks
                   ELSE [g \in Topology!GroupsOf(selected) |-> Topology!IndicesIn(selected, g)]
    BY <1>6 DEF Topology!DefaultCpuSets
  <2>2. stage = "default sets" /\ stage' = "count" /\ system' = system /\ cpuSets' = cpuSets
    BY <1>6 DEF Topology!DefaultCpuSets, Topology!WindowsStep
  <2>3. MasksFinite(masks) /\ CpusSeen(cpuSets)
    BY <2>2 DEF CpuInv
  <2>4. IsFiniteSet(selected)
    BY <2>1, <2>3, FS_Subset DEF CpusSeen
  <2>5. MasksFinite([g \in Topology!GroupsOf(selected) |-> Topology!IndicesIn(selected, g)])
    BY <2>4, IndicesFinite DEF MasksFinite
  <2>6. MasksFinite(masks')
    BY <2>1, <2>3, <2>5
  <2>7. QED BY <1>1, <2>2, <2>3, <2>6 DEF CpuInv, MasksFinite, CpusSeen
<1>7. CASE Topology!CountCores
  <2>1. PICK available : available = {k \in cpuSets : Topology!InMasks(k)}
    OBVIOUS
  <2>2. PICK all : all = Tallies!FoldedSet(Topology!NoCores, available)
    OBVIOUS
  <2>3. PICK sum :
          sum = Topology!SumFunction([g \in DOMAIN masks |-> Topology!Cardinality(masks[g])])
    OBVIOUS
  <2>4. all = Topology!FoldSet(
                LAMBDA k, S : Topology!Counted(S, Topology!CoreKey(k), k.performance),
                Topology!NoCores, available)
    BY <2>2 DEF Tallies!FoldedSet, Tallies!FoldSet, Tallies!MapThenFoldSet,
                Topology!FoldSet, Topology!MapThenFoldSet, CountedCpu
  <2>5. stage = "count" /\ stage' = "done" /\ system' = system
        /\ count' = IF available = {}
             THEN LET n == IF sum # 0 THEN sum ELSE Topology!Fallback
                  IN Topology!CpuCount(n, n, <<>>)
             ELSE Topology!CpuCount(Topology!Cardinality(available),
                                    Topology!Cardinality(DOMAIN all),
                                    Topology!DistinguishableClasses(all))
    BY <1>7, <2>1, <2>3, <2>4 DEF Topology!CountCores, Topology!Return
  <2>6. CASE available = {}
    <3>1. PICK f : f = [g \in DOMAIN masks |-> Topology!Cardinality(masks[g])]
      OBVIOUS
    <3>2. Sums!Counts(f, DOMAIN masks)
      <4>1. MasksFinite(masks)
        BY <2>5 DEF CpuInv
      <4>2. \A g \in DOMAIN masks : f[g] \in Nat
        BY <3>1, <4>1, SameCardinality, FS_CardinalityType DEF MasksFinite
      <4>3. QED BY <4>1, <4>2, SameCardinality DEF Sums!Counts, MasksFinite
    <3>3. sum \in Nat
      BY <2>3, <3>1, <3>2, SumIs, Additive, Sums!TotalElement
    <3>4. PICK n : n = IF sum # 0 THEN sum ELSE Topology!Fallback
      OBVIOUS
    <3>5. AddsUp(Topology!CpuCount(n, n, <<>>))
      BY <2>5, <3>3, <3>4, FallbackAddsUp, FlatAddsUp
    <3>6. AddsUp(count')
      BY <2>5, <2>6, <3>4, <3>5
    <3>7. QED BY <1>1, <2>5, <3>6 DEF CpuInv
  <2>7. CASE available # {}
    <3>1. available \in SUBSET cpuSets /\ CpusSeen(cpuSets)
      BY <2>1, <2>5 DEF CpuInv
    <3>2. CpusSeen(available)
      BY <3>1, FewerSeen
    <3>3. PICK n, c : n = Cardinality(available) /\ c = Cardinality(DOMAIN all)
      OBVIOUS
    <3>4. Tally(all, n)
      BY <2>2, <3>2, <3>3, CpusTallied DEF CpusSeen
    <3>5. n # 0 /\ n < Topology!Unsigned
      BY <2>7, <3>2, <3>3, FS_EmptySet DEF CpusSeen
    <3>6. AddsUp(Topology!CpuCount(n, c, Topology!DistinguishableClasses(all)))
      BY <3>3, <3>4, <3>5, TalliedAddsUp
    <3>7. count' = Topology!CpuCount(n, c, Topology!DistinguishableClasses(all))
      BY <2>5, <2>7, <3>3, SameCardinality
    <3>8. AddsUp(count')
      BY <3>6, <3>7
    <3>9. QED BY <1>1, <2>5, <3>8 DEF CpuInv
  <2>8. QED BY <2>6, <2>7
<1>8. QED BY <1>3, <1>4, <1>5, <1>6, <1>7 DEF Topology!Windows

\* CpuTopology: whatever fails or changes during the call, each CPU and each core is
\* counted in one class, the classes ascend, and no count wraps below zero.
THEOREM CpusAddUp ==
  ASSUME Topology!CpuAssumption
  PROVE  Topology!Spec => []CountsAddUp
<1>1. Topology!Init => CpuInv
  BY DEF Topology!Init, CpuInv
<1>2. CpuInv /\ [Topology!Next]_Topology!vars => CpuInv'
  BY GetKeepsCounts, OtherKeepsCounts, LinuxKeepsCounts, WindowsKeepsCounts
  DEF Topology!Next
<1>3. CpuInv => CountsAddUp
  BY DEF CpuInv, AddsUp, CountsAddUp, Topology!CountsAddUp
<1>4. QED BY <1>1, <1>2, <1>3, PTL DEF Topology!Spec

-----------------------------------------------------------------------------
(* CpuTopology: which CPUs the cores hold.                                 *)

\* Cores under keys: which CPUs there are of each.
Keyed(key, cpus) == {key[k] : k \in cpus}
Under(key, cpus, c) == {k \in cpus : key[k] = c}

LEMMA KeyedFinite ==
  ASSUME NEW cpus, IsFiniteSet(cpus), NEW key
  PROVE  IsFiniteSet(Keyed(key, cpus))
<1>1. PICK f : f = [k \in cpus |-> key[k]]
  OBVIOUS
<1>2. f \in Surjection(cpus, Keyed(key, cpus))
  BY <1>1 DEF Surjection, Keyed
<1>3. QED BY <1>2, FS_Surjection

\* Two sorts of keys that tell the same CPUs apart are as many.
LEMMA SameKeys ==
  ASSUME NEW cpus, IsFiniteSet(cpus), NEW key, NEW other,
         \A a, b \in cpus : key[a] = key[b] <=> other[a] = other[b]
  PROVE  Cardinality(Keyed(key, cpus)) = Cardinality(Keyed(other, cpus))
<1> DEFINE first(c) == CHOOSE k \in cpus : key[k] = c
<1>1. PICK f : f = [c \in Keyed(key, cpus) |-> other[first(c)]]
  OBVIOUS
<1>2. ASSUME NEW k \in cpus PROVE key[k] \in Keyed(key, cpus) /\ f[key[k]] = other[k]
  <2>1. key[k] \in Keyed(key, cpus)
    BY DEF Keyed
  <2>2. PICK c : c = key[k]
    OBVIOUS
  <2>3. first(c) \in cpus /\ key[first(c)] = c
    BY <2>2
  <2>4. other[first(c)] = other[k]
    BY <2>2, <2>3
  <2>5. QED BY <1>1, <2>1, <2>2, <2>4
<1>3. f \in Surjection(Keyed(key, cpus), Keyed(other, cpus))
  <2> HIDE DEF first
  <2>1. \A c \in Keyed(key, cpus) : f[c] \in Keyed(other, cpus)
    BY <1>2 DEF Keyed
  <2>2. \A d \in Keyed(other, cpus) : \E c \in Keyed(key, cpus) : f[c] = d
    BY <1>2 DEF Keyed
  <2>3. QED BY <1>1, <2>1, <2>2 DEF Surjection
<1>4. f \in Injection(Keyed(key, cpus), Keyed(other, cpus))
  <2> HIDE DEF first
  <2>1. ASSUME NEW c \in Keyed(key, cpus), NEW d \in Keyed(key, cpus), f[c] = f[d] PROVE c = d
    <3>1. PICK a \in cpus : c = key[a]
      BY DEF Keyed
    <3>2. PICK b \in cpus : d = key[b]
      BY DEF Keyed
    <3>3. QED BY <1>2, <2>1, <3>1, <3>2
  <2>2. QED BY <1>3, <2>1 DEF Injection, IsInjective, Surjection
<1>5. PICK A, B : A = Keyed(key, cpus) /\ B = Keyed(other, cpus)
  OBVIOUS
<1>6. Cardinality(B) = Cardinality(A)
  BY <1>3, <1>4, <1>5, KeyedFinite, FS_Surjection
<1>7. QED BY <1>5, <1>6

\* The cores hold these CPUs, under these keys.
Held(S, key, cpus) ==
  /\ DOMAIN S = Keyed(key, cpus)
  /\ \A c \in DOMAIN S : S[c].logical = Cardinality(Under(key, cpus, c))

\* What counting a CPU does to the cores.
OneMore(T, S, key, cpus, cpu, p) ==
  /\ Held(T, key, cpus \cup {cpu})
  /\ \A c \in DOMAIN S : T[c].performance = S[c].performance
  /\ key[cpu] \notin DOMAIN S => T[key[cpu]].performance = p

LEMMA OneHeld ==
  ASSUME NEW S, NEW n, Tally(S, n), NEW cpus, IsFiniteSet(cpus), NEW key, Held(S, key, cpus),
         NEW cpu, cpu \notin cpus, NEW p
  PROVE  OneMore(Topology!Counted(S, key[cpu], p), S, key, cpus, cpu, p)
<1>0. PICK T : T = Topology!Counted(S, key[cpu], p)
  OBVIOUS
<1>1. PICK own : own = key[cpu]
  OBVIOUS
<1>2. DOMAIN T = DOMAIN S \cup {own}
  BY <1>0, <1>1 DEF Topology!Counted
<1>3. \A c \in DOMAIN S \ {own} : T[c] = S[c]
  BY <1>0, <1>1 DEF Topology!Counted
<1>4. \A c \in DOMAIN S : S[c] \in [logical : Nat \ {0}, performance : Int]
  BY DEF Tally
<1>5. own \in DOMAIN S => T[own] = [S[own] EXCEPT !.logical = @ + 1]
  BY <1>0, <1>1 DEF Topology!Counted
<1>6. own \in DOMAIN S =>
        T[own].logical = S[own].logical + 1 /\ T[own].performance = S[own].performance
  BY <1>4, <1>5
<1>7. own \notin DOMAIN S => T[own].logical = 1 /\ T[own].performance = p
  BY <1>0, <1>1 DEF Topology!Counted
<1>8. DOMAIN T = Keyed(key, cpus \cup {cpu})
  BY <1>1, <1>2 DEF Held, Keyed
<1>9. ASSUME NEW c \in DOMAIN T
      PROVE T[c].logical = Cardinality(Under(key, cpus \cup {cpu}, c))
  <2>1. CASE c # own
    <3>1. Under(key, cpus \cup {cpu}, c) = Under(key, cpus, c)
      BY <1>1, <2>1 DEF Under
    <3>2. QED BY <1>2, <1>3, <2>1, <3>1 DEF Held
  <2>2. CASE c = own
    <3>1. PICK some : some = Under(key, cpus, own)
      OBVIOUS
    <3>2. Under(key, cpus \cup {cpu}, own) = some \cup {cpu} /\ cpu \notin some
      BY <1>1, <3>1 DEF Under
    <3>3. IsFiniteSet(some) /\ some \subseteq cpus
      BY <3>1, FS_Subset DEF Under
    <3>4. Cardinality(some \cup {cpu}) = Cardinality(some) + 1
      BY <3>2, <3>3, FS_AddElement
    <3>5. CASE own \in DOMAIN S
      BY <1>6, <2>2, <3>1, <3>2, <3>4, <3>5 DEF Held
    <3>6. CASE own \notin DOMAIN S
      <4>1. some = {}
        BY <3>1, <3>6 DEF Held, Keyed, Under
      <4>2. Cardinality(some) = 0
        BY <4>1, FS_EmptySet
      <4>3. QED BY <1>7, <2>2, <3>2, <3>4, <3>6, <4>2
    <3>7. QED BY <3>5, <3>6
  <2>3. QED BY <2>1, <2>2
<1>10. Held(T, key, cpus \cup {cpu})
  BY <1>8, <1>9 DEF Held
<1>11. QED BY <1>0, <1>1, <1>3, <1>6, <1>7, <1>10 DEF OneMore

\* A class of cores, by the CPUs that have its level.
Level(cpus, p) == {k \in cpus : k.performance = p}
RankedAs(S, key, cpus) == \A k \in cpus : S[key[k]].performance = k.performance

LEMMA MembersAre ==
  ASSUME NEW S, NEW key, NEW cpus, Held(S, key, cpus), RankedAs(S, key, cpus), NEW p
  PROVE  /\ Members(S, p) = Keyed(key, Level(cpus, p))
         /\ \A c \in Members(S, p) : Under(key, cpus, c) \subseteq Level(cpus, p)
         /\ LevelsOf(S) = {k.performance : k \in cpus}
<1>1. DOMAIN S = {key[k] : k \in cpus} /\ \A k \in cpus : S[key[k]].performance = k.performance
  BY DEF Held, Keyed, RankedAs
<1>2. Members(S, p) = Keyed(key, Level(cpus, p))
  BY <1>1 DEF Members, Keyed, Level
<1>3. \A c \in Members(S, p) : Under(key, cpus, c) \subseteq Level(cpus, p)
  BY <1>1 DEF Members, Under, Level
<1>4. LevelsOf(S) = {k.performance : k \in cpus}
  BY <1>1 DEF LevelsOf
<1>5. QED BY <1>2, <1>3, <1>4

LEMMA ClassHeld ==
  ASSUME NEW S, NEW n, Tally(S, n), NEW cpus, IsFiniteSet(cpus), NEW key, Held(S, key, cpus),
         RankedAs(S, key, cpus), NEW p \in Int
  PROVE  Topology!ClassOf(S, p) =
           [performance |-> p, physical |-> Cardinality(Keyed(key, Level(cpus, p))),
            logical |-> Cardinality(Level(cpus, p))]
<1>1. PICK members, f : members = Members(S, p) /\ f = LogicalOf(S)
  OBVIOUS
<1>2. PICK class : class = Topology!ClassOf(S, p)
  OBVIOUS
<1>3. IsClass(class, S, p)
  BY <1>2, ClassIs
<1>4. /\ members = Keyed(key, Level(cpus, p)) /\ members \in SUBSET DOMAIN S
      /\ \A c \in members : Under(key, cpus, c) \subseteq Level(cpus, p)
  BY <1>1, MembersAre DEF Members
<1>5. PICK part : part = [c \in members |-> Under(key, cpus, c)]
  OBVIOUS
<1>6. PICK ones : ones = [k \in cpus |-> 1]
  OBVIOUS
<1>7. Sums!Counts(ones, cpus)
  BY <1>6, SameCardinality DEF Sums!Counts
<1>8. ASSUME NEW cs \in SUBSET cpus PROVE Sums!Total(ones, cs) = Cardinality(cs)
  <2>1. Sums!Counts(ones, cs)
    BY <1>7, Sums!CountsSubset
  <2>2. \A k \in cs : ones[k] = 1 /\ ones[k] >= 1
    BY <1>6
  <2>3. Sums!Cardinality(cs) = Sums!Total(ones, cs)
    BY <2>1, <2>2, Additive, Sums!TotalOfOnes
  <2>4. QED BY <2>3, SameCardinality
<1>9. Sums!Parts(part, members, cpus)
  BY <1>5 DEF Sums!Parts, Under
<1>10. Sums!Joined(part, members) = Level(cpus, p)
  <2>1. \A c \in members : part[c] \subseteq Level(cpus, p)
    BY <1>4, <1>5
  <2>2. \A k \in Level(cpus, p) : key[k] \in members /\ k \in part[key[k]]
    BY <1>4, <1>5 DEF Keyed, Level, Under
  <2>3. QED BY <2>1, <2>2 DEF Sums!Joined
<1>11. \A c \in members : f[c] = Sums!Total(ones, part[c])
  <2> SUFFICES ASSUME NEW c \in members PROVE f[c] = Sums!Total(ones, part[c])
    OBVIOUS
  <2>1. f[c] = Cardinality(Under(key, cpus, c))
    BY <1>1, <1>4 DEF LogicalOf, Held
  <2>2. part[c] = Under(key, cpus, c) /\ part[c] \in SUBSET cpus
    BY <1>5 DEF Under
  <2>3. QED BY <1>8, <2>1, <2>2
<1>12. Sums!Total(f, members) = Cardinality(Level(cpus, p))
  <2>1. Sums!IsFiniteSet(members)
    BY <1>4, FS_Subset, SameCardinality DEF Tally
  <2>2. Sums!Total(f, members) = Sums!Total(ones, Sums!Joined(part, members))
    BY <1>7, <1>9, <1>11, <2>1, Additive, Sums!TotalOfParts
  <2>3. Level(cpus, p) \in SUBSET cpus
    BY DEF Level
  <2>4. QED BY <1>8, <1>10, <2>2, <2>3
<1>13. /\ class \in [performance : Int, physical : Nat, logical : Nat] /\ class.performance = p
       /\ class.physical = Cardinality(Keyed(key, Level(cpus, p)))
       /\ class.logical = Cardinality(Level(cpus, p))
  BY <1>1, <1>3, <1>4, <1>12 DEF IsClass
<1>14. QED BY <1>2, <1>13

\* What the counts of these CPUs are.
CoreOf(cpus) == [k \in cpus |-> <<k.group, k.core>>]
Matches(c, cpus, ranks) ==
  /\ c.logical = Cardinality(cpus) /\ c.physical = Cardinality(Keyed(CoreOf(cpus), cpus))
  /\ ranks =>
       IF Cardinality({k.performance : k \in cpus}) < 2 THEN c.classes = <<>>
       ELSE Topology!ToSet(c.classes) =
              {[performance |-> p, physical |-> Cardinality(Keyed(CoreOf(cpus), Level(cpus, p))),
                logical |-> Cardinality(Level(cpus, p))] : p \in {k.performance : k \in cpus}}

LEMMA ClassesMatch ==
  ASSUME NEW S, NEW n, Tally(S, n), NEW cpus, IsFiniteSet(cpus), NEW key, Held(S, key, cpus),
         RankedAs(S, key, cpus), \A k \in cpus : k.performance \in Int,
         NEW classes, classes = Topology!DistinguishableClasses(S),
         NEW levels, levels = {k.performance : k \in cpus}
  PROVE  IF Cardinality(levels) < 2 THEN classes = <<>>
         ELSE Topology!ToSet(classes) =
                {[performance |-> p, physical |-> Cardinality(Keyed(key, Level(cpus, p))),
                  logical |-> Cardinality(Level(cpus, p))] : p \in levels}
<1>1. LevelsOf(S) = levels
  BY MembersAre
<1>2. CASE Cardinality(levels) < 2
  BY <1>1, <1>2, ClassesAre
<1>3. CASE ~(Cardinality(levels) < 2)
  <2>1. PICK seq : /\ Sums!Ascends(seq, levels)
                   /\ classes = [i \in 1 .. Cardinality(levels) |-> Topology!ClassOf(S, seq[i])]
    <3>1. \E seq : /\ Sums!Ascends(seq, LevelsOf(S)) /\ Cardinality(LevelsOf(S)) >= 2
                   /\ Topology!DistinguishableClasses(S) =
                        [i \in 1 .. Cardinality(LevelsOf(S)) |-> Topology!ClassOf(S, seq[i])]
      BY <1>1, <1>3, ClassesAre
    <3>2. QED BY <1>1, <3>1
  <2>2. PICK m : m = Cardinality(levels)
    OBVIOUS
  <2>3. IsFiniteSet(levels) /\ levels \subseteq Int
    BY <1>1, LevelsFinite
  <2>4. m \in Nat /\ seq \in [1 .. m -> levels]
    BY <2>1, <2>2, <2>3, FS_CardinalityType, SameCardinality DEF Sums!Ascends
  <2>5. \A p \in levels : \E i \in 1 .. m : seq[i] = p
    <3>1. Sums!IsFiniteSet(LevelsOf(S)) /\ LevelsOf(S) \subseteq Int
      BY LevelsFinite, SameCardinality
    <3>2. Sums!Ascends(seq, LevelsOf(S))
      BY <1>1, <2>1
    <3>3. \A p \in LevelsOf(S) : \E i \in 1 .. Sums!Cardinality(LevelsOf(S)) : seq[i] = p
      BY <3>1, <3>2, Sums!AscendingHasAll
    <3>4. Sums!Cardinality(LevelsOf(S)) = m
      BY <1>1, <2>2, SameCardinality
    <3>5. QED BY <1>1, <3>3, <3>4
  <2>6. PICK T : T = [p \in levels |->
                        [performance |-> p, physical |-> Cardinality(Keyed(key, Level(cpus, p))),
                         logical |-> Cardinality(Level(cpus, p))]]
    OBVIOUS
  <2>7. \A p \in levels : Topology!ClassOf(S, p) = T[p]
    BY <2>3, <2>6, ClassHeld
  <2>8. classes = [i \in 1 .. m |-> T[seq[i]]]
    <3>1. classes = [i \in 1 .. m |-> Topology!ClassOf(S, seq[i])]
      BY <2>1, <2>2
    <3>2. \A i \in 1 .. m : Topology!ClassOf(S, seq[i]) = T[seq[i]]
      BY <2>4, <2>7
    <3>3. QED BY <3>1, <3>2
  <2>9. Topology!ToSet(classes) = {classes[i] : i \in 1 .. m}
    BY <2>8 DEF Topology!ToSet
  <2>10. {classes[i] : i \in 1 .. m} = {T[p] : p \in levels}
    <3>1. \A i \in 1 .. m : classes[i] = T[seq[i]] /\ seq[i] \in levels
      BY <2>4, <2>8
    <3>2. \A p \in levels : \E i \in 1 .. m : classes[i] = T[p]
      BY <2>5, <3>1
    <3>3. QED BY <3>1, <3>2
  <2>11. {T[p] : p \in levels} =
           {[performance |-> p, physical |-> Cardinality(Keyed(key, Level(cpus, p))),
             logical |-> Cardinality(Level(cpus, p))] : p \in levels}
    BY <2>6
  <2>12. QED BY <1>3, <2>9, <2>10, <2>11
<1>4. QED BY <1>2, <1>3

\* Keys under which each core is found once.
CoreKeys(key, cpus) ==
  \A a, b \in cpus : key[a] = key[b] <=> <<a.group, a.core>> = <<b.group, b.core>>

LEMMA CoresCounted ==
  ASSUME NEW cpus, IsFiniteSet(cpus), NEW key, CoreKeys(key, cpus), NEW some \in SUBSET cpus
  PROVE  Cardinality(Keyed(key, some)) = Cardinality(Keyed(CoreOf(cpus), some))
<1>1. PICK cores1 : cores1 = CoreOf(cpus)
  OBVIOUS
<1>2. \A a, b \in some : key[a] = key[b] <=> cores1[a] = cores1[b]
  BY <1>1 DEF CoreKeys, CoreOf
<1>3. IsFiniteSet(some)
  BY FS_Subset
<1>4. QED BY <1>1, <1>2, <1>3, SameKeys

LEMMA HeldMatches ==
  ASSUME NEW cpus, IsFiniteSet(cpus), cpus # {}, \A k \in cpus : k.performance \in Int,
         NEW S, NEW n, n = Cardinality(cpus), Tally(S, n),
         NEW key, Held(S, key, cpus), CoreKeys(key, cpus),
         NEW ranks \in BOOLEAN, ranks => RankedAs(S, key, cpus),
         NEW classes, ranks => classes = Topology!DistinguishableClasses(S),
         NEW m, m = Cardinality(DOMAIN S)
  PROVE  Matches(Topology!CpuCount(n, m, classes), cpus, ranks)
<1>1. n \in Nat /\ n # 0
  BY FS_CardinalityType, FS_EmptySet
<1>2. m \in Nat /\ m <= n /\ m # 0
  BY <1>1, TallyBounds
<1>3. PICK c : c = Topology!CpuCount(n, m, classes)
  OBVIOUS
<1>4. c.logical = n /\ c.physical = m /\ c.classes = classes
  BY <1>1, <1>2, <1>3, CountIs
<1>5. m = Cardinality(Keyed(CoreOf(cpus), cpus))
  BY CoresCounted DEF Held
<1>6. PICK levels : levels = {k.performance : k \in cpus}
  OBVIOUS
<1>7. ASSUME ranks
      PROVE  IF Cardinality(levels) < 2 THEN classes = <<>>
             ELSE Topology!ToSet(classes) =
                    {[performance |-> p,
                      physical |-> Cardinality(Keyed(CoreOf(cpus), Level(cpus, p))),
                      logical |-> Cardinality(Level(cpus, p))] : p \in levels}
  <2>1. IF Cardinality(levels) < 2 THEN classes = <<>>
        ELSE Topology!ToSet(classes) =
               {[performance |-> p, physical |-> Cardinality(Keyed(key, Level(cpus, p))),
                 logical |-> Cardinality(Level(cpus, p))] : p \in levels}
    BY <1>6, <1>7, ClassesMatch
  <2>2. \A p : Cardinality(Keyed(key, Level(cpus, p)))
                 = Cardinality(Keyed(CoreOf(cpus), Level(cpus, p)))
    <3> SUFFICES ASSUME NEW p
                 PROVE  Cardinality(Keyed(key, Level(cpus, p)))
                          = Cardinality(Keyed(CoreOf(cpus), Level(cpus, p)))
      OBVIOUS
    <3>1. PICK some : some = Level(cpus, p)
      OBVIOUS
    <3>2. some \in SUBSET cpus
      BY <3>1 DEF Level
    <3>3. QED BY <3>1, <3>2, CoresCounted
  <2>3. QED BY <2>1, <2>2
<1>8. QED BY <1>3, <1>4, <1>5, <1>6, <1>7 DEF Matches

-----------------------------------------------------------------------------
(* CpuTopology: what is counted, if nothing fails or changes.              *)

Numbers(cpus) == IsFiniteSet(cpus) /\ \A k \in cpus : k.index \in Nat /\ k.performance \in Int

LEMMA SystemFits ==
  ASSUME Topology!CpuAssumption, Topology!CpusFit, system \in Systems
  PROVE  /\ Numbers(system.online)
         /\ \A a, b \in system.online \cup system.affinity :
              a.group = b.group /\ a.index = b.index => a = b
         /\ \A a, b \in system.online :
              a.group = b.group /\ a.core = b.core => a.performance = b.performance
BY SystemIs DEF Topology!CpusFit, CpusSeen, Numbers

\* Linux: the list of a core's CPUs stands for the core.
Lists == [k \in system.online |-> Topology!CoreCpus(k)]

LEMMA ListsTellCores ==
  ASSUME Topology!CpuAssumption, Topology!CpusFit, system \in Systems, system.os = "linux"
  PROVE  CoreKeys(Lists, system.online)
<1> SUFFICES ASSUME NEW a \in system.online, NEW b \in system.online
             PROVE  Topology!CoreCpus(a) = Topology!CoreCpus(b) <=>
                      <<a.group, a.core>> = <<b.group, b.core>>
  BY DEF CoreKeys, Lists
<1>1. a.group = b.group
  BY DEF Topology!CpusFit
<1>2. ASSUME a.core = b.core PROVE Topology!CoreCpus(a) = Topology!CoreCpus(b)
  BY <1>2 DEF Topology!CoreCpus
<1>3. ASSUME Topology!CoreCpus(a) = Topology!CoreCpus(b) PROVE a.core = b.core
  <2>1. a.index \in Topology!CoreCpus(b)
    BY <1>3 DEF Topology!CoreCpus
  <2>2. PICK k \in system.online : k.core = b.core /\ k.index = a.index
    BY <2>1 DEF Topology!CoreCpus
  <2>3. k.group = a.group
    BY DEF Topology!CpusFit
  <2>4. k = a
    BY <2>2, <2>3, SystemFits
  <2>5. QED BY <2>2, <2>4
<1>4. QED BY <1>1, <1>2, <1>3

\* Windows: the masks stand for the affinity.
Affine == Topology!OwnMask(Topology!ActiveMasks(Topology!GroupsOf(system.affinity)))

LEMMA MasksAreAffinity ==
  ASSUME Topology!CpuAssumption, Topology!CpusFit, system \in Systems, system.os = "windows",
         masks = Affine, NEW k \in system.online
  PROVE  Topology!InMasks(k) <=> k \in system.affinity
<1>1. PICK known, groups : /\ groups = Topology!GroupsOf(system.affinity)
                           /\ known = Topology!ActiveMasks(groups)
  OBVIOUS
<1>2. DOMAIN known = groups /\ \A g \in groups : known[g] = Topology!ActiveMask(g)
  BY <1>1 DEF Topology!ActiveMasks
<1>3. /\ DOMAIN masks = groups \cup {system.group}
      /\ masks[system.group] = Topology!IndicesIn(system.affinity, system.group)
      /\ \A g \in groups \ {system.group} : masks[g] = Topology!ActiveMask(g)
  BY <1>1, <1>2 DEF Affine, Topology!OwnMask
<1>4. k \in system.affinity => k.group \in groups
  BY <1>1 DEF Topology!GroupsOf
<1>5. CASE k.group = system.group
  <2>1. Topology!InMasks(k) <=> k.index \in Topology!IndicesIn(system.affinity, k.group)
    BY <1>3, <1>5 DEF Topology!InMasks
  <2>2. ASSUME k.index \in Topology!IndicesIn(system.affinity, k.group) PROVE k \in system.affinity
    <3>1. PICK a \in system.affinity : a.group = k.group /\ a.index = k.index
      BY <2>2 DEF Topology!IndicesIn
    <3>2. a = k
      BY <3>1, SystemFits
    <3>3. QED BY <3>2
  <2>3. k \in system.affinity => k.index \in Topology!IndicesIn(system.affinity, k.group)
    BY DEF Topology!IndicesIn
  <2>4. QED BY <2>1, <2>2, <2>3
<1>6. CASE k.group # system.group
  <2>1. k.index \in Topology!ActiveMask(k.group)
    <3>1. PICK n : n = Topology!Cardinality(Topology!IndicesIn(system.online, k.group))
      OBVIOUS
    <3>2. IsFiniteSet(Topology!IndicesIn(system.online, k.group))
      BY SystemFits, IndicesFinite DEF Numbers
    <3>3. n \in Nat
      BY <3>1, <3>2, SameCardinality, FS_CardinalityType
    <3>4. k.index \in Nat /\ k.index < n
      BY <3>1, SystemFits DEF Topology!CpusFit, Numbers
    <3>5. Topology!ActiveMask(k.group) = 0 .. n - 1
      BY <3>1 DEF Topology!ActiveMask
    <3>6. QED BY <3>3, <3>4, <3>5
  <2>2. Topology!InMasks(k) <=> k.group \in groups
    BY <1>3, <1>6, <2>1 DEF Topology!InMasks
  <2>3. k.group \in groups => k \in system.affinity
    BY <1>1, <1>6 DEF Topology!CpusFit
  <2>4. QED BY <1>4, <2>2, <2>3
<1>7. QED BY <1>5, <1>6

\* What the default CPU Sets leave of the masks: the usable CPUs.
Selected == {k \in (system.online \ system.elsewhere) \cap system.defaults : Topology!InMasks(k)}
Narrowed ==
  IF Selected = {} THEN masks
  ELSE [g \in Topology!GroupsOf(Selected) |-> Topology!IndicesIn(Selected, g)]

LEMMA DefaultsNarrow ==
  ASSUME Topology!CpuAssumption, Topology!CpusFit, system \in Systems,
         \A k \in system.online : Topology!InMasks(k) <=> k \in system.affinity
  PROVE  {k \in system.online \ system.elsewhere :
            k.group \in DOMAIN Narrowed /\ k.index \in Narrowed[k.group]} = Topology!Usable
<1>0. PICK selected, narrowed : selected = Selected /\ narrowed = Narrowed
  OBVIOUS
<1>1. PICK affine : affine = (system.affinity \cap system.online) \ system.elsewhere
  OBVIOUS
<1>2. selected = affine \cap system.defaults
  BY <1>0, <1>1 DEF Selected
<1>3. Topology!Usable = IF selected = {} THEN affine ELSE selected
  BY <1>1, <1>2 DEF Topology!Usable
<1>4. CASE selected = {}
  BY <1>0, <1>1, <1>3, <1>4 DEF Narrowed, Topology!InMasks
<1>5. CASE selected # {}
  <2>1. ASSUME NEW k \in system.online
        PROVE  k.group \in DOMAIN narrowed /\ k.index \in narrowed[k.group] <=> k \in selected
    <3>1. k.group \in DOMAIN narrowed /\ k.index \in narrowed[k.group] <=>
            \E a \in selected : a.group = k.group /\ a.index = k.index
      BY <1>0, <1>5 DEF Narrowed, Topology!GroupsOf, Topology!IndicesIn
    <3>2. \A a \in selected : a.group = k.group /\ a.index = k.index => a = k
      BY <1>1, <1>2, SystemFits
    <3>3. QED BY <3>1, <3>2
  <2>2. selected \subseteq system.online \ system.elsewhere
    BY <1>0 DEF Selected
  <2>3. QED BY <1>0, <1>3, <1>5, <2>1, <2>2
<1>6. QED BY <1>0, <1>4, <1>5

LEMMA CpusHeld ==
  ASSUME NEW cpus, Numbers(cpus), NEW key, \A k \in cpus : key[k] = Topology!CoreKey(k),
         \A a, b \in cpus : key[a] = key[b] => a.performance = b.performance
  PROVE  /\ Held(Tallies!FoldedSet(Topology!NoCores, cpus), key, cpus)
         /\ RankedAs(Tallies!FoldedSet(Topology!NoCores, cpus), key, cpus)
<1>1. PICK it : /\ Tallies!AlongSubsets(it, Topology!NoCores, Tallies!Elements(cpus), cpus)
                /\ Tallies!FoldedSet(Topology!NoCores, cpus) = it[cpus]
  <2>1. Tallies!IsFiniteSet(cpus)
    BY DEF Tallies!IsFiniteSet, IsFiniteSet, Numbers
  <2>2. QED BY <2>1, Tallies!FoldedSetSubsets
<1>2. /\ it[{}] = Topology!NoCores
      /\ \A cs \in SUBSET cpus : cs # {} => \E k \in cs : it[cs] = CountedCpu(it[cs \ {k}], k)
  BY <1>1 DEF Tallies!AlongSubsets, Tallies!Elements
<1> DEFINE R == {cs \in SUBSET cpus : /\ Tally(it[cs], Cardinality(cs))
                                      /\ Held(it[cs], key, cs) /\ RankedAs(it[cs], key, cs)}
<1>3. {} \in R
  <2>1. Held(Topology!NoCores, key, {})
    BY DEF Held, Keyed, Topology!NoCores
  <2>2. QED BY <1>2, <2>1, NoneTallied, FS_EmptySet DEF RankedAs
<1>4. ASSUME NEW cs \in SUBSET cpus, cs # {}, \A k \in cs : cs \ {k} \in R PROVE cs \in R
  <2>1. PICK k \in cs : it[cs] = CountedCpu(it[cs \ {k}], k)
    BY <1>2, <1>4
  <2>2. PICK rest, n, S, T : rest = cs \ {k} /\ n = Cardinality(rest) /\ S = it[rest] /\ T = it[cs]
    OBVIOUS
  <2>3. Tally(S, n) /\ Held(S, key, rest) /\ RankedAs(S, key, rest) /\ IsFiniteSet(rest)
    BY <1>4, <2>2, FS_Subset DEF Numbers
  <2>4. T = Topology!Counted(S, key[k], k.performance) /\ k.performance \in Int /\ k \notin rest
    BY <2>1, <2>2 DEF CountedCpu, Numbers
  <2>5. Tally(T, n + 1)
    BY <2>3, <2>4, OneTallied
  <2>6. /\ Held(T, key, rest \cup {k}) /\ \A c \in DOMAIN S : T[c].performance = S[c].performance
        /\ key[k] \notin DOMAIN S => T[key[k]].performance = k.performance
    <3>1. PICK p : p = k.performance
      OBVIOUS
    <3>2. OneMore(Topology!Counted(S, key[k], p), S, key, rest, k, p)
      BY <2>3, <2>4, OneHeld
    <3>3. QED BY <2>4, <3>1, <3>2 DEF OneMore
  <2>7. rest \cup {k} = cs
    BY <2>2
  <2>8. \A a \in rest : key[a] \in DOMAIN S /\ S[key[a]].performance = a.performance
    BY <2>3 DEF Held, Keyed, RankedAs
  <2>9. T[key[k]].performance = k.performance
    <3>1. CASE key[k] \in DOMAIN S
      <4>1. PICK a \in rest : key[a] = key[k]
        BY <2>3, <3>1 DEF Held, Keyed
      <4>2. a.performance = k.performance
        BY <2>2, <4>1
      <4>3. QED BY <2>6, <2>8, <4>1, <4>2
    <3>2. QED BY <2>6, <3>1
  <2>10. RankedAs(T, key, cs)
    BY <2>6, <2>7, <2>8, <2>9 DEF RankedAs
  <2>11. Cardinality(cs) = n + 1
    <3>1. IsFiniteSet(cs)
      BY FS_Subset DEF Numbers
    <3>2. n = Cardinality(cs) - 1 /\ Cardinality(cs) \in Nat
      BY <2>2, <3>1, FS_RemoveElement, FS_CardinalityType
    <3>3. QED BY <3>2
  <2>12. Tally(T, Cardinality(cs)) /\ Held(T, key, cs)
    BY <2>5, <2>6, <2>7, <2>11
  <2>13. QED BY <2>2, <2>10, <2>12
<1>5. SUBSET cpus \subseteq R
  <2>1. \A cs \in SUBSET cpus : cs # {} /\ (\A k \in cs : cs \ {k} \in R) => cs \in R
    BY <1>4
  <2>2. Sums!IsFiniteSet(cpus)
    BY SameCardinality DEF Numbers
  <2> HIDE DEF R
  <2>3. QED BY <1>3, <2>1, <2>2, Sums!AllSubsets
<1>6. QED BY <1>1, <1>5

\* The CPUs that the cores hold: those looked at, and the one whose core is to be ranked.
Looked == (allowed \ todo) \cup IF stage = "capacity" THEN {Topology!Cpu} ELSE {}

LinuxExact ==
  /\ system.os = "linux" /\ allowed = system.affinity \cap system.online
  /\ Held(cores, Lists, Looked)
  /\ stage = "capacity" => inserted = Lists[Topology!Cpu]
  /\ "cpu_capacity" \in system.exposes =>
       /\ ranked
       /\ \A k \in Looked : \/ cores[Lists[k]].performance = k.performance
                            \/ stage = "capacity" /\ inserted = Lists[k]

WindowsExact ==
  /\ system.os = "windows"
  /\ stage = "process mask" =>
       masks = Topology!ActiveMasks(Topology!GroupsOf(system.affinity))
  /\ stage \in {"cpu sets", "default sets"} => masks = Affine
  /\ stage \in {"default sets", "count"} => cpuSets = system.online \ system.elsewhere
  /\ stage = "count" =>
       {k \in system.online \ system.elsewhere : Topology!InMasks(k)} = Topology!Usable

ExactInv ==
  /\ stage \in {"idle", "linux"} => ranked
  /\ exact =>
       /\ stage = "linux" => system.os = "linux"
       /\ stage = "other" => system.os = "other" \/ Topology!Usable = {}
       /\ stage \in {"topology", "capacity"} => LinuxExact
       /\ stage \in {"windows", "process mask", "cpu sets", "default sets", "count"} => WindowsExact
       /\ stage = "done" /\ system.os # "other" /\ Topology!Usable # {} =>
            Matches(count, Topology!Usable, "cpu_capacity" \in system.exposes)

LEMMA SystemStays ==
  ASSUME UNCHANGED system
  PROVE  Lists' = Lists /\ Topology!Usable' = Topology!Usable /\ Affine' = Affine
BY DEF Lists, Topology!CoreCpus, Topology!Usable, Affine, Topology!OwnMask, Topology!ActiveMasks,
       Topology!ActiveMask, Topology!GroupsOf, Topology!IndicesIn

LEMMA UsableIs ==
  /\ Topology!Usable \subseteq system.affinity \cap system.online
  /\ system.elsewhere = {} /\ system.defaults = {} =>
       Topology!Usable = system.affinity \cap system.online
BY DEF Topology!Usable

LEMMA GetStaysExact ==
  ASSUME Topology!CpuAssumption, ExactInv,
         Topology!Get \/ Topology!Change \/ Topology!GetOther \/ UNCHANGED Topology!vars
  PROVE  ExactInv'
<1>1. CASE UNCHANGED Topology!vars
  <2>1. UNCHANGED <<system, stage, exact, allowed, todo, inserted, masks, cpuSets, cores,
                    ranked, count>>
    BY <1>1 DEF Topology!vars, Topology!found
  <2>2. /\ Lists' = Lists /\ Topology!Usable' = Topology!Usable /\ Affine' = Affine
        /\ Looked' = Looked /\ Topology!Cpu' = Topology!Cpu
    BY <2>1, SystemStays DEF Looked, Topology!Cpu
  <2>3. LinuxExact' <=> LinuxExact
    BY <2>1, <2>2 DEF LinuxExact
  <2>4. WindowsExact' <=> WindowsExact
    <3>1. \A k : Topology!InMasks(k)' <=> Topology!InMasks(k)
      BY <2>1 DEF Topology!InMasks
    <3>2. {k \in system'.online \ system'.elsewhere : Topology!InMasks(k)'}
            = {k \in system.online \ system.elsewhere : Topology!InMasks(k)}
      BY <2>1, <3>1
    <3>3. Topology!ActiveMasks(Topology!GroupsOf(system.affinity))' =
            Topology!ActiveMasks(Topology!GroupsOf(system.affinity))
      BY <2>1 DEF Topology!ActiveMasks, Topology!ActiveMask, Topology!IndicesIn, Topology!GroupsOf
    <3>4. QED BY <2>1, <2>2, <3>2, <3>3 DEF WindowsExact
  <2>5. QED BY <2>1, <2>2, <2>3, <2>4 DEF ExactInv
<1>2. CASE Topology!Change
  BY <1>2 DEF ExactInv, Topology!Change, Topology!found
<1>3. CASE Topology!GetOther
  <2>1. stage = "other" /\ stage' = "done" /\ UNCHANGED <<system, exact>>
    BY <1>3 DEF Topology!GetOther, Topology!NoTopology, Topology!Return
  <2>2. QED BY <2>1, SystemStays DEF ExactInv
<1>4. CASE Topology!Get
  <2>1. stage = "idle" /\ stage' = system'.os /\ system' \in Systems /\ UNCHANGED ranked
    BY <1>4 DEF Topology!Get, Topology!found
  <2>2. stage' \in {"linux", "windows", "other"}
    BY <2>1, SystemIs
  <2>3. stage' = "windows" => WindowsExact'
    BY <2>1 DEF WindowsExact
  <2>4. ranked
    BY <2>1 DEF ExactInv
  <2>5. QED BY <2>1, <2>2, <2>3, <2>4 DEF ExactInv
<1>5. QED BY <1>1, <1>2, <1>3, <1>4

LEMMA LinuxStaysExact ==
  ASSUME Topology!CpuAssumption, Topology!CpusFit, CpuInv, ExactInv, Topology!Linux
  PROVE  ExactInv'
<1>1. system' = system /\ stage # "idle" /\ system \in Systems
      /\ Lists' = Lists /\ Topology!Usable' = Topology!Usable
  <2>1. system' = system /\ stage \in {"linux", "topology", "capacity"}
    BY DEF Topology!Linux, Topology!AllowedLinuxCpus, Topology!ReadTopology,
           Topology!TopologyMissing, Topology!ReadCapacity, Topology!GetLinux, Topology!Return
  <2>2. QED BY <2>1, SystemStays DEF CpuInv
<1>2. CASE Topology!AllowedLinuxCpus
  <2>1. PICK failed \in BOOLEAN :
          Topology!Answers(failed)
          /\ allowed' = IF failed THEN {} ELSE system.affinity \cap system.online
    BY <1>2 DEF Topology!AllowedLinuxCpus
  <2>2. stage = "linux" /\ todo' = allowed' /\ cores' = cores /\ ranked' = ranked
        /\ stage' = IF allowed' = {} THEN "other" ELSE "topology"
    BY <1>2 DEF Topology!AllowedLinuxCpus
  <2>3. ranked /\ cores = Topology!NoCores
    BY <2>2 DEF ExactInv, CpuInv
  <2>4. stage' \in {"other", "topology"}
    BY <2>2
  <2>5. CASE ~exact'
    BY <2>4, <2>5 DEF ExactInv
  <2>6. CASE exact'
    <3>1. ~failed /\ exact
      BY <2>1, <2>6 DEF Topology!Answers
    <3>2. system.os = "linux" /\ allowed' = system.affinity \cap system.online
      BY <2>1, <2>2, <3>1 DEF ExactInv
    <3>3. CASE allowed' = {}
      <4>1. Topology!Usable = {}
        BY <3>2, <3>3, UsableIs
      <4>2. stage' = "other"
        BY <2>2, <3>3
      <4>3. QED BY <1>1, <4>1, <4>2 DEF ExactInv
    <3>4. CASE allowed' # {}
      <4>1. stage' = "topology"
        BY <2>2, <3>4
      <4>2. Looked' = {}
        BY <2>2, <4>1 DEF Looked
      <4>3. DOMAIN cores' = {}
        BY <2>2, <2>3 DEF Topology!NoCores
      <4>4. Held(cores', Lists', Looked')
        BY <4>2, <4>3 DEF Held, Keyed
      <4>5. LinuxExact'
        BY <1>1, <2>2, <2>3, <3>2, <4>1, <4>2, <4>4 DEF LinuxExact
      <4>6. QED BY <4>1, <4>5 DEF ExactInv
    <3>5. QED BY <3>3, <3>4
  <2>7. QED BY <2>5, <2>6
<1>3. ASSUME stage \in {"topology", "capacity"}, exact
      PROVE  /\ LinuxExact /\ LinuxCounts /\ allowed \subseteq system.online
             /\ IsFiniteSet(allowed) /\ IsFiniteSet(Looked)
  <2>1. LinuxExact /\ LinuxCounts
    BY <1>3 DEF ExactInv, CpuInv
  <2>2. allowed \subseteq system.online /\ IsFiniteSet(allowed)
    BY <2>1 DEF LinuxExact, LinuxCounts, CpusSeen
  <2>3. IsFiniteSet(Looked)
    <3>1. IsFiniteSet(allowed \ todo)
      BY <2>2, FS_Difference
    <3>2. IsFiniteSet((allowed \ todo) \cup {Topology!Cpu})
      BY <3>1, FS_AddElement
    <3>3. QED BY <3>1, <3>2 DEF Looked
  <2>4. QED BY <2>1, <2>2, <2>3
<1>4. CASE Topology!ReadTopology
  <2>1. PICK cpu, key : cpu = Topology!Cpu /\ key = Lists[cpu]
    OBVIOUS
  <2>2. /\ stage = "topology" /\ todo # {}
        /\ stage' = IF Topology!CoreCpus(cpu) \in DOMAIN cores THEN "topology" ELSE "capacity"
        /\ todo' = IF Topology!CoreCpus(cpu) \in DOMAIN cores THEN todo \ {cpu} ELSE todo
        /\ inserted' = Topology!CoreCpus(cpu)
        /\ cores' = Topology!Counted(cores, Topology!CoreCpus(cpu), 0)
        /\ UNCHANGED <<allowed, exact, ranked>>
    BY <1>4, <2>1 DEF Topology!ReadTopology
  <2>3. CASE ~exact
    BY <2>2, <2>3 DEF ExactInv
  <2>4. CASE exact
    <3>1. /\ LinuxExact /\ LinuxCounts /\ allowed \subseteq system.online
          /\ IsFiniteSet(allowed) /\ IsFiniteSet(Looked)
      BY <1>3, <2>2, <2>4
    <3>2. cpu \in todo /\ todo \subseteq allowed /\ cpu \in system.online
      BY <2>1, <2>2, <3>1, FirstCpu DEF LinuxCounts
    <3>3. Topology!CoreCpus(cpu) = key
      BY <2>1, <3>2 DEF Lists
    <3>4. Looked = allowed \ todo /\ cpu \notin Looked
      BY <2>2, <3>2 DEF Looked
    <3>5. PICK n : Tally(cores, n)
      BY <3>1 DEF LinuxCounts
    <3>6. OneMore(cores', cores, Lists, Looked, cpu, 0)
      <4>1. OneMore(Topology!Counted(cores, Lists[cpu], 0), cores, Lists, Looked, cpu, 0)
        BY <3>1, <3>4, <3>5, OneHeld DEF LinuxExact
      <4>2. QED BY <2>1, <2>2, <3>3, <4>1
    <3>7. Looked' = Looked \cup {cpu}
      <4>1. todo' = todo => Topology!Cpu' = cpu
        BY <2>1 DEF Topology!Cpu
      <4>2. QED BY <2>2, <3>2, <3>4, <4>1 DEF Looked
    <3>8. Held(cores', Lists', Looked')
      BY <1>1, <3>6, <3>7 DEF OneMore
    <3>9. stage' = "capacity" => inserted' = Lists'[Topology!Cpu']
      <4>1. stage' = "capacity" => todo' = todo
        BY <2>2
      <4>2. todo' = todo => Topology!Cpu' = cpu
        BY <2>1 DEF Topology!Cpu
      <4>3. QED BY <1>1, <2>1, <2>2, <3>3, <4>1, <4>2
    <3>10. ASSUME "cpu_capacity" \in system.exposes
           PROVE  /\ ranked
                  /\ \A k \in Looked' : \/ cores'[Lists[k]].performance = k.performance
                                        \/ stage' = "capacity" /\ inserted' = Lists[k]
      <4>1. ranked /\ \A k \in Looked : cores[Lists[k]].performance = k.performance
        BY <2>2, <3>1, <3>10 DEF LinuxExact
      <4>2. \A k \in Looked : Lists[k] \in DOMAIN cores
        BY <3>1 DEF LinuxExact, Held, Keyed
      <4>3. \A k \in Looked : cores'[Lists[k]].performance = k.performance
        BY <3>6, <4>1, <4>2 DEF OneMore
      <4>4. CASE key \in DOMAIN cores
        <5>1. PICK k \in Looked : Lists[k] = key
          BY <3>1, <4>4 DEF LinuxExact, Held, Keyed
        <5>2. CoreKeys(Lists, system.online)
          BY <1>1, <3>1, ListsTellCores DEF LinuxExact
        <5>3. k \in system.online
          BY <3>1, <3>4
        <5>4. k.group = cpu.group /\ k.core = cpu.core
          BY <2>1, <3>2, <5>1, <5>2, <5>3 DEF CoreKeys
        <5>5. k.performance = cpu.performance
          BY <1>1, <3>2, <5>3, <5>4, SystemFits
        <5>6. cores'[Lists[cpu]].performance = cpu.performance
          BY <2>1, <4>3, <5>1, <5>5
        <5>7. QED BY <3>7, <4>1, <4>3, <5>6
      <4>5. CASE key \notin DOMAIN cores
        BY <2>1, <2>2, <3>3, <3>7, <4>1, <4>3, <4>5
      <4>6. QED BY <4>4, <4>5
    <3>11. LinuxExact'
      BY <1>1, <2>2, <3>1, <3>8, <3>9, <3>10 DEF LinuxExact
    <3>12. stage' \in {"topology", "capacity"}
      BY <2>2
    <3>13. QED BY <3>11, <3>12 DEF ExactInv
  <2>5. QED BY <2>3, <2>4
<1>5. CASE Topology!TopologyMissing
  BY <1>5 DEF Topology!TopologyMissing, Topology!Return, ExactInv
<1>6. CASE Topology!ReadCapacity
  <2>1. PICK cpu : cpu = Topology!Cpu
    OBVIOUS
  <2>2. /\ stage = "capacity" /\ stage' = "topology" /\ todo' = todo \ {cpu}
        /\ IF cpu \in system.online /\ "cpu_capacity" \in system.exposes
           THEN cores' = [cores EXCEPT ![inserted].performance = cpu.performance]
                /\ ranked' = ranked
           ELSE ranked' = FALSE /\ cores' = cores
        /\ UNCHANGED <<allowed, exact>>
    BY <1>6, <2>1 DEF Topology!ReadCapacity, Topology!Readable
  <2>3. CASE ~exact
    BY <2>2, <2>3 DEF ExactInv
  <2>4. CASE exact
    <3>1. LinuxExact /\ LinuxCounts /\ allowed \subseteq system.online
      BY <1>3, <2>2, <2>4
    <3>2. cpu \in todo /\ todo \subseteq allowed /\ cpu \in system.online
      BY <2>1, <2>2, <3>1, FirstCpu DEF LinuxCounts
    <3>3. Looked = (allowed \ todo) \cup {cpu} /\ Looked' = Looked /\ Looked \subseteq system.online
      BY <2>1, <2>2, <3>1, <3>2 DEF Looked
    <3>4. inserted = Lists[cpu] /\ inserted \in DOMAIN cores
      BY <2>1, <2>2, <3>1 DEF LinuxExact, LinuxCounts
    <3>5. \A c \in DOMAIN cores : cores[c] \in [logical : Nat \ {0}, performance : Int]
      BY <3>1 DEF LinuxCounts, Tally
    <3>6. /\ DOMAIN cores' = DOMAIN cores
          /\ \A c \in DOMAIN cores : cores'[c].logical = cores[c].logical
          /\ \A c \in DOMAIN cores \ {inserted} : cores'[c].performance = cores[c].performance
          /\ "cpu_capacity" \in system.exposes => cores'[inserted].performance = cpu.performance
      <4>1. CASE cores' = cores /\ "cpu_capacity" \notin system.exposes
        BY <4>1
      <4>2. CASE cores' = [cores EXCEPT ![inserted].performance = cpu.performance]
        <5>1. /\ DOMAIN cores' = DOMAIN cores
              /\ \A c \in DOMAIN cores \ {inserted} : cores'[c] = cores[c]
          BY <4>2
        <5>2. PICK old : old = cores[inserted]
          OBVIOUS
        <5>3. cores'[inserted] = [old EXCEPT !.performance = cpu.performance]
          BY <3>4, <4>2, <5>2
        <5>4. old \in [logical : Nat \ {0}, performance : Int]
          BY <3>4, <3>5, <5>2
        <5>5. cores'[inserted].logical = old.logical
              /\ cores'[inserted].performance = cpu.performance
          BY <5>3, <5>4
        <5>6. QED BY <5>1, <5>2, <5>5
      <4>3. QED BY <2>2, <3>2, <4>1, <4>2
    <3>7. Held(cores', Lists', Looked')
      BY <1>1, <3>1, <3>3, <3>6 DEF LinuxExact, Held
    <3>8. ASSUME "cpu_capacity" \in system.exposes
          PROVE  ranked' /\ \A k \in Looked : cores'[Lists[k]].performance = k.performance
      <4>1. /\ ranked'
            /\ \A k \in Looked :
                 cores[Lists[k]].performance = k.performance \/ inserted = Lists[k]
        BY <2>2, <3>1, <3>2, <3>8 DEF LinuxExact
      <4>2. ASSUME NEW k \in Looked, inserted = Lists[k] PROVE k.performance = cpu.performance
        <5>1. CoreKeys(Lists, system.online)
          BY <1>1, <3>1, ListsTellCores DEF LinuxExact
        <5>2. k.group = cpu.group /\ k.core = cpu.core
          BY <3>2, <3>3, <3>4, <4>2, <5>1 DEF CoreKeys
        <5>3. QED BY <1>1, <3>2, <3>3, <5>2, SystemFits
      <4>3. \A k \in Looked : Lists[k] \in DOMAIN cores
        BY <3>1 DEF LinuxExact, Held, Keyed
      <4>4. QED BY <3>6, <3>8, <4>1, <4>2, <4>3
    <3>9. LinuxExact'
      BY <1>1, <2>2, <3>1, <3>3, <3>7, <3>8 DEF LinuxExact
    <3>10. QED BY <2>2, <3>9 DEF ExactInv
  <2>5. QED BY <2>3, <2>4
<1>7. CASE Topology!GetLinux
  <2>1. PICK n, m, classes : /\ n = Cardinality(allowed) /\ m = Cardinality(DOMAIN cores)
                             /\ classes = IF ranked THEN Topology!DistinguishableClasses(cores)
                                          ELSE <<>>
    OBVIOUS
  <2>2. /\ stage = "topology" /\ todo = {} /\ stage' = "done" /\ UNCHANGED exact
        /\ count' = Topology!CpuCount(n, m, classes)
    BY <1>7, <2>1, SameCardinality DEF Topology!GetLinux, Topology!Return
  <2>3. CASE ~exact
    BY <2>2, <2>3 DEF ExactInv
  <2>4. CASE exact
    <3>1. LinuxExact /\ LinuxCounts /\ allowed \subseteq system.online /\ IsFiniteSet(allowed)
      BY <1>3, <2>2, <2>4
    <3>2. Looked = allowed /\ allowed \ todo = allowed
      BY <2>2 DEF Looked
    <3>3. Topology!Usable = allowed
      BY <1>1, <3>1, UsableIs DEF Topology!CpusFit, LinuxExact
    <3>4. allowed # {} /\ Tally(cores, n)
      <4>1. n \in Nat
        BY <2>1, <3>1, FS_CardinalityType
      <4>2. QED BY <2>1, <2>2, <3>1, <3>2, <4>1 DEF LinuxCounts
    <3>5. Held(cores, Lists, allowed)
      BY <3>1, <3>2 DEF LinuxExact
    <3>6. CoreKeys(Lists, allowed)
      BY <1>1, <3>1, ListsTellCores DEF LinuxExact, CoreKeys
    <3>7. PICK ranks \in BOOLEAN : ranks <=> "cpu_capacity" \in system.exposes
      OBVIOUS
    <3>8. ranks => ranked /\ RankedAs(cores, Lists, allowed)
      BY <2>2, <3>1, <3>2, <3>7 DEF LinuxExact, RankedAs
    <3>9. ranks => classes = Topology!DistinguishableClasses(cores)
      BY <2>1, <3>8
    <3>10. \A k \in allowed : k.performance \in Int
      BY <1>1, <3>1, SystemFits DEF Numbers
    <3>11. Matches(Topology!CpuCount(n, m, classes), allowed, ranks)
      BY <2>1, <3>1, <3>4, <3>5, <3>6, <3>8, <3>9, <3>10, HeldMatches
    <3>12. Matches(count', Topology!Usable', "cpu_capacity" \in system'.exposes)
      <4>1. ranks = ("cpu_capacity" \in system.exposes)
        BY <3>7
      <4>2. QED BY <1>1, <2>2, <3>3, <3>11, <4>1
    <3>13. QED BY <2>2, <3>12 DEF ExactInv
  <2>5. QED BY <2>3, <2>4
<1>8. QED BY <1>2, <1>4, <1>5, <1>6, <1>7 DEF Topology!Linux

LEMMA WindowsStaysExact ==
  ASSUME Topology!CpuAssumption, Topology!CpusFit, CpuInv, ExactInv, Topology!Windows
  PROVE  ExactInv'
<1> DEFINE stages == {"windows", "process mask", "cpu sets", "default sets", "count"}
<1>1. /\ system' = system /\ system \in Systems /\ stage \in stages
      /\ Topology!Usable' = Topology!Usable /\ Affine' = Affine
  <2>1. system' = system /\ stage \in stages
    BY DEF Topology!Windows, Topology!ProcessGroups, Topology!ProcessMask, Topology!WindowsCpuSets,
           Topology!DefaultCpuSets, Topology!CountCores, Topology!WindowsStep, Topology!Return
  <2>2. QED BY <2>1, SystemStays DEF CpuInv
<1>2. ASSUME exact PROVE WindowsExact
  BY <1>1, <1>2 DEF ExactInv
<1>3. ASSUME stage' \in stages \ {"windows"}, exact' => WindowsExact' PROVE ExactInv'
  BY <1>3 DEF ExactInv
<1>4. CASE Topology!ProcessGroups
  <2>1. PICK failed \in BOOLEAN :
          Topology!Answers(failed)
          /\ (~failed => masks' = Topology!ActiveMasks(Topology!GroupsOf(system.affinity)))
    BY <1>4 DEF Topology!ProcessGroups
  <2>2. stage' = "process mask"
    BY <1>4 DEF Topology!ProcessGroups, Topology!WindowsStep
  <2>3. ASSUME exact' PROVE WindowsExact'
    <3>1. exact /\ masks' = Topology!ActiveMasks(Topology!GroupsOf(system.affinity))
      BY <2>1, <2>3 DEF Topology!Answers
    <3>2. Topology!ActiveMasks(Topology!GroupsOf(system.affinity))' =
            Topology!ActiveMasks(Topology!GroupsOf(system.affinity))
      BY <1>1 DEF Topology!ActiveMasks, Topology!ActiveMask, Topology!IndicesIn, Topology!GroupsOf
    <3>3. QED BY <1>1, <1>2, <2>2, <3>1, <3>2 DEF WindowsExact
  <2>4. QED BY <1>3, <2>2, <2>3
<1>5. CASE Topology!ProcessMask
  <2>1. PICK failed \in BOOLEAN, known \in {masks, Topology!OwnMask(masks)} :
          /\ Topology!Answers(failed)
          /\ known = IF failed THEN masks ELSE Topology!OwnMask(masks)
          /\ known # Topology!NoCores => masks' = known
    BY <1>5 DEF Topology!ProcessMask
  <2>2. stage = "process mask" /\ stage' = "cpu sets"
    BY <1>5 DEF Topology!ProcessMask, Topology!WindowsStep
  <2>3. ASSUME exact' PROVE WindowsExact'
    <3>1. exact /\ known = Topology!OwnMask(masks)
      BY <2>1, <2>3 DEF Topology!Answers
    <3>2. known = Affine
      BY <1>2, <2>2, <3>1 DEF WindowsExact, Affine
    <3>3. system.group \in DOMAIN known
      BY <3>1 DEF Topology!OwnMask
    <3>4. masks' = Affine
      BY <2>1, <3>2, <3>3 DEF Topology!NoCores
    <3>5. QED BY <1>1, <1>2, <2>2, <3>1, <3>4 DEF WindowsExact
  <2>4. QED BY <1>3, <2>2, <2>3
<1>6. CASE Topology!WindowsCpuSets
  <2>1. PICK failed \in BOOLEAN : /\ Topology!Answers(failed)
                                  /\ ~failed => cpuSets' = system.online \ system.elsewhere
    BY <1>6 DEF Topology!WindowsCpuSets
  <2>2. stage = "cpu sets" /\ stage' = "default sets" /\ masks' = masks
    BY <1>6 DEF Topology!WindowsCpuSets, Topology!WindowsStep
  <2>3. ASSUME exact' PROVE WindowsExact'
    <3>1. exact /\ cpuSets' = system.online \ system.elsewhere
      BY <2>1, <2>3 DEF Topology!Answers
    <3>2. QED BY <1>1, <1>2, <2>2, <3>1 DEF WindowsExact
  <2>4. QED BY <1>3, <2>2, <2>3
<1>7. CASE Topology!DefaultCpuSets
  <2>1. PICK failed \in BOOLEAN, selected \in SUBSET cpuSets :
          /\ Topology!Answers(failed)
          /\ selected = {k \in cpuSets \cap system.defaults : Topology!InMasks(k)}
          /\ masks' = IF failed \/ selected = {} THEN masks
                      ELSE [g \in Topology!GroupsOf(selected) |-> Topology!IndicesIn(selected, g)]
    BY <1>7 DEF Topology!DefaultCpuSets
  <2>2. stage = "default sets" /\ stage' = "count" /\ cpuSets' = cpuSets
    BY <1>7 DEF Topology!DefaultCpuSets, Topology!WindowsStep
  <2>3. ASSUME exact' PROVE WindowsExact'
    <3>1. exact /\ ~failed
      BY <2>1, <2>3 DEF Topology!Answers
    <3>2. system.os = "windows" /\ masks = Affine /\ cpuSets = system.online \ system.elsewhere
      BY <1>2, <2>2, <3>1 DEF WindowsExact
    <3>3. \A k \in system.online : Topology!InMasks(k) <=> k \in system.affinity
      BY <1>1, <3>2, MasksAreAffinity
    <3>4. selected = Selected
      BY <2>1, <3>2 DEF Selected
    <3>5. masks' = Narrowed
      BY <2>1, <3>1, <3>4 DEF Narrowed
    <3>6. {k \in system.online \ system.elsewhere :
             k.group \in DOMAIN Narrowed /\ k.index \in Narrowed[k.group]} = Topology!Usable
      BY <1>1, <3>3, DefaultsNarrow
    <3>7. \A k : Topology!InMasks(k)' <=>
                   k.group \in DOMAIN Narrowed /\ k.index \in Narrowed[k.group]
      BY <3>5 DEF Topology!InMasks
    <3>8. {k \in system'.online \ system'.elsewhere : Topology!InMasks(k)'} = Topology!Usable'
      BY <1>1, <3>6, <3>7
    <3>9. QED BY <1>1, <2>2, <3>2, <3>8 DEF WindowsExact
  <2>4. QED BY <1>3, <2>2, <2>3
<1>8. CASE Topology!CountCores
  <2>1. PICK available : available = {k \in cpuSets : Topology!InMasks(k)}
    OBVIOUS
  <2>2. PICK all, n, m : /\ all = Tallies!FoldedSet(Topology!NoCores, available)
                         /\ n = Cardinality(available) /\ m = Cardinality(DOMAIN all)
    OBVIOUS
  <2>3. all = Topology!FoldSet(
                LAMBDA k, S : Topology!Counted(S, Topology!CoreKey(k), k.performance),
                Topology!NoCores, available)
    BY <2>2 DEF Tallies!FoldedSet, Tallies!FoldSet, Tallies!MapThenFoldSet,
                Topology!FoldSet, Topology!MapThenFoldSet, CountedCpu
  <2>4. stage = "count" /\ stage' = "done" /\ exact' = exact
    BY <1>8 DEF Topology!CountCores, Topology!Return
  <2>5. available # {} => count' = Topology!CpuCount(Topology!Cardinality(available),
                            Topology!Cardinality(DOMAIN all), Topology!DistinguishableClasses(all))
    BY <1>8, <2>1, <2>3 DEF Topology!CountCores, Topology!Return
  <2>6. available # {} => count' = Topology!CpuCount(n, m, Topology!DistinguishableClasses(all))
    BY <2>2, <2>5, SameCardinality
  <2>7. ASSUME exact, Topology!Usable # {}
        PROVE  Matches(count', Topology!Usable, "cpu_capacity" \in system.exposes)
    <3>1. available = Topology!Usable /\ available \subseteq system.online
      BY <1>2, <2>1, <2>4, <2>7 DEF WindowsExact
    <3>2. Numbers(available)
      BY <1>1, <3>1, SystemFits, FS_Subset DEF Numbers
    <3>3. PICK key : key = [k \in available |-> Topology!CoreKey(k)]
      OBVIOUS
    <3>4. CoreKeys(key, available)
      BY <3>3 DEF CoreKeys, Topology!CoreKey
    <3>5. \A a, b \in available : key[a] = key[b] => a.performance = b.performance
      <4> TAKE a \in available, b \in available
      <4>1. key[a] = key[b] <=> <<a.group, a.core>> = <<b.group, b.core>>
        BY <3>4 DEF CoreKeys
      <4>2. key[a] = key[b] => a.group = b.group /\ a.core = b.core
        BY <4>1
      <4>3. a \in system.online /\ b \in system.online
        BY <3>1
      <4>4. QED BY <1>1, <4>2, <4>3, SystemFits
    <3>6. Held(all, key, available) /\ RankedAs(all, key, available)
      BY <2>2, <3>2, <3>3, <3>5, CpusHeld
    <3>7. Tally(all, n)
      BY <2>2, <3>2, CpusTallied DEF Numbers
    <3>8. PICK ranks \in BOOLEAN : ranks <=> "cpu_capacity" \in system.exposes
      OBVIOUS
    <3>9. PICK classes : classes = Topology!DistinguishableClasses(all)
      OBVIOUS
    <3>10. Matches(Topology!CpuCount(n, m, classes), available, ranks)
      BY <2>2, <2>7, <3>1, <3>2, <3>4, <3>6, <3>7, <3>9, HeldMatches DEF Numbers
    <3>11. ranks = ("cpu_capacity" \in system.exposes)
      BY <3>8
    <3>12. QED BY <2>6, <2>7, <3>1, <3>9, <3>10, <3>11
  <2>8. exact /\ Topology!Usable # {} =>
          Matches(count, Topology!Usable, "cpu_capacity" \in system.exposes)'
    BY <1>1, <2>7
  <2>9. QED BY <1>1, <2>4, <2>8 DEF ExactInv
<1>9. QED BY <1>4, <1>5, <1>6, <1>7, <1>8 DEF Topology!Windows

\* CpuTopology: if nothing fails or changes during the call, the counts are those of
\* the CPUs that the process may use, for every affinity, group and set of CPU Sets.
THEOREM CpusMatch ==
  ASSUME Topology!CpuAssumption, Topology!CpusFit
  PROVE  Topology!Spec => []CountsMatchCpus
<1>1. Topology!Init => CpuInv /\ ExactInv
  BY DEF Topology!Init, CpuInv, ExactInv
<1>2. CpuInv /\ ExactInv /\ [Topology!Next]_Topology!vars => CpuInv' /\ ExactInv'
  BY GetKeepsCounts, OtherKeepsCounts, LinuxKeepsCounts, WindowsKeepsCounts,
     GetStaysExact, LinuxStaysExact, WindowsStaysExact
  DEF Topology!Next
<1>3. ExactInv => CountsMatchCpus
  <2> SUFFICES ASSUME ExactInv, stage = "done", exact, system.os # "other", Topology!Usable # {}
               PROVE  CountsMatchCpus
    BY DEF CountsMatchCpus, Topology!CountsMatchCpus
  <2>1. Matches(count, Topology!Usable, "cpu_capacity" \in system.exposes)
    BY DEF ExactInv
  <2> DEFINE usable == Topology!Usable
             levels == {k.performance : k \in usable}
  <2>2. \A some \in SUBSET usable : {<<k.group, k.core>> : k \in some} = Keyed(CoreOf(usable), some)
    BY DEF Keyed, CoreOf
  <2>3. \A p : /\ {k \in usable : k.performance = p} = Level(usable, p)
               /\ {<<k.group, k.core>> : k \in Level(usable, p)} =
                    Keyed(CoreOf(usable), Level(usable, p))
    BY <2>2 DEF Level
  <2>4. /\ count.logical = Topology!Cardinality(usable)
        /\ count.physical = Topology!Cardinality({<<k.group, k.core>> : k \in usable})
    BY <2>1, <2>2, SameCardinality DEF Matches
  <2>5. PICK T : T = [p \in levels |->
                       [performance |-> p,
                        physical |-> Cardinality(Keyed(CoreOf(usable), Level(usable, p))),
                        logical |-> Cardinality(Level(usable, p))]]
    OBVIOUS
  <2>6. "cpu_capacity" \in system.exposes =>
          IF Topology!Cardinality(levels) < 2 THEN count.classes = <<>>
          ELSE Topology!ToSet(count.classes) = {T[p] : p \in levels}
    BY <2>1, <2>5, SameCardinality DEF Matches
  <2> DEFINE Class(p) ==
               [performance |-> p,
                physical |-> Topology!Cardinality(
                               {<<j.group, j.core>> : j \in {k \in usable : k.performance = p}}),
                logical |-> Topology!Cardinality({k \in usable : k.performance = p})]
  <2>7. {T[p] : p \in levels} = {Class(p) : p \in levels}
    <3>1. \A p \in levels : T[p] = Class(p)
      BY <2>3, <2>5, SameCardinality
    <3> HIDE DEF levels, Class
    <3>2. QED BY <3>1
  <2>8. QED BY <2>4, <2>6, <2>7 DEF CountsMatchCpus, Topology!CountsMatchCpus
<1>4. QED BY <1>1, <1>2, <1>3, PTL DEF Topology!Spec

-----------------------------------------------------------------------------
(* ExecutionQueue and BlockingQueue: the theorems of the modules that have *)
(* their proofs, about the properties as they are checked here.            *)

\* ExecutionQueue: however enqueue(), clear() and the pops of several exec() calls
\* interleave, a tag has one task in the queue at most.
THEOREM TagsAreQueuedOnce == Execution!Spec => []OnePerTag
BY Execution!TagsAreQueuedOnce DEF OnePerTag

\* ExecutionQueue: what was pending at the entry of an exec(execAll) is ahead of what
\* is newer.
THEOREM OldestStayFirst == Execution!Spec => []OldestFirst
BY Execution!OldestStayFirst DEF OldestFirst

\* ExecutionQueue: an exec(execAll) that returns has left nothing that was pending at
\* its entry.
THEOREM EntryIsTaken == Execution!Spec => EntryTaken
BY Execution!EntryIsTaken DEF EntryTaken

\* BlockingQueue: a consumer that stays blocked in pop() has for each item in the
\* queue another one on its way.
THEOREM OneNotifyPerItem ==
  ASSUME Queue!QueueAssumption
  PROVE  Queue!Spec => []EachItemWakesOne
BY Queue!OneNotifyPerItem DEF EachItemWakesOne

\* BlockingQueue: once the flag is set and wakeAllThreads() is over, no wait with a
\* predicate is blocked.
THEOREM WakeAllReachesAll ==
  ASSUME Queue!QueueAssumption
  PROVE  Queue!Spec => []FlagReachesAll
BY Queue!WakeAllReachesAll DEF FlagReachesAll

\* BlockingQueue: a wait with a predicate that did not time out ends with an item
\* there or the condition true.
THEOREM PredicateHolds ==
  ASSUME Queue!QueueAssumption
  PROVE  Queue!Spec => PredicateWaitHolds
BY Queue!PredicateHolds DEF PredicateWaitHolds

\* Sha3: however a message is cut into pieces, and whatever its length, its hash is
\* the one of FIPS 202.
THEOREM HashOfMessage ==
  ASSUME Hash!Sha3Assumption
  PROVE  Hash!Spec => []HashIsOfMessage
BY Hash!HashOfMessage DEF HashIsOfMessage
=============================================================================
