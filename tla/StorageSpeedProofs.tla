-------------------------- MODULE StorageSpeedProofs --------------------------
(***************************************************************************)
(* storageSpeedForPath, for every number of callers, all paths, links,     *)
(* firmlinks and mount tables: what the cache holds, which names a walk    *)
(* touches, whose volume a Windows lookup comes up with, and that on Linux *)
(* a walk arrives where the kernel's lookup does.                          *)
(***************************************************************************)
EXTENDS StorageSpeed, Integers, SequenceTheorems, TLAPS

UnixPhases == {"mounts", "walk", "volume"}
TablePhases == {"drive", "search", "first", "reread", "second", "system"}
Phase == {"idle", "name", "refresh", "cache", "query", "return"} \cup UnixPhases \cup TablePhases

TypeOK ==
  /\ platform \in {"unix", "windows"} /\ mounts \in MountingsOf(platform)
  /\ pc \in [Caller -> Phase] /\ at \in [Caller -> Nat \ {0}]
  /\ DOMAIN path = Caller /\ DOMAIN asked = Caller /\ DOMAIN snapshot = Caller
  /\ DOMAIN hopsLeft = Caller /\ DOMAIN volume = Caller
  /\ cacheOwner \in Caller \cup {Nobody}

-----------------------------------------------------------------------------
(* What each step leaves alone.                                            *)

\* A call changes nothing of another one's, nor the platform and the mounts.
Apart(c) ==
  /\ UNCHANGED <<platform, mounts>>
  /\ \A x \in Caller \ {c} :
       /\ pc'[x] = pc[x] /\ path'[x] = path[x] /\ asked'[x] = asked[x]
       /\ snapshot'[x] = snapshot[x] /\ at'[x] = at[x] /\ hopsLeft'[x] = hopsLeft[x]
       /\ volume'[x] = volume[x]

LEMMA WalkSteps ==
  ASSUME SpeedAssumption, TypeOK, NEW c \in Caller, WalkStep(c)
  PROVE  TypeOK' /\ Apart(c) /\ UNCHANGED <<tableVars, cacheVars>>
<1>1. CASE ReadMounts(c)
  BY <1>1 DEF ReadMounts, Goto, UnchangedByWalk, TypeOK, Apart, Phase, UnixPhases, TablePhases,
              tableVars, cacheVars
<1>2. CASE WalkEnds(c)
  BY <1>2 DEF WalkEnds, Goto, UnchangedByWalk, TypeOK, Apart, Phase, UnixPhases, TablePhases,
              tableVars, cacheVars, walkVars
<1>3. CASE NotALink(c)
  BY <1>3 DEF NotALink, UnchangedByWalk, TypeOK, Apart, tableVars, cacheVars
<1>4. CASE FollowLink(c)
  <2>1. PICK target : path' = [path EXCEPT ![c] =
                                 CanonicalPath(Spliced(@, at[c], target), Firmlinks)]
    BY <1>4 DEF FollowLink
  <2>2. QED BY <1>4, <2>1 DEF FollowLink, StartOver, UnchangedByWalk, TypeOK, Apart, tableVars,
                              cacheVars
<1>5. CASE GiveUp(c)
  BY <1>5 DEF GiveUp, Goto, UnchangedByWalk, TypeOK, Apart, Phase, UnixPhases, TablePhases,
              tableVars, cacheVars
<1>6. CASE FindVolume(c)
  BY <1>6 DEF FindVolume, ForgetPath, Goto, UnchangedByWalk, TypeOK, Apart, Phase, UnixPhases,
              TablePhases, tableVars, cacheVars
<1>7. QED BY <1>1, <1>2, <1>3, <1>4, <1>5, <1>6 DEF WalkStep

LEMMA TableSteps ==
  ASSUME SpeedAssumption, TypeOK, NEW c \in Caller, TableStep(c)
  PROVE  /\ TypeOK' /\ Apart(c) /\ UNCHANGED <<asked, walkVars, cacheVars>>
         /\ pc[c] \in TablePhases \cup {"name", "refresh"}
         /\ pc'[c] \in TablePhases \cup {"name", "refresh", "cache", "return"}
<1> USE DEF UnchangedByTable, TypeOK, Apart, Phase, UnixPhases, TablePhases, walkVars, tableVars,
            cacheVars
<1>1. CASE CheckDrive(c)
  BY <1>1 DEF CheckDrive, Goto
<1>2. CASE ReadTable(c) \/ LockTable(c) \/ RefreshTable(c)
  BY <1>2 DEF ReadTable, LockTable, RefreshTable, Goto
<1>3. CASE Hit(c)
  BY <1>3 DEF Hit, Attempting
<1>4. CASE Stale(c) \/ Reread(c) \/ Miss(c)
  BY <1>4 DEF Stale, Reread, Miss, Attempting, Goto
<1>5. CASE AskMountPath(c)
  BY <1>5 DEF AskMountPath, Goto
<1>6. CASE AskVolume(c)
  BY <1>6 DEF AskVolume, Goto
<1>7. QED BY <1>1, <1>2, <1>3, <1>4, <1>5, <1>6 DEF TableStep

LEMMA CacheSteps ==
  ASSUME SpeedAssumption, TypeOK, NEW c \in Caller,
         Call(c) \/ CacheHit(c) \/ CacheMiss(c) \/ Query(c) \/ Return(c)
  PROVE  TypeOK' /\ Apart(c) /\ UNCHANGED tableVars
<1> USE DEF UnchangedByCache, TypeOK, Apart, Phase, UnixPhases, TablePhases, walkVars, tableVars,
            cacheVars, Goto
<1>1. CASE Call(c)
  <2>1. PICK p : /\ asked' = [asked EXCEPT ![c] = p]
                 /\ path' = [path EXCEPT ![c] = CanonicalPath(p, Firmlinks)]
    BY <1>1 DEF Call
  <2>2. QED BY <1>1, <2>1 DEF Call
<1>2. CASE CacheHit(c) \/ CacheMiss(c) \/ Query(c)
  BY <1>2 DEF CacheHit, CacheMiss, Query
<1>3. CASE Return(c)
  BY <1>3 DEF Return, ForgetPath
<1>4. QED BY <1>1, <1>2, <1>3

LEMMA Types == SpeedAssumption /\ TypeOK /\ [Next]_vars => TypeOK'
<1> SUFFICES ASSUME SpeedAssumption, TypeOK, [Next]_vars PROVE TypeOK'  OBVIOUS
<1>1. CASE Remount
  BY <1>1 DEF Remount, TypeOK, walkVars, tableVars, cacheVars
<1>2. CASE UNCHANGED vars
  BY <1>2 DEF vars, TypeOK, walkVars, tableVars, cacheVars
<1>3. QED BY <1>1, <1>2, WalkSteps, TableSteps, CacheSteps DEF Next, Step

-----------------------------------------------------------------------------
(* The cache.                                                              *)

\* The call that queries a volume holds the mutex, and nobody has stored it.
QueryIsAlone == \A c \in Caller : pc[c] = "query" =>
  cacheOwner = c /\ ~BagIn(volume[c], cache)

LEMMA CacheKept ==
  ASSUME TypeOK, QueryIsAlone, OneEntryPerVolume, NEW c \in Caller, Apart(c),
         UNCHANGED cacheVars, pc'[c] # "query", pc[c] # "query"
  PROVE  QueryIsAlone' /\ OneEntryPerVolume'
<1>1. \A x \in Caller : pc'[x] = "query" => x # c
  OBVIOUS
<1>2. QED BY <1>1 DEF Apart, QueryIsAlone, OneEntryPerVolume, cacheVars

LEMMA CacheStep ==
  ASSUME SpeedAssumption, TypeOK, QueryIsAlone, OneEntryPerVolume, [Next]_vars
  PROVE  QueryIsAlone' /\ OneEntryPerVolume'
<1>1. CASE Remount \/ UNCHANGED vars
  BY <1>1 DEF Remount, vars, QueryIsAlone, OneEntryPerVolume, cacheVars
<1>2. ASSUME NEW c \in Caller, WalkStep(c) PROVE QueryIsAlone' /\ OneEntryPerVolume'
  <2>1. pc[c] # "query" /\ pc'[c] # "query"
    BY <1>2 DEF WalkStep, ReadMounts, WalkEnds, NotALink, Walking, FollowLink, GiveUp, FindVolume,
                Goto, TypeOK
  <2>2. QED BY <1>2, <2>1, WalkSteps, CacheKept
<1>3. ASSUME NEW c \in Caller, TableStep(c) PROVE QueryIsAlone' /\ OneEntryPerVolume'
  <2>1. pc[c] # "query" /\ pc'[c] # "query"
    BY <1>3, TableSteps DEF TablePhases
  <2>2. QED BY <1>3, <2>1, TableSteps, CacheKept
<1>4. ASSUME NEW c \in Caller, Call(c) \/ CacheHit(c) \/ Return(c)
      PROVE  QueryIsAlone' /\ OneEntryPerVolume'
  <2>1. pc[c] # "query" /\ pc'[c] # "query" /\ UNCHANGED cacheVars
    BY <1>4 DEF Call, CacheHit, Return, Goto, TypeOK
  <2>2. QED BY <1>4, <2>1, CacheSteps, CacheKept
<1>5. ASSUME NEW c \in Caller, CacheMiss(c) PROVE QueryIsAlone' /\ OneEntryPerVolume'
  <2>1. \A x \in Caller : pc[x] # "query"
    BY <1>5 DEF CacheMiss, QueryIsAlone, SpeedAssumption
  <2>2. \A x \in Caller : x # c => pc'[x] # "query"
    BY <1>5, <2>1, CacheSteps DEF Apart
  <2>3. cacheOwner' = c /\ ~BagIn(volume'[c], cache') /\ UNCHANGED cache
    BY <1>5 DEF CacheMiss, UnchangedByCache
  <2>4. QED BY <2>2, <2>3 DEF QueryIsAlone, OneEntryPerVolume
<1>6. ASSUME NEW c \in Caller, Query(c) PROVE QueryIsAlone' /\ OneEntryPerVolume'
  <2>1. cacheOwner = c /\ volume[c] \notin DOMAIN cache
    BY <1>6 DEF Query, Goto, QueryIsAlone, BagIn, BagToSet
  <2>2. \A x \in Caller : pc'[x] # "query"
    BY <1>6, <2>1, CacheSteps DEF Query, Goto, QueryIsAlone, Apart, TypeOK
  <2>3. cache' = [v \in DOMAIN cache \cup {volume[c]} |-> IF v = volume[c] THEN 1 ELSE cache[v]]
    BY <1>6, <2>1 DEF Query, BagAdd
  <2>4. \A v \in DOMAIN cache : cache[v] = 1
    BY DEF OneEntryPerVolume, BagIn, BagToSet
  <2>5. \A v \in DOMAIN cache' : cache'[v] = 1
    BY <2>3, <2>4
  <2>6. QED BY <2>2, <2>5 DEF QueryIsAlone, OneEntryPerVolume, BagIn, BagToSet
<1>7. QED BY <1>1, <1>2, <1>3, <1>4, <1>5, <1>6 DEF Next, Step

-----------------------------------------------------------------------------
(* The walk.                                                               *)

\* Behind the name the walk looks at, all are on local storage, and none is a link.
BehindIsLocal == \A c \in Caller : pc[c] = "walk" =>
  \A n \in 1 .. at[c] - 1 : LET folder == SubSeq(path[c], 1, n) IN
    MountForPath(snapshot[c], folder).local /\ folder \notin DOMAIN Links

LEMMA WalkKept ==
  ASSUME BehindIsLocal, NEW c \in Caller, Apart(c), pc'[c] # "walk"
  PROVE  BehindIsLocal'
BY DEF Apart, BehindIsLocal

LEMMA WalkingStep ==
  ASSUME SpeedAssumption, TypeOK, BehindIsLocal, [Next]_vars
  PROVE  BehindIsLocal'
<1>1. CASE Remount \/ UNCHANGED vars
  BY <1>1 DEF Remount, vars, BehindIsLocal, walkVars
<1>2. ASSUME NEW c \in Caller, TableStep(c) PROVE BehindIsLocal'
  BY <1>2, TableSteps, WalkKept DEF TablePhases
<1>3. ASSUME NEW c \in Caller,
             Call(c) \/ CacheHit(c) \/ CacheMiss(c) \/ Query(c) \/ Return(c)
      PROVE  BehindIsLocal'
  <2>1. pc'[c] # "walk"
    BY <1>3 DEF Call, CacheHit, CacheMiss, Query, Return, Goto, TypeOK
  <2>2. QED BY <1>3, <2>1, CacheSteps, WalkKept
<1>4. ASSUME NEW c \in Caller, WalkEnds(c) \/ GiveUp(c) \/ FindVolume(c) PROVE BehindIsLocal'
  <2>1. pc'[c] # "walk" /\ WalkStep(c)
    BY <1>4 DEF WalkEnds, GiveUp, FindVolume, Goto, WalkStep, TypeOK
  <2>2. QED BY <2>1, WalkSteps, WalkKept
<1>5. ASSUME NEW c \in Caller, ReadMounts(c) \/ FollowLink(c) PROVE BehindIsLocal'
  <2>1. at'[c] = 1 /\ Apart(c)
    BY <1>5, WalkSteps DEF ReadMounts, FollowLink, StartOver, WalkStep, TypeOK
  <2>2. QED BY <2>1 DEF Apart, BehindIsLocal
<1>6. ASSUME NEW c \in Caller, NotALink(c) PROVE BehindIsLocal'
  <2>1. /\ at'[c] = at[c] + 1 /\ at[c] \in Nat \ {0} /\ pc[c] = "walk" /\ Apart(c)
        /\ path'[c] = path[c] /\ snapshot'[c] = snapshot[c]
    BY <1>6, WalkSteps DEF NotALink, Walking, WalkStep, TypeOK
  <2>2. LET folder == SubSeq(path[c], 1, at[c]) IN
          MountForPath(snapshot[c], folder).local /\ folder \notin DOMAIN Links
    BY <1>6 DEF NotALink, Walking, PrefixMount, Prefix, Link
  <2>3. \A n \in 1 .. at'[c] - 1 : n = at[c] \/ n \in 1 .. at[c] - 1
    BY <2>1
  <2>4. QED BY <2>1, <2>2, <2>3 DEF Apart, BehindIsLocal
<1>7. QED BY <1>1, <1>2, <1>3, <1>4, <1>5, <1>6 DEF Next, Step, WalkStep

-----------------------------------------------------------------------------
(* The mount table of Windows.                                             *)

\* Paths and mount points are sequences of names, and no firmlink is on a path.
WindowsPaths(Name) ==
  /\ PathsOf("windows") \subseteq Seq(Name)
  /\ \A ms \in MountingsOf("windows") : \A m \in Range(ms) : m.point \in Seq(Name)
  /\ \A p \in PathsOf("windows"), f \in DOMAIN Firmlinks : ~IsWithinFolder(p, f)

\* No volume is mounted within another one.
NoFolderMounts == \A ms \in MountingsOf("windows") : \A k, m \in Range(ms) :
  IsWithinFolder(m.point, k.point) => m = k

EnumeratedIn(ms) == {{m \in Range(ms) : m.guid /\ OnDrive(m.point)}}
TableWasRead == table # {} => \E ms \in MountingsOf("windows") : table = EnumeratedIn(ms)

\* Whatever the table held, the path stays the one asked for, until the system is
\* asked for the mount path it is under.
IsAsked(c) ==
  /\ pc[c] \notin UnixPhases
  /\ pc[c] \in TablePhases => path[c] = asked[c] /\ asked[c] \in PathsOf("windows")
  /\ pc[c] = "name" => /\ asked[c] \in PathsOf("windows")
                       /\ Under(asked[c], path[c]) \/ asked[c] = path[c]
PathIsAsked == \A c \in Caller : IsAsked(c)

WindowsInv == platform = "windows" => TableWasRead /\ PathIsAsked

\* Two folders that hold the same path hold one another.
LEMMA OneHoldsTheOther ==
  ASSUME NEW Name, NEW p \in Seq(Name), NEW a \in Seq(Name), NEW b \in Seq(Name),
         IsWithinFolder(p, a), IsWithinFolder(p, b)
  PROVE  IsWithinFolder(a, b) \/ IsWithinFolder(b, a)
<1>1. ASSUME NEW x \in Seq(Name), NEW y \in Seq(Name), IsWithinFolder(p, x), IsWithinFolder(p, y),
             Len(x) <= Len(y)
      PROVE  IsWithinFolder(y, x)
  <2>1. /\ Len(x) \in Nat /\ Len(y) \in Nat /\ Len(p) \in Nat
        /\ Len(x) <= Len(p) /\ Len(y) <= Len(p)
    BY <1>1, LenProperties DEF IsWithinFolder, IsPrefix
  <2>2. \A n \in 1 .. Len(x) : x[n] = p[n]
    <3>1. SubSeq(x, 1, Len(x)) = SubSeq(p, 1, Len(x))
      BY <1>1 DEF IsWithinFolder, IsPrefix
    <3>2. \A n \in 1 .. Len(x) :
            SubSeq(x, 1, Len(x))[n] = x[n] /\ SubSeq(p, 1, Len(x))[n] = p[n]
      BY <2>1, SubSeqProperties
    <3>3. QED BY <3>1, <3>2
  <2>3. \A n \in 1 .. Len(y) : y[n] = p[n]
    <3>1. SubSeq(y, 1, Len(y)) = SubSeq(p, 1, Len(y))
      BY <1>1 DEF IsWithinFolder, IsPrefix
    <3>2. \A n \in 1 .. Len(y) :
            SubSeq(y, 1, Len(y))[n] = y[n] /\ SubSeq(p, 1, Len(y))[n] = p[n]
      BY <2>1, SubSeqProperties
    <3>3. QED BY <3>1, <3>2
  <2>4. SubSeq(x, 1, Len(x)) = SubSeq(y, 1, Len(x))
    BY <1>1, <2>1, <2>2, <2>3
  <2>5. QED BY <1>1, <2>4 DEF IsWithinFolder, IsPrefix
<1>2. Len(a) <= Len(b) \/ Len(b) <= Len(a)
  BY LenProperties
<1>3. QED BY <1>1, <1>2

\* Hence a path is in one mounted volume at most, and this is the deepest one.
LEMMA OneVolumeHolds ==
  ASSUME NEW Name, WindowsPaths(Name), NoFolderMounts,
         NEW ms \in MountingsOf("windows"), NEW p \in PathsOf("windows"),
         NEW S \in SUBSET Range(ms), NEW m \in S,
         \A k \in S : Under(p, k.point) \/ p = k.point
  PROVE  Deepest(S) = m
<1>1. \A k \in Range(ms) : k.point \in Seq(Name) /\ Len(k.point) \in Nat
  BY LenProperties DEF WindowsPaths
<1>2. \A k \in S : IsWithinFolder(p, k.point)
  BY <1>1 DEF Under, IsStrictPrefix, IsWithinFolder, IsPrefix
<1>3. p \in Seq(Name)
  BY DEF WindowsPaths
<1>4. \A k \in S : k = m
  <2> TAKE k \in S
  <2>1. IsWithinFolder(k.point, m.point) \/ IsWithinFolder(m.point, k.point)
    BY <1>1, <1>2, <1>3, OneHoldsTheOther
  <2>2. QED BY <2>1 DEF NoFolderMounts
<1>5. Len(m.point) <= Len(m.point)
  BY <1>1
<1>6. QED BY <1>4, <1>5 DEF Deepest

LEMMA TableKept ==
  ASSUME WindowsInv, NEW c \in Caller, Apart(c), platform = "windows",
         table' = table \/ TableWasRead',
         pc'[c] \in {"idle", "refresh", "cache", "query", "return"} \/ IsAsked(c)'
  PROVE  WindowsInv'
<1>1. TableWasRead'
  BY DEF WindowsInv, TableWasRead
<1>2. IsAsked(c)'
  BY DEF IsAsked, UnixPhases, TablePhases
<1>3. \A x \in Caller \ {c} : IsAsked(x)'
  <2> TAKE x \in Caller \ {c}
  <2>1. IsAsked(x)
    BY DEF WindowsInv, PathIsAsked
  <2>2. pc'[x] = pc[x] /\ path'[x] = path[x] /\ asked'[x] = asked[x]
    BY DEF Apart
  <2>3. QED BY <2>1, <2>2 DEF IsAsked, Under, IsStrictPrefix
<1>4. QED BY <1>1, <1>2, <1>3 DEF WindowsInv, PathIsAsked

LEMMA WindowsStep ==
  ASSUME SpeedAssumption, TypeOK, WindowsInv, [Next]_vars,
         NEW Name, WindowsPaths(Name), NoFolderMounts
  PROVE  WindowsInv'
<1> SUFFICES ASSUME platform = "windows" PROVE WindowsInv'
  <2>1. platform' = platform
    BY WalkSteps, TableSteps, CacheSteps DEF Next, Step, Remount, vars, Apart
  <2>2. QED BY <2>1 DEF WindowsInv
<1>1. CASE Remount \/ UNCHANGED vars
  BY <1>1 DEF Remount, vars, WindowsInv, TableWasRead, PathIsAsked, IsAsked, Under, tableVars
<1>2. ASSUME NEW c \in Caller, WalkStep(c) PROVE FALSE
  <2>1. pc[c] \in UnixPhases
    BY <1>2 DEF WalkStep, ReadMounts, WalkEnds, NotALink, Walking, FollowLink, GiveUp, FindVolume,
                Goto, UnixPhases
  <2>2. QED BY <2>1 DEF WindowsInv, PathIsAsked, IsAsked
<1>3. ASSUME NEW c \in Caller, Call(c) PROVE WindowsInv'
  <2>1. PICK p \in PathsOf("windows") : /\ asked' = [asked EXCEPT ![c] = p]
                                        /\ path' = [path EXCEPT ![c] = CanonicalPath(p, Firmlinks)]
    BY <1>3 DEF Call
  <2>2. CanonicalPath(p, Firmlinks) = p
    BY DEF CanonicalPath, WindowsPaths
  <2>3. pc'[c] \in {"drive", "return"} /\ Apart(c) /\ table' = table
    <3>1. PICK to \in {"return", "drive"} : pc' = [pc EXCEPT ![c] = to]
      BY <1>3 DEF Call, Goto
    <3>2. pc'[c] = to
      BY <3>1 DEF TypeOK
    <3>3. Apart(c) /\ table' = table
      BY <1>3, CacheSteps DEF Call, tableVars
    <3>4. QED BY <3>1, <3>2, <3>3
  <2>4. path'[c] = p /\ asked'[c] = p
    BY <2>1, <2>2 DEF TypeOK
  <2>5. IsAsked(c)'
    BY <2>3, <2>4 DEF IsAsked, UnixPhases, TablePhases
  <2>6. QED BY <2>3, <2>5, TableKept
<1>4. ASSUME NEW c \in Caller, CacheHit(c) \/ CacheMiss(c) \/ Query(c) \/ Return(c)
      PROVE  WindowsInv'
  <2>1. pc'[c] \in {"idle", "query", "return"}
    BY <1>4 DEF CacheHit, CacheMiss, Query, Return, Goto, TypeOK
  <2>2. table' = table /\ Apart(c)
    BY <1>4, CacheSteps DEF tableVars
  <2>3. QED BY <2>1, <2>2, TableKept
<1>5. ASSUME NEW c \in Caller, TableStep(c) PROVE WindowsInv'
  <2>1. TableWasRead'
    <3>1. table' = table \/ table' = EnumeratedIn(mounts)
      BY <1>5 DEF TableStep, CheckDrive, ReadTable, LockTable, Hit, Stale, Reread, Miss,
                  AskMountPath, AskVolume, RefreshTable, Enumerated, EnumeratedIn, tableVars
    <3>2. QED BY <3>1 DEF WindowsInv, TableWasRead, TypeOK
  <2>2. Apart(c) /\ asked' = asked
    BY <1>5, TableSteps
  <2>3. CASE pc'[c] \in {"refresh", "cache", "return"}
    BY <2>1, <2>2, <2>3, TableKept
  <2>4. CASE pc'[c] \in TablePhases
    <3>1. pc[c] \in TablePhases /\ path' = path
      BY <1>5, <2>4 DEF TableStep, CheckDrive, ReadTable, LockTable, Hit, Stale, Reread, Miss,
                        Attempting, AskMountPath, AskVolume, RefreshTable, Goto, TypeOK, TablePhases
    <3>2. IsAsked(c)
      BY DEF WindowsInv, PathIsAsked
    <3>3. IsAsked(c)'
      BY <2>2, <2>4, <3>1, <3>2 DEF IsAsked, UnixPhases, TablePhases
    <3>4. QED BY <2>1, <2>2, <3>3, TableKept
  <2>5. CASE pc'[c] = "name"
    <3> DEFINE S == SystemMounts(path[c])
    <3>1. AskMountPath(c)
      BY <1>5, <2>5 DEF TableStep, CheckDrive, ReadTable, LockTable, Hit, Stale, Reread, Miss,
                        AskMountPath, AskVolume, RefreshTable, Goto, TypeOK
    <3>2. pc[c] = "system" /\ S # {} /\ path'[c] = Deepest(S).point
      BY <2>5, <3>1 DEF AskMountPath, Goto, TypeOK
    <3>3. path[c] = asked[c] /\ asked[c] \in PathsOf("windows")
      BY <3>2 DEF WindowsInv, PathIsAsked, IsAsked, TablePhases
    <3>4. PICK m \in S : TRUE
      BY <3>2
    <3>5. Deepest(S) = m
      <4>1. S \subseteq Range(mounts) /\ \A k \in S : Under(path[c], k.point) \/ path[c] = k.point
        BY DEF SystemMounts
      <4>2. mounts \in MountingsOf("windows")
        BY DEF TypeOK
      <4>3. QED BY <3>3, <3>4, <4>1, <4>2, OneVolumeHolds
    <3>6. Under(asked[c], m.point) \/ asked[c] = m.point
      BY <3>3, <3>4 DEF SystemMounts
    <3>7. IsAsked(c)'
      BY <2>2, <2>5, <3>2, <3>3, <3>5, <3>6
         DEF IsAsked, Under, IsStrictPrefix, UnixPhases, TablePhases
    <3>8. QED BY <2>1, <2>2, <3>7, TableKept
  <2>6. QED BY <1>5, <2>3, <2>4, <2>5, TableSteps
<1>6. QED BY <1>1, <1>2, <1>3, <1>4, <1>5 DEF Next, Step

-----------------------------------------------------------------------------
(* Paths in which names climb.                                             *)

Normal == INSTANCE Folding WITH Op <- Climb

Ordinary(Name) == Seq(Name \ {".."})

\* It climbs u times, and then no more.
Climbs(names, u) ==
  u \in 0 .. Len(names) /\ \A n \in 1 .. Len(names) : names[n] = ".." <=> n <= u

\* The folder that names lead to from dir, if there are no links.
From(dir, names) == FoldLeft(Climb, dir, names)

\* It is reached through the folders h.
Through(h, dir, names, n) ==
  h[0] = dir /\ \A i \in 1 .. n : h[i] = Climb(h[i - 1], names[i])

LEMMA FromIs ==
  ASSUME NEW dir, NEW names, NEW n \in Nat, DOMAIN names = 1 .. n,
         NEW h, Through(h, dir, names, n)
  PROVE  From(dir, names) = h[n]
<1>1. From(dir, names) = Normal!Folded(dir, names)
  BY DEF From, Normal!Folded, FoldLeft, MapThenFoldSet, Max,
         Normal!FoldLeft, Normal!MapThenFoldSet, Normal!Max
<1>2. QED BY <1>1, Normal!FoldedIs DEF Through

LEMMA FromPrefixes ==
  ASSUME NEW dir, NEW names, NEW n \in Nat, DOMAIN names = 1 .. n
  PROVE  \E h : Through(h, dir, names, n) /\ h[n] = From(dir, names)
<1>1. From(dir, names) = Normal!Folded(dir, names)
  BY DEF From, Normal!Folded, FoldLeft, MapThenFoldSet, Max,
         Normal!FoldLeft, Normal!MapThenFoldSet, Normal!Max
<1>2. PICK it : Normal!AlongPrefixes(it, dir, names, n)
  BY Normal!FoldedAlongPrefixes
<1>3. PICK h : h = [i \in 0 .. n |-> it[1 .. i]]
  OBVIOUS
<1>4. ASSUME NEW i \in 1 .. n PROVE h[i] = Climb(h[i - 1], names[i])
  <2>1. PICK k \in 0 .. n - 1 : i = k + 1
    OBVIOUS
  <2>2. it[1 .. k + 1] = Climb(it[1 .. k], names[k + 1])
    BY <1>2 DEF Normal!AlongPrefixes
  <2>3. h[i] = it[1 .. k + 1] /\ h[i - 1] = it[1 .. k]
    BY <1>3, <2>1
  <2>4. QED BY <2>1, <2>2, <2>3
<1>5. h[0] = dir /\ h[n] = From(dir, names)
  BY <1>1, <1>2, <1>3 DEF Normal!AlongPrefixes
<1>6. QED BY <1>4, <1>5 DEF Through

\* The first name is taken first.
LEMMA FromTail ==
  ASSUME NEW Name, NEW dir, NEW names \in Seq(Name), names # <<>>
  PROVE  From(dir, names) = From(Climb(dir, Head(names)), Tail(names))
<1>1. PICK n \in Nat, m \in Nat : n = Len(Tail(names)) /\ m = n + 1
  BY LenProperties, HeadTailProperties
<1>2. /\ DOMAIN names = 1 .. m /\ DOMAIN Tail(names) = 1 .. n
      /\ names[1] = Head(names) /\ \A i \in 1 .. n : Tail(names)[i] = names[i + 1]
  <2>1. Len(names) = m
    BY <1>1, HeadTailProperties, LenProperties
  <2>2. QED BY <1>1, <2>1, HeadTailProperties, LenProperties
<1>3. PICK h : Through(h, dir, names, m) /\ h[m] = From(dir, names)
  BY <1>2, FromPrefixes
<1>4. PICK g : g = [i \in 0 .. n |-> h[i + 1]]
  OBVIOUS
<1>5. g[0] = Climb(dir, Head(names)) /\ g[n] = From(dir, names)
  <2>1. h[1] = Climb(h[0], names[1])
    BY <1>1, <1>3, 1 \in 1 .. m, 1 - 1 = 0 DEF Through
  <2>2. g[0] = h[1] /\ g[n] = h[m]
    BY <1>1, <1>4
  <2>3. QED BY <1>2, <1>3, <2>1, <2>2 DEF Through
<1>6. ASSUME NEW i \in 1 .. n PROVE g[i] = Climb(g[i - 1], Tail(names)[i])
  <2>1. h[i + 1] = Climb(h[i], names[i + 1])
    BY <1>1, <1>3, i + 1 \in 1 .. m, (i + 1) - 1 = i DEF Through
  <2>2. g[i] = h[i + 1] /\ g[i - 1] = h[i]
    BY <1>4
  <2>3. QED BY <1>2, <2>1, <2>2
<1>7. Through(g, Climb(dir, Head(names)), Tail(names), n)
  BY <1>5, <1>6 DEF Through
<1>8. PICK start, rest : start = Climb(dir, Head(names)) /\ rest = Tail(names)
  OBVIOUS
<1>9. From(start, rest) = g[n]
  BY <1>2, <1>7, <1>8, FromIs
<1>10. QED BY <1>5, <1>8, <1>9

LEMMA FromOrdinary ==
  ASSUME NEW Name, NEW dir \in Seq(Name), NEW names \in Ordinary(Name)
  PROVE  From(dir, names) = dir \o names
<1>1. PICK n \in Nat : n = Len(names)
  BY LenProperties DEF Ordinary
<1>2. names \in Seq(Name) /\ DOMAIN names = 1 .. n
  BY <1>1, SeqMonotonic, LenProperties DEF Ordinary
<1>3. PICK h : h = [i \in 0 .. n |-> dir \o SubSeq(names, 1, i)]
  OBVIOUS
<1>4. h[0] = dir /\ h[n] = dir \o names
  <2>1. SubSeq(names, 1, 0) = <<>> /\ SubSeq(names, 1, n) = names
    BY <1>1, <1>2, SubSeqEmpty, SubSeqFull
  <2>2. dir \o <<>> = dir
    BY ConcatEmptySeq
  <2>3. h[0] = dir \o SubSeq(names, 1, 0) /\ h[n] = dir \o SubSeq(names, 1, n)
    BY <1>3
  <2>4. QED BY <2>1, <2>2, <2>3
<1>5. ASSUME NEW i \in 1 .. n PROVE h[i] = Climb(h[i - 1], names[i])
  <2>1. names[i] # ".." /\ names[i] \in Name
    BY <1>1, ElementOfSeq DEF Ordinary
  <2>2. SubSeq(names, 1, i - 1) \in Seq(Name)
    <3>1. \A j \in 1 .. i - 1 : names[j] \in Name
      BY <1>1, <1>2, ElementOfSeq
    <3>2. QED BY <3>1, SubSeqProperties
  <2>3. SubSeq(names, 1, i) = SubSeq(names, 1, i - 1) \o <<names[i]>>
    BY <1>1, <1>2, SubSeqRecursiveSecond, 1 \in 1 .. n
  <2>4. Append(dir \o SubSeq(names, 1, i - 1), names[i])
          = (dir \o SubSeq(names, 1, i - 1)) \o <<names[i]>>
    BY <2>1, <2>2, ConcatProperties, AppendIsConcat
  <2>5. (dir \o SubSeq(names, 1, i - 1)) \o <<names[i]>> = dir \o SubSeq(names, 1, i)
    <3>1. <<names[i]>> \in Seq(Name)
      BY <2>1
    <3>2. \A a, b \in Seq(Name) : (dir \o a) \o b = dir \o (a \o b)
      BY ConcatAssociative
    <3>3. QED BY <2>2, <2>3, <3>1, <3>2
  <2>6. h[i - 1] = dir \o SubSeq(names, 1, i - 1) /\ h[i] = dir \o SubSeq(names, 1, i)
    BY <1>3
  <2>7. QED BY <2>1, <2>4, <2>5, <2>6 DEF Climb
<1>6. Through(h, dir, names, n)
  BY <1>4, <1>5 DEF Through
<1>7. QED BY <1>2, <1>4, <1>6, FromIs

\* A path without climbs leads to its folder.
LEMMA FromRoot ==
  ASSUME NEW Name, NEW dir \in Ordinary(Name), NEW names \in Seq(Name)
  PROVE  LexicallyNormal(dir \o names) = From(dir, names)
<1>1. PICK d \in Nat, n \in Nat : d = Len(dir) /\ n = Len(names)
  BY LenProperties DEF Ordinary
<1>2. dir \in Seq(Name) /\ DOMAIN names = 1 .. n /\ DOMAIN dir = 1 .. d
  BY <1>1, SeqMonotonic, LenProperties DEF Ordinary
<1>3. PICK g : Through(g, <<>>, dir, d) /\ g[d] = From(<<>>, dir)
  BY <1>2, FromPrefixes
<1>4. PICK h : Through(h, dir, names, n) /\ h[n] = From(dir, names)
  BY <1>2, FromPrefixes
<1>5. g[d] = dir
  <2>1. <<>> \in Seq(Name)
    BY EmptySeq
  <2>2. QED BY <1>2, <1>3, <2>1, FromOrdinary, ConcatEmptySeq
<1>6. PICK p : p = dir \o names
  OBVIOUS
<1>7. /\ DOMAIN p = 1 .. d + n
      /\ \A i \in 1 .. d + n : p[i] = IF i <= d THEN dir[i] ELSE names[i - d]
  BY <1>1, <1>2, <1>6, ConcatProperties, LenProperties
<1>8. PICK f : f = [i \in 0 .. d + n |-> IF i <= d THEN g[i] ELSE h[i - d]]
  OBVIOUS
<1>9. f[0] = <<>> /\ f[d + n] = From(dir, names)
  <2>1. f[0] = g[0]
    BY <1>8
  <2>2. f[d + n] = h[n]
    <3>1. n = 0 => f[d + n] = g[d]
      BY <1>8
    <3>2. n # 0 => f[d + n] = h[n]
      <4>1. n # 0 => d + n \in 0 .. d + n /\ ~(d + n <= d) /\ (d + n) - d = n
        OBVIOUS
      <4>2. QED BY <1>8, <4>1
    <3>3. QED BY <1>4, <1>5, <3>1, <3>2 DEF Through
  <2>3. QED BY <1>3, <1>4, <2>1, <2>2 DEF Through
<1>10. ASSUME NEW i \in 1 .. d + n PROVE f[i] = Climb(f[i - 1], p[i])
  <2>1. CASE i <= d
    <3>1. f[i] = g[i] /\ f[i - 1] = g[i - 1] /\ i \in 1 .. d
      BY <1>8, <2>1
    <3>2. QED BY <1>3, <1>7, <2>1, <3>1 DEF Through
  <2>2. CASE i > d
    <3>1. f[i] = h[i - d] /\ i - d \in 1 .. n /\ p[i] = names[i - d]
      BY <1>7, <1>8, <2>2
    <3>2. f[i - 1] = h[(i - d) - 1]
      <4>1. CASE i - 1 = d
        BY <1>4, <1>5, <1>8, <4>1 DEF Through
      <4>2. CASE i - 1 > d
        <5>1. i - 1 \in 0 .. d + n /\ ~(i - 1 <= d) /\ (i - 1) - d = (i - d) - 1
          BY <4>2
        <5>2. QED BY <1>8, <5>1
      <4>3. QED BY <2>2, <4>1, <4>2
    <3>3. QED BY <1>4, <3>1, <3>2 DEF Through
  <2>3. QED BY <2>1, <2>2
<1>11. From(<<>>, p) = From(dir, names)
  <2>1. Through(f, <<>>, p, d + n) /\ d + n \in Nat
    BY <1>9, <1>10 DEF Through
  <2>2. QED BY <1>7, <1>9, <2>1, FromIs
<1>12. QED BY <1>6, <1>11 DEF From, LexicallyNormal

-----------------------------------------------------------------------------
(* The kernel's lookup.                                                    *)

Kernel == INSTANCE Folding WITH Op <- KernelStep

\* A link more takes no more steps than its target has names.
LEMMA Bounds ==
  ASSUME SpeedAssumption
  PROVE  /\ WalkBound \in Nat /\ MaxNames * 1 = MaxNames
         /\ \A l \in 0 .. MaxHops :
              /\ MaxNames * (l + 1) \in Nat /\ MaxNames * (l + 1) <= WalkBound
              /\ MaxNames * ((l + 1) + 1) = MaxNames * (l + 1) + MaxNames
<1>1. MaxNames \in Nat /\ MaxHops \in Nat
  BY DEF SpeedAssumption
<1>2. ASSUME NEW l \in 0 .. MaxHops PROVE MaxNames * (l + 1) <= MaxNames * (MaxHops + 1)
  <2>1. PICK m \in Nat : MaxHops + 1 = (l + 1) + m
    BY <1>1, MaxHops - l \in Nat
  <2>2. MaxNames * ((l + 1) + m) = MaxNames * (l + 1) + MaxNames * m /\ MaxNames * m \in Nat
    BY <1>1
  <2>3. MaxNames * (l + 1) \in Nat
    BY <1>1
  <2>4. QED BY <2>1, <2>2, <2>3
<1>3. ASSUME NEW l \in 0 .. MaxHops
      PROVE  /\ MaxNames * (l + 1) \in Nat
             /\ MaxNames * ((l + 1) + 1) = MaxNames * (l + 1) + MaxNames
  BY <1>1
<1>4. QED BY <1>1, <1>2, <1>3 DEF WalkBound

\* Where a lookup stands.
Standing(dir_, rest_, links_) == [dir |-> dir_, rest |-> rest_, links |-> links_]

\* w is the lookup of p up to its step k.
Looks(w, mounted, p, k) ==
  w[0] = Lookup(p) /\ \A i \in 1 .. k : w[i] = KernelStep(w[i - 1], mounted)
Reaches(mounted, p, s, k) == \E w : Looks(w, mounted, p, k) /\ w[k] = s

LEMMA ReachesFirst ==
  ASSUME NEW mounted, NEW p
  PROVE  Reaches(mounted, p, Lookup(p), 0)
<1>1. PICK w : w = [i \in {0} |-> Lookup(p)]
  OBVIOUS
<1>2. Looks(w, mounted, p, 0) /\ w[0] = Lookup(p)
  BY <1>1 DEF Looks
<1>3. QED BY <1>2 DEF Reaches

LEMMA ReachesNext ==
  ASSUME NEW mounted, NEW p, NEW s, NEW k \in Nat, Reaches(mounted, p, s, k)
  PROVE  Reaches(mounted, p, KernelStep(s, mounted), k + 1)
<1>1. PICK w : Looks(w, mounted, p, k) /\ w[k] = s
  BY DEF Reaches
<1>2. PICK v : v = [i \in 0 .. k + 1 |-> IF i <= k THEN w[i] ELSE KernelStep(s, mounted)]
  OBVIOUS
<1>3. ASSUME NEW i \in 1 .. k + 1 PROVE v[i] = KernelStep(v[i - 1], mounted)
  <2>1. CASE i <= k
    <3>1. v[i] = w[i] /\ v[i - 1] = w[i - 1] /\ i \in 1 .. k
      BY <1>2, <2>1
    <3>2. QED BY <1>1, <3>1 DEF Looks
  <2>2. CASE i = k + 1
    <3>1. v[i] = KernelStep(s, mounted) /\ v[i - 1] = w[k]
      BY <1>2, <2>2
    <3>2. QED BY <1>1, <3>1
  <2>3. QED BY <2>1, <2>2
<1>4. v[0] = Lookup(p) /\ v[k + 1] = KernelStep(s, mounted)
  BY <1>1, <1>2 DEF Looks
<1>5. QED BY <1>3, <1>4 DEF Reaches, Looks

\* The whole lookup goes through what is reached.
LEMMA WalkGoesThrough ==
  ASSUME SpeedAssumption, NEW mounted, NEW p, NEW s, NEW k \in Nat, k <= WalkBound,
         Reaches(mounted, p, s, k)
  PROVE  \E w : /\ Looks(w, mounted, p, WalkBound)
                /\ w[k] = s /\ w[WalkBound] = KernelWalk(mounted, p)
<1>1. PICK n \in Nat : n = WalkBound
  BY Bounds
<1>2. PICK seq : seq = [i \in 1 .. n |-> mounted]
  OBVIOUS
<1>3. DOMAIN seq = 1 .. n /\ \A i \in 1 .. n : seq[i] = mounted
  BY <1>2
<1>4. PICK it : Kernel!AlongPrefixes(it, Lookup(p), seq, n)
  BY <1>3, Kernel!FoldedAlongPrefixes
<1>5. PICK w : w = [i \in 0 .. n |-> it[1 .. i]]
  OBVIOUS
<1>6. ASSUME NEW i \in 1 .. n PROVE w[i] = KernelStep(w[i - 1], mounted)
  <2>1. PICK j \in 0 .. n - 1 : i = j + 1
    OBVIOUS
  <2>2. it[1 .. j + 1] = KernelStep(it[1 .. j], seq[j + 1])
    BY <1>4, <2>1 DEF Kernel!AlongPrefixes
  <2>3. w[i] = it[1 .. j + 1] /\ w[i - 1] = it[1 .. j] /\ seq[j + 1] = mounted
    BY <1>3, <1>5, <2>1
  <2>4. QED BY <2>1, <2>2, <2>3
<1>7. Looks(w, mounted, p, n)
  <2>1. w[0] = it[1 .. 0]
    BY <1>5
  <2>2. QED BY <1>4, <1>6, <2>1 DEF Looks, Kernel!AlongPrefixes
<1>8. w[n] = KernelWalk(mounted, p)
  <2>1. KernelWalk(mounted, p) = Kernel!Folded(Lookup(p), seq)
    BY <1>1, <1>2
    DEF KernelWalk, Kernel!Folded, FoldLeft, MapThenFoldSet, Max,
        Kernel!FoldLeft, Kernel!MapThenFoldSet, Kernel!Max
  <2>2. QED BY <1>4, <1>5, <2>1 DEF Kernel!AlongPrefixes
<1>9. w[k] = s
  <2>1. PICK v : Looks(v, mounted, p, k) /\ v[k] = s
    BY DEF Reaches
  <2> DEFINE S == {i \in Nat : i <= k => w[i] = v[i]}
  <2>2. 0 \in S
    BY <1>7, <2>1 DEF Looks
  <2>3. ASSUME NEW i \in Nat, i \in S PROVE i + 1 \in S
    <3> SUFFICES ASSUME i + 1 <= k PROVE w[i + 1] = v[i + 1]
      OBVIOUS
    <3>1. i + 1 \in 1 .. k /\ i + 1 \in 1 .. n /\ (i + 1) - 1 = i
      BY <1>1
    <3>2. w[i + 1] = KernelStep(w[i], mounted) /\ v[i + 1] = KernelStep(v[i], mounted)
      BY <1>7, <2>1, <3>1 DEF Looks
    <3>3. w[i] = v[i]
      BY <2>3
    <3>4. QED BY <3>2, <3>3
  <2>4. Nat \subseteq S
    <3> HIDE DEF S
    <3>1. QED BY <2>2, <2>3, Kernel!AllNumbers
  <2>5. QED BY <2>1, <2>4
<1>10. QED BY <1>1, <1>7, <1>8, <1>9

\* The next one to be looked up.
Entry(dir_, rest_) == Append(dir_, Head(rest_))

\* A step of the lookup, where there are no firmlinks: none is left, ...
LEMMA KernelStays ==
  ASSUME NEW mounted, NEW dir, NEW links
  PROVE  KernelStep(Standing(dir, <<>>, links), mounted) = Standing(dir, <<>>, links)
BY DEF KernelStep, Standing

\* ... the next one climbs, ...
LEMMA KernelClimbs ==
  ASSUME NEW mounted, NEW dir, NEW rest, NEW links, rest # <<>>, Head(rest) = ".."
  PROVE  KernelStep(Standing(dir, rest, links), mounted)
           = Standing(Climb(dir, ".."), Tail(rest), links)
<1>1. PICK s : s = Standing(dir, rest, links)
  OBVIOUS
<1>2. s.dir = dir /\ s.rest = rest /\ s.links = links
  BY <1>1 DEF Standing
<1>3. KernelStep(s, mounted) = [s EXCEPT !.dir = Climb(dir, ".."), !.rest = Tail(rest)]
  BY <1>2 DEF KernelStep, Entry
<1>4. s = [dir |-> dir, rest |-> rest, links |-> links]
  BY <1>1 DEF Standing
<1>5. KernelStep(s, mounted) = [dir |-> Climb(dir, ".."), rest |-> Tail(rest), links |-> links]
  BY <1>3, <1>4
<1>6. QED BY <1>1, <1>5 DEF Standing

\* ... it is on remote storage, ...
LEMMA KernelLeaves ==
  ASSUME NEW mounted, NEW dir, NEW rest, NEW links, rest # <<>>, Head(rest) # "..",
         NEW next, next = Entry(dir, rest), ~MountForPath(mounted, next).local
  PROVE  KernelStep(Standing(dir, rest, links), mounted)
           = Standing(LexicallyNormal(next \o Tail(rest)), <<>>, links)
<1>1. PICK s : s = Standing(dir, rest, links)
  OBVIOUS
<1>2. s.dir = dir /\ s.rest = rest /\ s.links = links
  BY <1>1 DEF Standing
<1>3. KernelStep(s, mounted)
        = [s EXCEPT !.dir = LexicallyNormal(next \o Tail(rest)), !.rest = <<>>]
  BY <1>2 DEF KernelStep, Entry
<1>4. s = [dir |-> dir, rest |-> rest, links |-> links]
  BY <1>1 DEF Standing
<1>5. KernelStep(s, mounted) = [dir |-> LexicallyNormal(next \o Tail(rest)), rest |-> <<>>, links |-> links]
  BY <1>3, <1>4
<1>6. QED BY <1>1, <1>5 DEF Standing

\* ... it is a link, ...
LEMMA KernelFollows ==
  ASSUME NEW mounted, NEW dir, NEW rest, NEW links, rest # <<>>, Head(rest) # "..",
         NEW next, next = Entry(dir, rest), MountForPath(mounted, next).local,
         next \in DOMAIN Links
  PROVE  KernelStep(Standing(dir, rest, links), mounted)
           = Standing(IF Links[next].absolute THEN <<>> ELSE dir,
                      Links[next].names \o Tail(rest), links + 1)
<1>1. PICK s : s = Standing(dir, rest, links)
  OBVIOUS
<1>2. s.dir = dir /\ s.rest = rest /\ s.links = links
  BY <1>1 DEF Standing
<1>3. KernelStep(s, mounted)
        = [dir |-> IF Links[next].absolute THEN <<>> ELSE dir,
           rest |-> Links[next].names \o Tail(rest), links |-> links + 1]
  BY <1>2 DEF KernelStep, Entry
<1>4. QED BY <1>1, <1>3 DEF Standing

\* ... or the lookup goes on from there.
LEMMA KernelEnters ==
  ASSUME DOMAIN Firmlinks = {},
         NEW mounted, NEW dir, NEW rest, NEW links, rest # <<>>, Head(rest) # "..",
         NEW next, next = Entry(dir, rest), MountForPath(mounted, next).local,
         next \notin DOMAIN Links
  PROVE  KernelStep(Standing(dir, rest, links), mounted) = Standing(next, Tail(rest), links)
<1>1. PICK s : s = Standing(dir, rest, links)
  OBVIOUS
<1>2. s.dir = dir /\ s.rest = rest /\ s.links = links
  BY <1>1 DEF Standing
<1>3. KernelStep(s, mounted) = [s EXCEPT !.dir = next, !.rest = Tail(rest)]
  BY <1>2 DEF KernelStep, Entry
<1>4. s = [dir |-> dir, rest |-> rest, links |-> links]
  BY <1>1 DEF Standing
<1>5. KernelStep(s, mounted) = [dir |-> next, rest |-> Tail(rest), links |-> links]
  BY <1>3, <1>4
<1>6. QED BY <1>1, <1>5 DEF Standing

\* A lookup that has ended stays where it is.
LEMMA EndedWalk ==
  ASSUME SpeedAssumption, DOMAIN Firmlinks = {}, NEW mounted, NEW p, NEW dir, NEW links,
         NEW k \in Nat, k <= WalkBound, Reaches(mounted, p, Standing(dir, <<>>, links), k)
  PROVE  KernelWalk(mounted, p) = Standing(dir, <<>>, links)
<1>1. PICK s : s = Standing(dir, <<>>, links)
  OBVIOUS
<1>2. PICK w : Looks(w, mounted, p, WalkBound) /\ w[k] = s /\ w[WalkBound] = KernelWalk(mounted, p)
  BY <1>1, WalkGoesThrough
<1>3. PICK n \in Nat : n = WalkBound
  BY Bounds
<1>4. KernelStep(s, mounted) = s
  BY <1>1, KernelStays
<1> DEFINE S == {i \in Nat : k + i <= n => w[k + i] = s}
<1>5. 0 \in S
  BY <1>2
<1>6. ASSUME NEW i \in Nat, i \in S PROVE i + 1 \in S
  <2> SUFFICES ASSUME k + (i + 1) <= n PROVE w[k + (i + 1)] = s
    OBVIOUS
  <2>1. k + (i + 1) \in 1 .. n /\ (k + (i + 1)) - 1 = k + i /\ k + i <= n
    OBVIOUS
  <2>2. w[k + (i + 1)] = KernelStep(w[k + i], mounted)
    BY <1>2, <1>3, <2>1 DEF Looks
  <2>3. QED BY <1>4, <1>6, <2>1, <2>2
<1>7. Nat \subseteq S
  <2> HIDE DEF S
  <2>1. QED BY <1>5, <1>6, Kernel!AllNumbers
<1>8. n - k \in S /\ k + (n - k) = n
  <2> HIDE DEF S
  <2>1. k <= n /\ n - k \in Nat
    BY <1>3
  <2>2. QED BY <1>7, <2>1
<1>9. QED BY <1>1, <1>2, <1>3, <1>8

\* Links that were followed stay counted.
LEMMA LinksStayCounted ==
  ASSUME SpeedAssumption, DOMAIN Firmlinks = {}, NEW mounted, NEW p, NEW dir, NEW rest,
         NEW links \in Nat, NEW k \in Nat, k <= WalkBound,
         Reaches(mounted, p, Standing(dir, rest, links), k)
  PROVE  KernelWalk(mounted, p).links \in Nat /\ KernelWalk(mounted, p).links >= links
<1>1. PICK w : /\ Looks(w, mounted, p, WalkBound) /\ w[k] = Standing(dir, rest, links)
               /\ w[WalkBound] = KernelWalk(mounted, p)
  BY WalkGoesThrough
<1>2. PICK n \in Nat : n = WalkBound
  BY Bounds
<1> DEFINE More(s) == \E d, r : \E l \in Nat : l >= links /\ s = Standing(d, r, l)
           S == {i \in Nat : k + i <= n => More(w[k + i])}
<1>3. 0 \in S
  BY <1>1
<1>4. ASSUME NEW s, More(s) PROVE More(KernelStep(s, mounted))
  <2>1. PICK d, r, l : l \in Nat /\ l >= links /\ s = Standing(d, r, l)
    BY <1>4
  <2>2. \E dd, rr : \/ KernelStep(s, mounted) = Standing(dd, rr, l)
                   \/ KernelStep(s, mounted) = Standing(dd, rr, l + 1)
    <3>1. PICK next : next = Entry(d, r)
      OBVIOUS
    <3>2. CASE r = <<>>
      BY <2>1, <3>2, KernelStays
    <3>3. CASE r # <<>> /\ Head(r) = ".."
      BY <2>1, <3>3, KernelClimbs
    <3>4. CASE r # <<>> /\ Head(r) # ".." /\ ~MountForPath(mounted, next).local
      <4>1. KernelStep(s, mounted) = Standing(LexicallyNormal(next \o Tail(r)), <<>>, l)
        BY <2>1, <3>1, <3>4, KernelLeaves
      <4>2. QED BY <4>1
    <3>5. CASE r # <<>> /\ Head(r) # ".." /\ MountForPath(mounted, next).local
      <4>1. CASE next \in DOMAIN Links
        <5>1. PICK dd : dd = IF Links[next].absolute THEN <<>> ELSE d
          OBVIOUS
        <5>2. KernelStep(s, mounted) = Standing(dd, Links[next].names \o Tail(r), l + 1)
          BY <2>1, <3>1, <3>5, <4>1, <5>1, KernelFollows
        <5>3. QED BY <5>2
      <4>2. CASE next \notin DOMAIN Links
        BY <2>1, <3>1, <3>5, <4>2, KernelEnters
      <4>3. QED BY <4>1, <4>2
    <3>6. QED BY <3>2, <3>3, <3>4, <3>5
  <2>3. QED BY <2>1, <2>2
<1>5. ASSUME NEW i \in Nat, i \in S PROVE i + 1 \in S
  <2> HIDE DEF More
  <2> SUFFICES ASSUME k + (i + 1) <= n PROVE More(w[k + (i + 1)])
    OBVIOUS
  <2>1. k + (i + 1) \in 1 .. n /\ (k + (i + 1)) - 1 = k + i /\ k + i <= n
    OBVIOUS
  <2>2. w[k + (i + 1)] = KernelStep(w[k + i], mounted)
    BY <1>1, <1>2, <2>1 DEF Looks
  <2>3. QED BY <1>4, <1>5, <2>1, <2>2
<1>6. Nat \subseteq S
  <2> HIDE DEF S
  <2>1. QED BY <1>3, <1>5, Kernel!AllNumbers
<1>7. n - k \in S /\ k + (n - k) = n
  <2> HIDE DEF S
  <2>1. k <= n /\ n - k \in Nat
    BY <1>2
  <2>2. QED BY <1>6, <2>1
<1>8. More(KernelWalk(mounted, p))
  <2> HIDE DEF More
  <2>1. QED BY <1>1, <1>2, <1>7
<1>9. QED BY <1>8 DEF Standing

-----------------------------------------------------------------------------
(* The walk against the kernel's lookup.                                   *)

\* On Linux paths are ordinary, and the target of a link climbs first, if at all:
\* a ".." behind another link the code takes away with the name before it.
LinuxPaths(Name) ==
  /\ DOMAIN Firmlinks = {}
  /\ \A p \in PathsOf("unix") : p \in Ordinary(Name) /\ Len(p) <= MaxNames
  /\ \A p \in DOMAIN Links : LET names == Links[p].names IN
       names \in Seq(Name) /\ Len(names) <= MaxNames /\ \E u \in 0 .. Len(names) : Climbs(names, u)

\* All its folders are local, and none is a link.
Settled(mounted, dir) == \A n \in 1 .. Len(dir) : LET folder == SubSeq(dir, 1, n) IN
  MountForPath(mounted, folder).local /\ folder \notin DOMAIN Links

LEMMA SettledPrefix ==
  ASSUME NEW Name, NEW mounted, NEW dir \in Seq(Name), Settled(mounted, dir),
         NEW n \in 0 .. Len(dir)
  PROVE  Settled(mounted, SubSeq(dir, 1, n))
<1>1. PICK d : d = SubSeq(dir, 1, n)
  OBVIOUS
<1>2. Len(dir) \in Nat /\ \A i \in 1 .. n : dir[i] \in Name
  BY LenProperties, ElementOfSeq
<1>3. d \in Seq(Name) /\ Len(d) = n
  BY <1>1, <1>2, SubSeqProperties
<1>4. ASSUME NEW m \in 1 .. n PROVE SubSeq(d, 1, m) = SubSeq(dir, 1, m)
  BY <1>1, <1>2, <1>4, SubSeqOfSubSeq DEF Settled
<1>5. ASSUME NEW m \in 1 .. n
      PROVE  LET folder == SubSeq(d, 1, m) IN
               MountForPath(mounted, folder).local /\ folder \notin DOMAIN Links
  <2>1. m \in 1 .. Len(dir)
    BY <1>2
  <2>2. QED BY <1>4, <2>1 DEF Settled
<1>6. QED BY <1>1, <1>3, <1>5 DEF Settled

LEMMA ClimbStaysSettled ==
  ASSUME NEW Name, NEW mounted, NEW dir \in Ordinary(Name), Settled(mounted, dir)
  PROVE  Climb(dir, "..") \in Ordinary(Name) /\ Settled(mounted, Climb(dir, ".."))
<1>1. CASE dir = <<>>
  BY <1>1 DEF Climb
<1>2. CASE dir # <<>>
  <2>1. PICK n \in 0 .. Len(dir) : n = Len(dir) - 1
    <3>1. Len(dir) \in Nat /\ Len(dir) # 0
      BY <1>2, EmptySeq, LenProperties DEF Ordinary
    <3>2. PICK d \in Nat : d = Len(dir) /\ d # 0
      BY <3>1
    <3>3. d - 1 \in 0 .. d
      BY <3>2
    <3>4. QED BY <3>2, <3>3
  <2>2. Climb(dir, "..") = SubSeq(dir, 1, n)
    BY <1>2, <2>1 DEF Climb, Front
  <2>3. SubSeq(dir, 1, n) \in Ordinary(Name)
    <3>1. \A i \in 1 .. n : dir[i] \in Name \ {".."}
      BY <2>1, ElementOfSeq, LenProperties DEF Ordinary
    <3>2. n \in Int
      BY LenProperties DEF Ordinary
    <3>3. QED BY <3>1, <3>2, SubSeqProperties DEF Ordinary
  <2>4. QED BY <2>2, <2>3, SettledPrefix DEF Ordinary
<1>3. QED BY <1>1, <1>2

\* What is left once the kernel has climbed.
Climbed(Name, mounted, p, links, k, dir, rest, u) ==
  \E d \in Ordinary(Name), r \in Ordinary(Name) :
    /\ Settled(mounted, d) /\ d \o r = From(dir, rest) /\ Len(r) = Len(rest) - u
    /\ Reaches(mounted, p, Standing(d, r, links), k + u)

LEMMA KernelClimbsFirst ==
  ASSUME NEW Name, NEW mounted, NEW p, NEW links, NEW n \in Nat
  PROVE  \A dir \in Ordinary(Name), rest \in Seq(Name), k \in Nat :
           Settled(mounted, dir) /\ Climbs(rest, n)
           /\ Reaches(mounted, p, Standing(dir, rest, links), k)
             => Climbed(Name, mounted, p, links, k, dir, rest, n)
<1> DEFINE Starts(dir, rest, k, u) ==
             /\ dir \in Ordinary(Name) /\ rest \in Seq(Name) /\ k \in Nat
             /\ Settled(mounted, dir) /\ Climbs(rest, u)
             /\ Reaches(mounted, p, Standing(dir, rest, links), k)
           S == {u \in Nat : \A dir, rest, k :
                   Starts(dir, rest, k, u) => Climbed(Name, mounted, p, links, k, dir, rest, u)}
<1>1. 0 \in S
  <2> SUFFICES ASSUME NEW dir, NEW rest, NEW k, Starts(dir, rest, k, 0)
               PROVE  Climbed(Name, mounted, p, links, k, dir, rest, 0)
    OBVIOUS
  <2>1. \A i \in 1 .. Len(rest) : rest[i] \in Name \ {".."}
    BY ElementOfSeq, LenProperties DEF Climbs
  <2>2. rest \in Ordinary(Name)
    <3>1. rest = [i \in 1 .. Len(rest) |-> rest[i]] /\ Len(rest) \in Nat
      BY LenProperties
    <3>2. rest \in [1 .. Len(rest) -> Name \ {".."}]
      BY <2>1, <3>1
    <3>3. QED BY <3>1, <3>2, SeqDef DEF Ordinary
  <2>3. From(dir, rest) = dir \o rest
    BY <2>2, FromOrdinary, SeqMonotonic DEF Ordinary
  <2>4. Len(rest) - 0 = Len(rest) /\ k + 0 = k
    BY LenProperties
  <2>5. QED BY <2>2, <2>3, <2>4 DEF Climbed
<1>2. ASSUME NEW u \in Nat, u \in S PROVE u + 1 \in S
  <2> SUFFICES ASSUME NEW dir, NEW rest, NEW k, Starts(dir, rest, k, u + 1)
               PROVE  Climbed(Name, mounted, p, links, k, dir, rest, u + 1)
    OBVIOUS
  <2>1. PICK above, tail, l : above = Climb(dir, "..") /\ tail = Tail(rest) /\ l = Len(rest)
    OBVIOUS
  <2>2. l \in Nat /\ u + 1 <= l /\ rest # <<>> /\ \A i \in 1 .. l : rest[i] = ".." <=> i <= u + 1
    <3>1. l \in Nat /\ u + 1 <= l /\ \A i \in 1 .. l : rest[i] = ".." <=> i <= u + 1
      BY <2>1, LenProperties DEF Climbs
    <3>2. QED BY <2>1, <3>1, EmptySeq
  <2>3. /\ tail \in Seq(Name) /\ Len(tail) = l - 1
        /\ \A i \in 1 .. Len(tail) : tail[i] = rest[i + 1]
    BY <2>1, <2>2, HeadTailProperties
  <2>4. Head(rest) = ".."
    <3>1. Head(rest) = rest[1]
      OBVIOUS
    <3>2. QED BY <2>2, <3>1
  <2>5. Climbs(tail, u)
    BY <2>2, <2>3 DEF Climbs
  <2>6. above \in Ordinary(Name) /\ Settled(mounted, above)
    BY <2>1, ClimbStaysSettled
  <2>7. Reaches(mounted, p, Standing(above, tail, links), k + 1)
    <3>1. KernelStep(Standing(dir, rest, links), mounted) = Standing(above, tail, links)
      BY <2>1, <2>2, <2>4, KernelClimbs
    <3>2. Reaches(mounted, p, KernelStep(Standing(dir, rest, links), mounted), k + 1)
      BY ReachesNext
    <3>3. QED BY <3>1, <3>2
  <2>8. Climbed(Name, mounted, p, links, k + 1, above, tail, u)
    BY <1>2, <2>3, <2>5, <2>6, <2>7
  <2>9. From(above, tail) = From(dir, rest)
    BY <2>1, <2>2, <2>4, FromTail
  <2>10. Len(tail) - u = Len(rest) - (u + 1) /\ (k + 1) + u = k + (u + 1)
    BY <2>1, <2>2, <2>3
  <2>11. QED BY <2>8, <2>9, <2>10 DEF Climbed
<1>3. Nat \subseteq S
  <2> HIDE DEF S
  <2>1. QED BY <1>1, <1>2, Kernel!AllNumbers
<1>4. n \in S
  BY <1>3
<1>5. QED BY <1>4

\* The name that the walk looks at is the one the kernel enters next, unless it is
\* one the kernel has been through.
Ahead(Name, p, dir, rest, n) ==
  /\ rest # <<>> /\ Head(rest) \in Name \ {".."}
  /\ SubSeq(p, 1, n) = Entry(dir, rest) /\ SubSeq(p, 1, n - 1) = dir
  /\ SubSeq(p, n + 1, Len(p)) = Tail(rest)
  /\ Entry(dir, rest) \in Ordinary(Name) /\ Tail(rest) \in Ordinary(Name)
  /\ Entry(dir, rest) \o Tail(rest) = p
  /\ Len(Entry(dir, rest)) = Len(dir) + 1 /\ Len(Tail(rest)) = Len(rest) - 1

LEMMA PrefixIs ==
  ASSUME NEW Name, NEW dir \in Ordinary(Name), NEW rest \in Ordinary(Name),
         NEW p, p = dir \o rest, NEW n \in 1 .. Len(p)
  PROVE  /\ n <= Len(dir) => SubSeq(p, 1, n) = SubSeq(dir, 1, n)
         /\ n = Len(dir) + 1 => Ahead(Name, p, dir, rest, n)
<1>1. PICK d \in Nat, m \in Nat : d = Len(dir) /\ m = Len(rest)
  BY LenProperties DEF Ordinary
<1>2. p \in Ordinary(Name) /\ Len(p) = d + m
  BY <1>1, ConcatProperties DEF Ordinary
<1>3. CASE n <= d
  BY <1>1, <1>3, SubSeqOfConcat1 DEF Ordinary
<1>4. CASE n = d + 1
  <2>1. rest # <<>> /\ m # 0
    <3>1. m # 0
      BY <1>2, <1>4
    <3>2. QED BY <1>1, <3>1
  <2>2. PICK head, tail : head = Head(rest) /\ tail = Tail(rest)
    OBVIOUS
  <2>3. /\ head \in Name \ {".."} /\ tail \in Ordinary(Name) /\ Len(tail) = m - 1
        /\ tail = SubSeq(rest, 2, m) /\ head = rest[1]
    <3>1. /\ Head(rest) \in Name \ {".."} /\ Tail(rest) \in Ordinary(Name)
          /\ Len(Tail(rest)) = Len(rest) - 1
      BY <2>1, HeadTailProperties DEF Ordinary
    <3>2. Tail(rest) = SubSeq(rest, 2, Len(rest))
      BY <2>1, TailIsSubSeq DEF Ordinary
    <3>3. QED BY <1>1, <2>2, <3>1, <3>2
  <2>4. SubSeq(rest, 1, 1) = <<head>>
    <3>1. \A i \in 1 .. 1 : rest[i] \in Name
      BY <2>3
    <3>2. PICK one : one = SubSeq(rest, 1, 1)
      OBVIOUS
    <3>3. one \in Seq(Name) /\ Len(one) = 1 /\ one[1] = head
      BY <2>3, <3>1, <3>2, SubSeqProperties
    <3>4. one = <<head>>
      <4>1. <<head>> \in Seq(Name) /\ Len(<<head>>) = 1 /\ <<head>>[1] = head
        BY <2>3
      <4>2. \A i \in 1 .. Len(one) : one[i] = <<head>>[i]
        BY <3>3
      <4>3. QED BY <3>3, <4>1, <4>2, SeqEqual
    <3>5. QED BY <3>2, <3>4
  <2>5. rest = <<head>> \o tail
    <3>1. SubSeq(rest, 1, 1) \o SubSeq(rest, 2, m) = SubSeq(rest, 1, m)
      BY <1>1, <2>1, ConcatAdjacentSubSeq, 1 + 1 = 2 DEF Ordinary
    <3>2. SubSeq(rest, 1, m) = rest
      BY <1>1, SubSeqFull DEF Ordinary
    <3>3. QED BY <2>3, <2>4, <3>1, <3>2
  <2>6. PICK next : next = Entry(dir, rest)
    OBVIOUS
  <2>7. next = dir \o <<head>> /\ next \in Ordinary(Name) /\ Len(next) = d + 1
    BY <1>1, <2>2, <2>3, <2>6, AppendIsConcat, AppendProperties DEF Entry, Ordinary
  <2>8. p = next \o tail
    <3>1. <<head>> \in Ordinary(Name)
      BY <2>3 DEF Ordinary
    <3>2. \A a, b \in Ordinary(Name) : (dir \o a) \o b = dir \o (a \o b)
      BY ConcatAssociative DEF Ordinary
    <3>3. PICK one : one = <<head>>
      OBVIOUS
    <3>4. (dir \o one) \o tail = dir \o (one \o tail)
      BY <2>3, <3>1, <3>2, <3>3
    <3>5. QED BY <2>5, <2>7, <3>3, <3>4
  <2>9. SubSeq(p, 1, n) = next
    <3>1. SubSeq(next \o tail, 1, d + 1) = SubSeq(next, 1, d + 1)
      <4>1. 1 \in 1 .. Len(next) /\ d + 1 \in 1 .. Len(next)
        BY <2>7
      <4>2. QED BY <2>3, <2>7, <4>1, SubSeqOfConcat1 DEF Ordinary
    <3>2. SubSeq(next, 1, d + 1) = next
      BY <2>7, SubSeqFull DEF Ordinary
    <3>3. QED BY <1>4, <2>8, <3>1, <3>2
  <2>10. SubSeq(p, 1, n - 1) = dir
    <3>1. CASE d = 0
      <4>1. dir = <<>>
        BY <1>1, <3>1, EmptySeq DEF Ordinary
      <4>2. QED BY <1>4, <3>1, <4>1, SubSeqEmpty
    <3>2. CASE d # 0
      <4>1. SubSeq(p, 1, d) = SubSeq(dir, 1, d)
        BY <1>1, <3>2, SubSeqOfConcat1 DEF Ordinary
      <4>2. QED BY <1>1, <1>4, <4>1, SubSeqFull DEF Ordinary
    <3>3. QED BY <3>1, <3>2
  <2>11. SubSeq(p, n + 1, Len(p)) = tail
    <3>1. CASE m = 1
      <4>1. tail = <<>>
        BY <2>3, <3>1, EmptySeq DEF Ordinary
      <4>2. QED BY <1>2, <1>4, <3>1, <4>1, SubSeqEmpty
    <3>2. CASE m # 1
      <4>1. SubSeq(p, d + 2, d + m) = SubSeq(rest, (d + 2) - d, (d + m) - d)
        <5>1. d + 2 \in d + 1 .. d + m /\ d + m \in d + 1 .. d + m
          BY <2>1, <3>2
        <5>2. QED BY <1>1, <5>1, SubSeqOfConcat2 DEF Ordinary
      <4>2. (d + 2) - d = 2 /\ (d + m) - d = m /\ n + 1 = d + 2
        BY <1>4
      <4>3. QED BY <1>2, <2>3, <4>1, <4>2
    <3>3. QED BY <3>1, <3>2
  <2>12. Ahead(Name, p, dir, rest, n)
    <3>1. Len(next) = Len(dir) + 1 /\ Len(tail) = Len(rest) - 1
      BY <1>1, <2>3, <2>7
    <3>2. QED BY <2>1, <2>2, <2>3, <2>6, <2>7, <2>8, <2>9, <2>10, <2>11, <3>1 DEF Ahead
  <2>13. QED BY <1>1, <1>4, <2>12
<1>5. QED BY <1>1, <1>3, <1>4

\* The kernel, after k steps, is in a folder that the walk finds, or has found, to be
\* there, and has the same links behind it.
InStep(Name, c, k, dir, rest) ==
  /\ k \in Nat /\ dir \in Ordinary(Name) /\ rest \in Ordinary(Name)
  /\ Reaches(snapshot[c], asked[c], Standing(dir, rest, MaxHops - hopsLeft[c]), k)
  /\ path[c] = dir \o rest /\ at[c] <= Len(dir) + 1 /\ Settled(snapshot[c], dir)
  /\ hopsLeft[c] \in 1 .. MaxHops
  /\ k + Len(rest) <= MaxNames * (MaxHops - hopsLeft[c] + 1)

Arrives(c) ==
  LET s == KernelWalk(snapshot[c], asked[c]) IN s.links < MaxHops => path[c] = s.dir

WithKernel(Name, c) ==
  /\ pc[c] = "mounts" => path[c] = asked[c] /\ asked[c] \in PathsOf("unix")
  /\ pc[c] = "walk" => \E k, dir, rest : InStep(Name, c, k, dir, rest)
  /\ pc[c] = "volume" => Arrives(c)

AllWithKernel(Name) == \A c \in Caller : WithKernel(Name, c)

\* It is within the bound, and the name looked at is known.
LEMMA InStepPrefix ==
  ASSUME SpeedAssumption, TypeOK, NEW Name, NEW c \in Caller,
         NEW k, NEW dir, NEW rest, InStep(Name, c, k, dir, rest)
  PROVE  /\ k + Len(rest) <= WalkBound /\ Len(rest) \in Nat /\ Len(dir) \in Nat
         /\ at[c] \in Nat \ {0} /\ Len(path[c]) = Len(dir) + Len(rest)
         /\ at[c] <= Len(path[c]) =>
              \/ /\ at[c] <= Len(dir) /\ Prefix(c) \notin DOMAIN Links
                 /\ MountForPath(snapshot[c], Prefix(c)).local
              \/ /\ at[c] = Len(dir) + 1 /\ Ahead(Name, path[c], dir, rest, at[c])
                 /\ Prefix(c) = Entry(dir, rest)
<1>1. k \in Nat /\ dir \in Ordinary(Name) /\ rest \in Ordinary(Name) /\ path[c] = dir \o rest
      /\ at[c] <= Len(dir) + 1 /\ Settled(snapshot[c], dir)
      /\ hopsLeft[c] \in 1 .. MaxHops
      /\ k + Len(rest) <= MaxNames * (MaxHops - hopsLeft[c] + 1)
  BY DEF InStep
<1>2. Len(rest) \in Nat /\ Len(dir) \in Nat /\ Len(path[c]) = Len(dir) + Len(rest)
  BY <1>1, LenProperties, ConcatProperties DEF Ordinary
<1>3. k + Len(rest) <= WalkBound
  <2>1. PICK l \in 0 .. MaxHops : l = MaxHops - hopsLeft[c]
    BY <1>1 DEF SpeedAssumption
  <2>2. WalkBound \in Nat /\ MaxNames * (l + 1) \in Nat /\ MaxNames * (l + 1) <= WalkBound
    BY Bounds
  <2>3. k + Len(rest) <= MaxNames * (l + 1)
    BY <1>1, <2>1
  <2>4. QED BY <1>1, <1>2, <2>2, <2>3
<1>4. at[c] \in Nat \ {0}
  BY DEF TypeOK
<1>5. ASSUME at[c] <= Len(path[c]), at[c] <= Len(dir)
      PROVE  Prefix(c) \notin DOMAIN Links /\ MountForPath(snapshot[c], Prefix(c)).local
  <2>1. PICK p, n : p = path[c] /\ n = at[c]
    OBVIOUS
  <2>2. /\ n \in 1 .. Len(p) /\ p = dir \o rest /\ n \in 1 .. Len(dir) /\ n <= Len(dir)
        /\ dir \in Ordinary(Name) /\ rest \in Ordinary(Name)
    BY <1>1, <1>2, <1>4, <1>5, <2>1
  <2>3. SubSeq(p, 1, n) = SubSeq(dir, 1, n)
    BY <2>2, PrefixIs
  <2>4. Prefix(c) = SubSeq(dir, 1, n)
    BY <2>1, <2>3 DEF Prefix
  <2>5. QED BY <1>1, <2>2, <2>4 DEF Settled
<1>6. ASSUME at[c] <= Len(path[c]), at[c] = Len(dir) + 1
      PROVE  Ahead(Name, path[c], dir, rest, at[c]) /\ Prefix(c) = Entry(dir, rest)
  <2>1. PICK p, n : p = path[c] /\ n = at[c]
    OBVIOUS
  <2>2. n \in 1 .. Len(p) /\ p = dir \o rest /\ n = Len(dir) + 1
    BY <1>1, <1>2, <1>4, <1>6, <2>1
  <2>3. Ahead(Name, p, dir, rest, n)
    BY <1>1, <2>2, PrefixIs
  <2>4. QED BY <2>1, <2>3 DEF Ahead, Prefix
<1>7. QED BY <1>1, <1>2, <1>3, <1>4, <1>5, <1>6

LEMMA ReadsMounts ==
  ASSUME SpeedAssumption, TypeOK, NEW Name, LinuxPaths(Name), NEW c \in Caller,
         WithKernel(Name, c), ReadMounts(c)
  PROVE  WithKernel(Name, c)'
<1>1. /\ pc[c] = "mounts" /\ pc'[c] = "walk" /\ at'[c] = 1 /\ hopsLeft'[c] = MaxHops
      /\ path' = path /\ asked' = asked
  BY DEF ReadMounts, Goto, TypeOK
<1>2. PICK p : p = asked[c] /\ path[c] = p /\ p \in Ordinary(Name) /\ Len(p) <= MaxNames
  BY <1>1 DEF WithKernel, LinuxPaths
<1>3. Reaches(snapshot'[c], p, Standing(<<>>, p, MaxHops - hopsLeft'[c]), 0)
  <2>1. MaxHops - hopsLeft'[c] = 0
    BY <1>1 DEF SpeedAssumption
  <2>2. Lookup(p) = Standing(<<>>, p, 0)
    BY DEF Lookup, Standing
  <2>3. QED BY <2>1, <2>2, ReachesFirst
<1>4. <<>> \in Ordinary(Name) /\ Len(<<>>) = 0 /\ Settled(snapshot'[c], <<>>)
  BY EmptySeq DEF Ordinary, Settled
<1>5. <<>> \o p = p /\ Len(p) \in Nat
  BY <1>2, ConcatEmptySeq, LenProperties DEF Ordinary
<1>6. 0 + Len(p) <= MaxNames * (MaxHops - hopsLeft'[c] + 1)
  <2>1. MaxHops - hopsLeft'[c] + 1 = 1
    BY <1>1 DEF SpeedAssumption
  <2>2. QED BY <1>2, <1>5, <2>1, Bounds
<1>7. hopsLeft'[c] \in 1 .. MaxHops
  BY <1>1 DEF SpeedAssumption
<1>8. InStep(Name, c, 0, <<>>, p)'
  BY <1>1, <1>2, <1>3, <1>4, <1>5, <1>6, <1>7 DEF InStep
<1>9. QED BY <1>1, <1>8 DEF WithKernel

LEMMA EntersNext ==
  ASSUME SpeedAssumption, TypeOK, NEW Name, LinuxPaths(Name), NEW c \in Caller,
         WithKernel(Name, c), NotALink(c)
  PROVE  WithKernel(Name, c)'
<1>1. /\ pc[c] = "walk" /\ pc'[c] = "walk" /\ at'[c] = at[c] + 1 /\ at[c] <= Len(path[c])
      /\ UNCHANGED <<path, asked, snapshot, hopsLeft>>
      /\ MountForPath(snapshot[c], Prefix(c)).local /\ Prefix(c) \notin DOMAIN Links
  BY DEF NotALink, Walking, PrefixMount, Link, TypeOK
<1>2. PICK k, dir, rest : InStep(Name, c, k, dir, rest)
  BY <1>1 DEF WithKernel
<1>3. CASE at[c] <= Len(dir)
  <2>1. at'[c] <= Len(dir) + 1
    BY <1>1, <1>2, <1>3, InStepPrefix
  <2>2. InStep(Name, c, k, dir, rest)'
    BY <1>1, <1>2, <2>1 DEF InStep
  <2>3. QED BY <1>1, <2>2 DEF WithKernel
<1>4. CASE at[c] = Len(dir) + 1
  <2>1. PICK next, tail : next = Entry(dir, rest) /\ tail = Tail(rest)
    OBVIOUS
  <2>2. /\ Prefix(c) = next /\ rest # <<>> /\ Head(rest) # ".."
        /\ next \in Ordinary(Name) /\ tail \in Ordinary(Name) /\ next \o tail = path[c]
        /\ Len(next) = Len(dir) + 1 /\ Len(tail) = Len(rest) - 1 /\ SubSeq(path[c], 1, at[c]) = next
    <3>1. Ahead(Name, path[c], dir, rest, at[c]) /\ Prefix(c) = Entry(dir, rest)
      BY <1>1, <1>2, <1>4, InStepPrefix
    <3>2. QED BY <2>1, <3>1 DEF Ahead
  <2>3. Len(dir) \in Nat /\ Len(rest) \in Nat /\ k \in Nat
    BY <1>2, InStepPrefix DEF InStep
  <2>4. Reaches(snapshot[c], asked[c], Standing(next, tail, MaxHops - hopsLeft[c]), k + 1)
    <3>1. KernelStep(Standing(dir, rest, MaxHops - hopsLeft[c]), snapshot[c])
            = Standing(next, tail, MaxHops - hopsLeft[c])
      BY <1>1, <2>1, <2>2, KernelEnters DEF LinuxPaths
    <3>2. Reaches(snapshot[c], asked[c],
                  KernelStep(Standing(dir, rest, MaxHops - hopsLeft[c]), snapshot[c]), k + 1)
      BY <1>2, ReachesNext DEF InStep
    <3>3. QED BY <3>1, <3>2
  <2>5. Settled(snapshot[c], next)
    <3>1. ASSUME NEW n \in 1 .. Len(next)
          PROVE  LET folder == SubSeq(next, 1, n) IN
                   MountForPath(snapshot[c], folder).local /\ folder \notin DOMAIN Links
      <4>1. CASE n <= Len(dir)
        <5>1. SubSeq(next, 1, n) = SubSeq(dir, 1, n)
          <6>1. n \in 1 .. Len(path[c])
            BY <1>1, <1>4, <2>3, <4>1, InStepPrefix, <1>2
          <6>2. SubSeq(path[c], 1, n) = SubSeq(dir, 1, n)
            BY <1>2, <4>1, <6>1, PrefixIs DEF InStep
          <6>3. SubSeq(path[c], 1, n) = SubSeq(next, 1, n)
            BY <2>2, <2>3, <6>1, PrefixIs
          <6>4. QED BY <6>2, <6>3
        <5>2. n \in 1 .. Len(dir) /\ Settled(snapshot[c], dir)
          BY <1>2, <2>2, <2>3, <4>1 DEF InStep
        <5>3. QED BY <5>1, <5>2 DEF Settled
      <4>2. CASE n = Len(dir) + 1
        <5>1. SubSeq(next, 1, n) = next
          BY <2>2, <4>2, SubSeqFull DEF Ordinary
        <5>2. QED BY <1>1, <2>2, <5>1
      <4>3. QED BY <2>2, <2>3, <4>1, <4>2
    <3>2. QED BY <3>1 DEF Settled
  <2>6. /\ at'[c] <= Len(next) + 1 /\ k + 1 \in Nat
        /\ (k + 1) + Len(tail) <= MaxNames * (MaxHops - hopsLeft[c] + 1)
    <3>1. k + Len(rest) <= MaxNames * (MaxHops - hopsLeft[c] + 1)
      BY <1>2 DEF InStep
    <3>2. (k + 1) + Len(tail) = k + Len(rest)
      BY <2>2, <2>3
    <3>3. QED BY <1>1, <1>4, <2>2, <2>3, <3>1, <3>2
  <2>7. hopsLeft[c] \in 1 .. MaxHops
    BY <1>2 DEF InStep
  <2>8. InStep(Name, c, k + 1, next, tail)'
    BY <1>1, <2>2, <2>4, <2>5, <2>6, <2>7 DEF InStep
  <2>9. QED BY <1>1, <2>8 DEF WithKernel
<1>5. QED BY <1>1, <1>2, <1>3, <1>4, InStepPrefix

LEMMA FollowsLink ==
  ASSUME SpeedAssumption, TypeOK, NEW Name, LinuxPaths(Name), NEW c \in Caller,
         WithKernel(Name, c), FollowLink(c)
  PROVE  WithKernel(Name, c)'
<1>1. PICK target \in Link(Prefix(c)) : path'[c] = Spliced(path[c], at[c], target)
  <2>1. PICK target \in Link(Prefix(c)) :
          path' = [path EXCEPT ![c] = CanonicalPath(Spliced(@, at[c], target), Firmlinks)]
    BY DEF FollowLink
  <2>2. path'[c] = CanonicalPath(Spliced(path[c], at[c], target), Firmlinks)
    BY <2>1 DEF TypeOK
  <2>3. QED BY <2>2 DEF CanonicalPath, LinuxPaths
<1>2. /\ pc[c] = "walk" /\ pc'[c] = "walk" /\ at'[c] = 1 /\ at[c] <= Len(path[c])
      /\ UNCHANGED <<asked, snapshot>> /\ hopsLeft[c] # 1
      /\ hopsLeft'[c] = IF hopsLeft[c] = 0 THEN 0 ELSE hopsLeft[c] - 1
      /\ MountForPath(snapshot[c], Prefix(c)).local
  BY DEF FollowLink, Walking, LastHop, StartOver, PrefixMount, TypeOK
<1>3. Prefix(c) \in DOMAIN Links /\ target = Links[Prefix(c)]
  BY <1>1 DEF Link
<1>4. PICK k, dir, rest : InStep(Name, c, k, dir, rest)
  BY <1>2 DEF WithKernel
<1>5. PICK next, tail, p, n, links :
        /\ next = Entry(dir, rest) /\ tail = Tail(rest) /\ p = path[c] /\ n = at[c]
        /\ links = MaxHops - hopsLeft[c]
  OBVIOUS
<1>6. /\ Prefix(c) = next /\ rest # <<>> /\ Head(rest) # ".."
      /\ tail \in Ordinary(Name) /\ Len(tail) = Len(rest) - 1
      /\ SubSeq(p, 1, n - 1) = dir /\ SubSeq(p, n + 1, Len(p)) = tail
  <2>1. Ahead(Name, path[c], dir, rest, at[c]) /\ Prefix(c) = Entry(dir, rest)
    BY <1>2, <1>3, <1>4, InStepPrefix
  <2>2. QED BY <1>5, <2>1 DEF Ahead
<1>7. PICK names, base :
        names = target.names /\ base = IF target.absolute THEN <<>> ELSE dir
  OBVIOUS
<1>8. PICK u \in 0 .. Len(names) :
        names \in Seq(Name) /\ Len(names) <= MaxNames /\ Climbs(names, u)
  BY <1>3, <1>7 DEF LinuxPaths
<1>9. dir \in Ordinary(Name) /\ base \in Ordinary(Name) /\ Settled(snapshot[c], base)
  <2>1. dir \in Ordinary(Name) /\ Settled(snapshot[c], dir)
    BY <1>4 DEF InStep
  <2>2. <<>> \in Ordinary(Name) /\ Settled(snapshot[c], <<>>)
    BY EmptySeq DEF Ordinary, Settled
  <2>3. QED BY <1>7, <2>1, <2>2
<1>10. PICK left : left = names \o tail
  OBVIOUS
<1>11. left \in Seq(Name) /\ Len(left) = Len(names) + Len(tail) /\ Climbs(left, u)
  <2>1. tail \in Seq(Name) /\ Len(tail) \in Nat /\ Len(names) \in Nat
    BY <1>6, <1>8, SeqMonotonic, LenProperties DEF Ordinary
  <2>2. /\ left \in Seq(Name) /\ Len(left) = Len(names) + Len(tail)
        /\ \A i \in 1 .. Len(names) + Len(tail) :
             left[i] = IF i <= Len(names) THEN names[i] ELSE tail[i - Len(names)]
    BY <1>8, <1>10, <2>1, ConcatProperties
  <2>3. ASSUME NEW i \in 1 .. Len(left) PROVE left[i] = ".." <=> i <= u
    <3>1. CASE i <= Len(names)
      <4>1. left[i] = names[i] /\ i \in 1 .. Len(names)
        BY <2>1, <2>2, <3>1
      <4>2. QED BY <1>8, <4>1 DEF Climbs
    <3>2. CASE ~(i <= Len(names))
      <4>1. left[i] = tail[i - Len(names)] /\ i - Len(names) \in 1 .. Len(tail)
        BY <2>1, <2>2, <3>2
      <4>2. tail[i - Len(names)] # ".."
        <5>1. PICK j \in 1 .. Len(tail) : j = i - Len(names)
          BY <4>1
        <5>2. tail \in Seq(Name \ {".."})
          BY <1>6 DEF Ordinary
        <5>3. tail[j] \in Name \ {".."}
          BY <5>2, ElementOfSeq
        <5>4. QED BY <5>1, <5>3
      <4>3. ~(i <= u)
        BY <2>1, <3>2
      <4>4. QED BY <4>1, <4>2, <4>3
    <3>3. QED BY <3>1, <3>2
  <2>4. u \in 0 .. Len(left)
    BY <2>1, <2>2
  <2>5. QED BY <2>2, <2>3, <2>4 DEF Climbs
<1>12. path'[c] = From(base, left)
  <2>1. path'[c] = LexicallyNormal((base \o names) \o tail)
    BY <1>1, <1>5, <1>6, <1>7 DEF Spliced
  <2>2. (base \o names) \o tail = base \o left
    <3>1. base \in Seq(Name) /\ tail \in Seq(Name)
      BY <1>6, <1>9, SeqMonotonic DEF Ordinary
    <3>2. names \in Seq(Name)
      BY <1>8
    <3>3. (base \o names) \o tail = base \o (names \o tail)
      BY <3>1, <3>2, ConcatAssociative
    <3>4. QED BY <1>10, <3>3
  <2>3. LexicallyNormal(base \o left) = From(base, left)
    BY <1>9, <1>11, FromRoot
  <2>4. QED BY <2>1, <2>2, <2>3
<1>13. /\ k \in Nat /\ hopsLeft[c] \in 2 .. MaxHops /\ links \in Nat
       /\ MaxHops \in Nat /\ MaxHops - hopsLeft'[c] = links + 1
       /\ hopsLeft'[c] = hopsLeft[c] - 1
       /\ k + Len(rest) <= MaxNames * (links + 1)
  <2>1. /\ k \in Nat /\ hopsLeft[c] \in 1 .. MaxHops /\ MaxHops \in Nat
        /\ k + Len(rest) <= MaxNames * (MaxHops - hopsLeft[c] + 1)
    BY <1>4 DEF InStep, SpeedAssumption
  <2>2. hopsLeft[c] \in 2 .. MaxHops /\ hopsLeft'[c] = hopsLeft[c] - 1
    BY <1>2, <2>1
  <2>3. links \in Nat /\ MaxHops - hopsLeft'[c] = links + 1
    BY <1>5, <2>1, <2>2
  <2>4. MaxNames * (MaxHops - hopsLeft[c] + 1) = MaxNames * (links + 1)
    BY <1>5
  <2>5. QED BY <2>1, <2>2, <2>3, <2>4
<1>14. Reaches(snapshot[c], asked[c], Standing(base, left, links + 1), k + 1)
  <2>1. KernelStep(Standing(dir, rest, links), snapshot[c]) = Standing(base, left, links + 1)
    <3>1. KernelStep(Standing(dir, rest, links), snapshot[c])
            = Standing(IF Links[next].absolute THEN <<>> ELSE dir,
                       Links[next].names \o Tail(rest), links + 1)
      BY <1>2, <1>3, <1>5, <1>6, KernelFollows
    <3>2. QED BY <1>3, <1>5, <1>6, <1>7, <1>10, <3>1
  <2>2. Reaches(snapshot[c], asked[c], KernelStep(Standing(dir, rest, links), snapshot[c]), k + 1)
    BY <1>4, <1>5, ReachesNext DEF InStep
  <2>3. QED BY <2>1, <2>2
<1>15. Climbed(Name, snapshot[c], asked[c], links + 1, k + 1, base, left, u)
  BY <1>8, <1>9, <1>11, <1>13, <1>14, KernelClimbsFirst
<1>16. PICK d \in Ordinary(Name), r \in Ordinary(Name) :
         /\ Settled(snapshot[c], d) /\ d \o r = path'[c] /\ Len(r) = Len(left) - u
         /\ Reaches(snapshot[c], asked[c], Standing(d, r, links + 1), (k + 1) + u)
  BY <1>12, <1>15 DEF Climbed
<1>17. ((k + 1) + u) + Len(r) <= MaxNames * ((links + 1) + 1) /\ (k + 1) + u \in Nat
  <2>1. Len(names) \in Nat /\ Len(rest) \in Nat /\ Len(tail) \in Nat
    BY <1>4, <1>6, <1>8, LenProperties DEF InStep, Ordinary
  <2>2. ((k + 1) + u) + Len(r) = k + Len(rest) + Len(names)
    BY <1>6, <1>11, <1>13, <1>16, <2>1
  <2>3. /\ MaxNames * (links + 1) \in Nat /\ MaxNames \in Nat
        /\ MaxNames * ((links + 1) + 1) = MaxNames * (links + 1) + MaxNames
    <3>1. links \in 0 .. MaxHops
      BY <1>5, <1>13
    <3>2. QED BY <3>1, Bounds DEF SpeedAssumption
  <2>4. QED BY <1>8, <1>13, <2>1, <2>2, <2>3
<1>18. at'[c] <= Len(d) + 1
  BY <1>2, LenProperties DEF Ordinary
<1>19. PICK kk : kk = (k + 1) + u
  OBVIOUS
<1>20. InStep(Name, c, kk, d, r)'
  <2>1. /\ Reaches(snapshot'[c], asked'[c], Standing(d, r, MaxHops - hopsLeft'[c]), kk)
        /\ Settled(snapshot'[c], d) /\ path'[c] = d \o r
    BY <1>2, <1>13, <1>16, <1>19
  <2>2. kk \in Nat /\ hopsLeft'[c] \in 1 .. MaxHops
    BY <1>13, <1>17, <1>19
  <2>3. kk + Len(r) <= MaxNames * (MaxHops - hopsLeft'[c] + 1)
    BY <1>13, <1>17, <1>19
  <2>4. QED BY <1>18, <2>1, <2>2, <2>3 DEF InStep
<1>21. QED BY <1>2, <1>20 DEF WithKernel

LEMMA GivesUp ==
  ASSUME SpeedAssumption, TypeOK, NEW Name, LinuxPaths(Name), NEW c \in Caller,
         WithKernel(Name, c), GiveUp(c)
  PROVE  WithKernel(Name, c)'
<1>1. /\ pc[c] = "walk" /\ pc'[c] = "volume" /\ hopsLeft[c] = 1 /\ at[c] <= Len(path[c])
      /\ UNCHANGED <<path, asked, snapshot>> /\ Prefix(c) \in DOMAIN Links
      /\ MountForPath(snapshot[c], Prefix(c)).local
  BY DEF GiveUp, Walking, LastHop, PrefixMount, Link, Goto, TypeOK
<1>2. PICK k, dir, rest : InStep(Name, c, k, dir, rest)
  BY <1>1 DEF WithKernel
<1>3. PICK next : next = Entry(dir, rest)
  OBVIOUS
<1>4. Prefix(c) = next /\ rest # <<>> /\ Head(rest) # ".."
  <2>1. Ahead(Name, path[c], dir, rest, at[c]) /\ Prefix(c) = Entry(dir, rest)
    BY <1>1, <1>2, InStepPrefix
  <2>2. QED BY <1>3, <2>1 DEF Ahead
<1>5. PICK d, r : KernelStep(Standing(dir, rest, MaxHops - 1), snapshot[c])
                    = Standing(d, r, (MaxHops - 1) + 1)
  <2>1. next \in DOMAIN Links /\ MountForPath(snapshot[c], next).local
    BY <1>1, <1>4
  <2>2. KernelStep(Standing(dir, rest, MaxHops - 1), snapshot[c])
          = Standing(IF Links[next].absolute THEN <<>> ELSE dir,
                     Links[next].names \o Tail(rest), (MaxHops - 1) + 1)
    BY <1>3, <1>4, <2>1, KernelFollows
  <2>3. QED BY <2>2
<1>6. Reaches(snapshot[c], asked[c], Standing(d, r, MaxHops), k + 1)
  <2>1. (MaxHops - 1) + 1 = MaxHops
    BY DEF SpeedAssumption
  <2>2. Reaches(snapshot[c], asked[c],
                KernelStep(Standing(dir, rest, MaxHops - 1), snapshot[c]), k + 1)
    BY <1>1, <1>2, ReachesNext DEF InStep
  <2>3. QED BY <1>5, <2>1, <2>2
<1>7. k + 1 \in Nat /\ k + 1 <= WalkBound /\ MaxHops \in Nat
  <2>1. k \in Nat /\ k + Len(rest) <= WalkBound /\ Len(rest) \in Nat
    BY <1>2, InStepPrefix DEF InStep
  <2>2. Len(rest) # 0
    BY <1>2, <1>4, EmptySeq DEF InStep, Ordinary
  <2>3. WalkBound \in Nat
    BY Bounds
  <2>4. QED BY <2>1, <2>2, <2>3 DEF SpeedAssumption
<1>8. KernelWalk(snapshot[c], asked[c]).links >= MaxHops
      /\ KernelWalk(snapshot[c], asked[c]).links \in Nat
  BY <1>6, <1>7, LinksStayCounted DEF LinuxPaths
<1>9. Arrives(c)'
  BY <1>1, <1>7, <1>8 DEF Arrives
<1>10. QED BY <1>1, <1>9 DEF WithKernel

LEMMA EndsWalk ==
  ASSUME SpeedAssumption, TypeOK, NEW Name, LinuxPaths(Name), NEW c \in Caller,
         WithKernel(Name, c), WalkEnds(c)
  PROVE  WithKernel(Name, c)'
<1>1. /\ pc[c] = "walk" /\ pc'[c] = "volume" /\ UNCHANGED <<path, asked, snapshot>>
      /\ \/ ~(at[c] <= Len(path[c]))
         \/ at[c] <= Len(path[c]) /\ ~MountForPath(snapshot[c], Prefix(c)).local
  BY DEF WalkEnds, Walking, PrefixMount, Goto, walkVars, TypeOK
<1>2. PICK k, dir, rest, links :
        InStep(Name, c, k, dir, rest) /\ links = MaxHops - hopsLeft[c]
  BY <1>1 DEF WithKernel
<1>3. /\ k \in Nat /\ k + Len(rest) <= WalkBound /\ Len(rest) \in Nat /\ Len(dir) \in Nat
      /\ at[c] <= Len(dir) + 1 /\ at[c] \in Nat /\ Len(path[c]) = Len(dir) + Len(rest)
      /\ WalkBound \in Nat
  <2>1. WalkBound \in Nat
    BY Bounds
  <2>2. k \in Nat /\ at[c] <= Len(dir) + 1
    BY <1>2 DEF InStep
  <2>3. QED BY <1>2, <2>1, <2>2, InStepPrefix
<1>4. /\ dir \in Ordinary(Name) /\ rest \in Ordinary(Name) /\ path[c] = dir \o rest
      /\ Reaches(snapshot[c], asked[c], Standing(dir, rest, links), k)
  BY <1>2 DEF InStep
<1>5. CASE ~(at[c] <= Len(path[c]))
  <2>1. rest = <<>> /\ path[c] = dir
    <3>1. Len(rest) = 0
      BY <1>3, <1>5
    <3>2. rest = <<>>
      BY <1>4, <3>1, EmptySeq DEF Ordinary
    <3>3. QED BY <1>4, <3>2, ConcatEmptySeq DEF Ordinary
  <2>2. KernelWalk(snapshot[c], asked[c]) = Standing(dir, <<>>, links)
    BY <1>3, <1>4, <2>1, EndedWalk DEF LinuxPaths
  <2>3. Arrives(c)'
    BY <1>1, <2>1, <2>2 DEF Arrives, Standing
  <2>4. QED BY <1>1, <2>3 DEF WithKernel
<1>6. CASE at[c] <= Len(path[c]) /\ ~MountForPath(snapshot[c], Prefix(c)).local
  <2>1. PICK next, tail : next = Entry(dir, rest) /\ tail = Tail(rest)
    OBVIOUS
  <2>2. /\ Prefix(c) = next /\ rest # <<>> /\ Head(rest) # ".."
        /\ next \in Ordinary(Name) /\ tail \in Ordinary(Name) /\ next \o tail = path[c]
    <3>1. Ahead(Name, path[c], dir, rest, at[c]) /\ Prefix(c) = Entry(dir, rest)
      BY <1>2, <1>6, InStepPrefix
    <3>2. QED BY <2>1, <3>1 DEF Ahead
  <2>3. LexicallyNormal(next \o tail) = path[c]
    <3>1. tail \in Seq(Name) /\ next \in Seq(Name)
      BY <2>2, SeqMonotonic DEF Ordinary
    <3>2. QED BY <2>2, <3>1, FromRoot, FromOrdinary
  <2>4. KernelStep(Standing(dir, rest, links), snapshot[c]) = Standing(path[c], <<>>, links)
    BY <1>6, <2>1, <2>2, <2>3, KernelLeaves
  <2>5. Reaches(snapshot[c], asked[c], Standing(path[c], <<>>, links), k + 1)
    <3>1. Reaches(snapshot[c], asked[c],
                  KernelStep(Standing(dir, rest, links), snapshot[c]), k + 1)
      BY <1>3, <1>4, ReachesNext
    <3>2. QED BY <2>4, <3>1
  <2>6. k + 1 \in Nat /\ k + 1 <= WalkBound
    <3>1. Len(rest) # 0
      BY <1>4, <2>2, EmptySeq DEF Ordinary
    <3>2. QED BY <1>3, <3>1
  <2>7. KernelWalk(snapshot[c], asked[c]) = Standing(path[c], <<>>, links)
    BY <2>5, <2>6, EndedWalk DEF LinuxPaths
  <2>8. Arrives(c)'
    BY <1>1, <2>7 DEF Arrives, Standing
  <2>9. QED BY <1>1, <2>8 DEF WithKernel
<1>7. QED BY <1>1, <1>5, <1>6

\* A call that is not resolving a path has nothing to keep in step.
LEMMA KernelElsewhere ==
  ASSUME NEW Name, NEW c \in Caller, pc'[c] \notin UnixPhases
  PROVE  WithKernel(Name, c)'
BY DEF WithKernel, UnixPhases

\* A call's own state is all that it depends on.
LEMMA KernelKept ==
  ASSUME NEW Name, NEW c \in Caller, WithKernel(Name, c),
         pc'[c] = pc[c] /\ path'[c] = path[c] /\ asked'[c] = asked[c],
         snapshot'[c] = snapshot[c] /\ at'[c] = at[c] /\ hopsLeft'[c] = hopsLeft[c]
  PROVE  WithKernel(Name, c)'
<1>1. ASSUME NEW k, NEW dir, NEW rest, InStep(Name, c, k, dir, rest)
      PROVE  InStep(Name, c, k, dir, rest)'
  BY <1>1 DEF InStep
<1>2. Arrives(c) => Arrives(c)'
  BY DEF Arrives
<1>3. QED BY <1>1, <1>2 DEF WithKernel

LEMMA KernelStepKeeps ==
  ASSUME SpeedAssumption, TypeOK, NEW Name, LinuxPaths(Name), AllWithKernel(Name), [Next]_vars
  PROVE  AllWithKernel(Name)'
<1> SUFFICES ASSUME NEW x \in Caller PROVE WithKernel(Name, x)'
  BY DEF AllWithKernel
<1>1. WithKernel(Name, x)
  BY DEF AllWithKernel
<1>2. CASE Remount \/ UNCHANGED vars
  BY <1>1, <1>2, KernelKept DEF Remount, vars, walkVars
<1>3. ASSUME NEW c \in Caller, Apart(c), c # x PROVE WithKernel(Name, x)'
  BY <1>1, <1>3, KernelKept DEF Apart
<1>4. ASSUME NEW c \in Caller, WalkStep(c) PROVE WithKernel(Name, x)'
  <2>1. CASE c # x
    BY <1>3, <1>4, <2>1, WalkSteps
  <2>2. CASE c = x
    <3>1. CASE FindVolume(x)
      <4>1. pc'[x] \in {"return", "cache"}
        BY <3>1 DEF FindVolume, Goto, TypeOK
      <4>2. QED BY <4>1, KernelElsewhere DEF UnixPhases
    <3>2. QED BY <1>1, <1>4, <2>2, <3>1, ReadsMounts, EntersNext, FollowsLink, GivesUp, EndsWalk
              DEF WalkStep
  <2>3. QED BY <2>1, <2>2
<1>5. ASSUME NEW c \in Caller, TableStep(c) PROVE WithKernel(Name, x)'
  <2>1. CASE c # x
    BY <1>3, <1>5, <2>1, TableSteps
  <2>2. CASE c = x
    <3>1. pc'[x] \notin UnixPhases
      BY <1>5, <2>2, TableSteps DEF TablePhases, UnixPhases
    <3>2. QED BY <3>1, KernelElsewhere
  <2>3. QED BY <2>1, <2>2
<1>6. ASSUME NEW c \in Caller, Call(c) PROVE WithKernel(Name, x)'
  <2>1. CASE c # x
    BY <1>3, <1>6, <2>1, CacheSteps
  <2>2. CASE c = x
    <3>1. PICK p \in PathsOf(platform) :
            /\ asked' = [asked EXCEPT ![x] = p]
            /\ path' = [path EXCEPT ![x] = CanonicalPath(p, Firmlinks)]
      BY <1>6, <2>2 DEF Call
    <3>2. asked'[x] = p /\ path'[x] = p
      BY <3>1 DEF CanonicalPath, LinuxPaths, TypeOK
    <3>3. pc'[x] \in {"return", IF platform = "unix" THEN "mounts" ELSE "drive"}
      BY <1>6, <2>2 DEF Call, Goto, TypeOK
    <3>4. QED BY <3>1, <3>2, <3>3 DEF WithKernel
  <2>3. QED BY <2>1, <2>2
<1>7. ASSUME NEW c \in Caller, CacheHit(c) \/ CacheMiss(c) \/ Query(c) \/ Return(c)
      PROVE  WithKernel(Name, x)'
  <2>1. CASE c # x
    BY <1>3, <1>7, <2>1, CacheSteps
  <2>2. CASE c = x
    <3>1. pc'[x] \in {"return", "query", "idle"}
      BY <1>7, <2>2 DEF CacheHit, CacheMiss, Query, Return, Goto, TypeOK
    <3>2. QED BY <3>1, KernelElsewhere DEF UnixPhases
  <2>3. QED BY <2>1, <2>2
<1>8. QED BY <1>2, <1>4, <1>5, <1>6, <1>7 DEF Next, Step

-----------------------------------------------------------------------------
(* The theorems.                                                           *)

LEMMA Always == Spec => [](TypeOK /\ QueryIsAlone /\ OneEntryPerVolume /\ BehindIsLocal)
<1> DEFINE Inv == TypeOK /\ QueryIsAlone /\ OneEntryPerVolume /\ BehindIsLocal
<1>1. Init => Inv
  BY SpeedAssumption
     DEF Init, TypeOK, Phase, UnixPhases, TablePhases, QueryIsAlone, OneEntryPerVolume,
         BehindIsLocal, EmptyBag, SetToBag, BagToSet
<1>2. Inv /\ [Next]_vars => Inv'
  BY SpeedAssumption, Types, CacheStep, WalkingStep
<1>3. QED BY <1>1, <1>2, PTL DEF Spec

\* However many calls miss a volume together, its speed is stored once.
THEOREM StoredOnce == Spec => []OneEntryPerVolume
BY Always, PTL

\* Whatever links and firmlinks lead where, a walk reads a link only behind names
\* on local storage, none of which is itself a link.
THEOREM WalkStaysLocal == Spec => NeverWaitsOnRemote
<1>1. ASSUME TypeOK, BehindIsLocal, [Next]_vars, NEW c \in Caller, pc[c] = "walk",
             <<at[c], path[c], hopsLeft[c]>>' # <<at[c], path[c], hopsLeft[c]>>,
             NEW n \in 1 .. at[c]
      PROVE  LET folder == SubSeq(path[c], 1, n) IN
               /\ MountForPath(snapshot[c], folder).local
               /\ folder \in DOMAIN Links => n = at[c]
  <2>1. ASSUME NEW x \in Caller, Call(x) \/ Step(x) PROVE x = c
    BY <1>1, <2>1, SpeedAssumption, WalkSteps, TableSteps, CacheSteps DEF Step, Apart
  <2>2. ~Remount /\ ~UNCHANGED vars
    BY <1>1 DEF Remount, vars, walkVars
  <2>3. Call(c) \/ Step(c)
    BY <1>1, <2>1, <2>2 DEF Next
  <2>4. ~(Call(c) \/ TableStep(c) \/ CacheHit(c) \/ CacheMiss(c) \/ Query(c) \/ Return(c))
    BY <1>1, SpeedAssumption, TableSteps
       DEF Call, CacheHit, CacheMiss, Query, Return, Goto, TablePhases
  <2>5. Walking(c)
    <3>1. WalkStep(c)
      BY <2>3, <2>4 DEF Step
    <3>2. ~(ReadMounts(c) \/ WalkEnds(c) \/ FindVolume(c))
      BY <1>1 DEF ReadMounts, WalkEnds, FindVolume, Goto, walkVars
    <3>3. QED BY <3>1, <3>2 DEF WalkStep, NotALink, FollowLink, GiveUp
  <2>6. MountForPath(snapshot[c], SubSeq(path[c], 1, at[c])).local
    BY <2>5 DEF Walking, PrefixMount, Prefix
  <2>7. n = at[c] \/ n \in 1 .. at[c] - 1
    BY <1>1 DEF TypeOK
  <2>8. QED BY <1>1, <2>6, <2>7 DEF BehindIsLocal
<1>2. TypeOK /\ BehindIsLocal /\ [Next]_vars =>
        [\A c \in Caller :
           /\ pc[c] = "walk" /\ <<at[c], path[c], hopsLeft[c]>>' # <<at[c], path[c], hopsLeft[c]>>
           /\ snapshot[c] = [n \in DOMAIN mounts |-> Canonical(mounts[n])]
           => \A n \in 1 .. at[c] : LET folder == SubSeq(path[c], 1, n) IN
                /\ MountForPath(snapshot[c], folder).local
                /\ folder \in DOMAIN Links => n = at[c]]_vars
  BY <1>1
<1>3. QED BY <1>2, Always, PTL DEF Spec, NeverWaitsOnRemote

\* As long as no volume is mounted in a folder of another one, a Windows lookup
\* comes up with the volume that holds the path at that moment, though the table
\* it searches is old and the drive letters are reused.
THEOREM LookupIsCurrent ==
  ASSUME NEW Name, WindowsPaths(Name), NoFolderMounts
  PROVE  Spec => KeyIsCurrent
<1> DEFINE Current(c) == volume'[c] \notin {volume[c], NoVolume, path[c]} =>
                           volume'[c] = Deepest(SystemMounts(asked[c])).volume
<1>1. Init => WindowsInv
  BY DEF Init, WindowsInv, TableWasRead, PathIsAsked, IsAsked, UnixPhases, TablePhases
<1>2. TypeOK /\ WindowsInv /\ [Next]_vars => WindowsInv'
  BY SpeedAssumption, WindowsStep
<1>3. ASSUME TypeOK, WindowsInv, [Next]_vars, platform = "windows", NEW c \in Caller,
             volume'[c] \notin {volume[c], NoVolume, path[c]}
      PROVE  volume'[c] = Deepest(SystemMounts(asked[c])).volume
  <2>1. ASSUME NEW x \in Caller, Call(x) \/ Step(x) PROVE x = c
    BY <1>3, <2>1, SpeedAssumption, WalkSteps, TableSteps, CacheSteps DEF Step, Apart
  <2>2. Call(c) \/ Step(c)
    BY <1>3, <2>1 DEF Next, Remount, vars
  <2>3. ~(Call(c) \/ CacheHit(c) \/ CacheMiss(c) \/ Query(c) \/ Return(c))
    BY <1>3 DEF Call, CacheHit, CacheMiss, Query, Return, UnchangedByCache, TypeOK
  <2>4. ~WalkStep(c)
    <3>1. pc[c] \notin UnixPhases
      BY <1>3 DEF WindowsInv, PathIsAsked, IsAsked
    <3>2. QED BY <3>1 DEF WalkStep, ReadMounts, WalkEnds, NotALink, Walking, FollowLink, GiveUp,
                          FindVolume, Goto, UnixPhases
  <2>5. Hit(c) \/ AskVolume(c)
    <3>1. TableStep(c)
      BY <2>2, <2>3, <2>4 DEF Step
    <3>2. QED BY <1>3, <3>1 DEF TableStep, CheckDrive, ReadTable, LockTable, Stale, Reread, Miss,
                                AskMountPath, RefreshTable
  <2>6. /\ mounts \in MountingsOf("windows") /\ IsAsked(c)
        /\ SystemMounts(asked[c]) \subseteq Range(mounts)
        /\ \A k \in SystemMounts(asked[c]) : Under(asked[c], k.point) \/ asked[c] = k.point
    BY <1>3 DEF TypeOK, WindowsInv, PathIsAsked, SystemMounts
  <2>7. ASSUME asked[c] \in PathsOf("windows"), NEW m \in Range(mounts),
               Under(asked[c], m.point) \/ asked[c] = m.point
        PROVE  Deepest(SystemMounts(asked[c])) = m
    <3>1. m \in SystemMounts(asked[c])
      BY <2>7 DEF SystemMounts
    <3>2. QED BY <2>6, <2>7, <3>1, OneVolumeHolds
  <2>8. CASE Hit(c)
    <3> DEFINE S == InTable(path[c])
    <3>1. pc[c] \in TablePhases /\ S # {} /\ Valid(Deepest(S)) /\ volume'[c] = Deepest(S).volume
      BY <1>3, <2>8 DEF Hit, Attempting, TablePhases, TypeOK
    <3>2. path[c] = asked[c] /\ asked[c] \in PathsOf("windows")
      BY <2>6, <3>1 DEF IsAsked
    <3>3. PICK ms \in MountingsOf("windows") : table = EnumeratedIn(ms)
      <4>1. table # {}
        BY <3>1 DEF InTable
      <4>2. QED BY <1>3, <4>1 DEF WindowsInv, TableWasRead
    <3>4. S \subseteq Range(ms) /\ \A k \in S : Under(asked[c], k.point)
      BY <3>2, <3>3 DEF InTable, EnumeratedIn
    <3>5. PICK m \in S : TRUE
      BY <3>1
    <3>6. Deepest(S) = m
      <4> HIDE DEF S
      <4>1. QED BY <3>2, <3>4, <3>5, OneVolumeHolds
    <3>7. PICK k \in Range(mounts) : k.point = m.point /\ k.volume = m.volume
      BY <3>1, <3>6 DEF Valid
    <3>8. Under(asked[c], k.point)
      BY <3>4, <3>5, <3>7
    <3>9. Deepest(SystemMounts(asked[c])) = k
      BY <2>7, <3>2, <3>8
    <3>10. QED BY <3>1, <3>6, <3>7, <3>9
  <2>9. CASE AskVolume(c)
    <3> DEFINE S == {m \in Range(mounts) : m.guid /\ m.point = path[c]}
    <3>1. pc[c] = "name" /\ S # {} /\ volume'[c] = Deepest(S).volume
      BY <1>3, <2>9 DEF AskVolume, Goto, TypeOK
    <3>2. asked[c] \in PathsOf("windows") /\ (Under(asked[c], path[c]) \/ asked[c] = path[c])
      BY <2>6, <3>1 DEF IsAsked
    <3>3. PICK m \in S : TRUE
      BY <3>1
    <3>4. Deepest(S) = m
      <4>1. S \subseteq Range(mounts) /\ \A k \in S : Under(asked[c], k.point) \/ asked[c] = k.point
        BY <3>2
      <4> HIDE DEF S
      <4>2. QED BY <2>6, <3>2, <3>3, <4>1, OneVolumeHolds
    <3>5. Deepest(SystemMounts(asked[c])) = m
      BY <2>7, <3>2, <3>3
    <3>6. QED BY <3>1, <3>4, <3>5
  <2>10. QED BY <2>5, <2>8, <2>9
<1>4. TypeOK /\ WindowsInv /\ [Next]_vars =>
        [platform = "windows" => \A c \in Caller :
           volume'[c] \notin {volume[c], NoVolume, path[c]} =>
             volume'[c] = Deepest(SystemMounts(asked[c])).volume]_vars
  BY <1>3
<1>5. QED BY <1>1, <1>2, <1>4, Always, PTL DEF Spec, KeyIsCurrent

\* On Linux, wherever links lead: a call comes to the path that the kernel finds with
\* the mounts the call has read, for every limit on the links to be followed.
THEOREM ResolvesOnLinux ==
  ASSUME NEW Name, LinuxPaths(Name)
  PROVE  Spec => []ResolvesAsKernel
<1>1. Init => AllWithKernel(Name)
  BY DEF Init, AllWithKernel, WithKernel
<1>2. TypeOK /\ AllWithKernel(Name) /\ [Next]_vars => AllWithKernel(Name)'
  BY SpeedAssumption, KernelStepKeeps
<1>3. AllWithKernel(Name) => ResolvesAsKernel
  BY DEF AllWithKernel, WithKernel, Arrives, ResolvesAsKernel
<1>4. QED BY <1>1, <1>2, <1>3, Always, PTL DEF Spec
=============================================================================
