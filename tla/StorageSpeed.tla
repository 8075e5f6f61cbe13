---------------------------- MODULE StorageSpeed ----------------------------
(***************************************************************************)
(* storageSpeedForPath (system/storagespeed.cpp): callers that find the    *)
(* volume holding a path, while volumes are mounted and unmounted, and ask *)
(* for its speed, cached per volume.                                       *)
(*                                                                         *)
(* The build fixes the platform.  On "unix" (Linux and macOS) a call reads *)
(* the mount table once and resolves symlinks against this snapshot.  On   *)
(* "windows" a table shared by all calls is searched, and checked with the *)
(* system on every hit.  What the system answers is in mounts; each access *)
(* to the system, and each critical section between two, is a step, and an *)
(* enumeration of the mounts is one access.                                *)
(***************************************************************************)
EXTENDS BagsExt, VolumePaths

CONSTANTS
  Caller, Nobody,
  Platforms,         \* "unix", "windows"
  PathsOf(_),        \* the paths callers ask for, per platform
  MountingsOf(_),    \* the mount tables there may be, per platform
  Links,             \* the target of each path that is a link
  Firmlinks,         \* empty but on macOS
  Drives,            \* the first names of paths that are drive letters
  MaxHops,           \* the 40 of resolveLocalSymlinks
  MaxNames           \* how many names a path, or a link's target, may have

ASSUME SpeedAssumption ==
  /\ Nobody \notin Caller /\ Platforms \subseteq {"unix", "windows"}
  /\ MaxHops \in Nat \ {0} /\ MaxNames \in Nat

VARIABLES
  platform, mounts,
  pc, path,
  asked,        \* history: the path the call was made for
  snapshot,     \* the mounts a unix call has read
  at, hopsLeft, \* resolveLocalSymlinks: the component looked at; the limit
  table,        \* windows: the mount table, as a set that is empty until it is read
  tableOwner,   \* the call that holds its mutex
  volume,       \* the key found for the path: a volume, or a mount path
  cache,        \* a bag: nothing depends on the order of the entries
  cacheOwner

walkVars == <<snapshot, at, hopsLeft>>
tableVars == <<table, tableOwner>>
cacheVars == <<cache, cacheOwner>>
vars == <<platform, mounts, pc, path, asked, walkVars, tableVars, volume, cacheVars>>

Link(p) == IF p \in DOMAIN Links THEN {Links[p]} ELSE {}
NoVolume == <<>>

Init ==
  /\ platform \in Platforms /\ mounts \in MountingsOf(platform)
  /\ pc = [c \in Caller |-> "idle"] /\ path = [c \in Caller |-> <<>>]
  /\ asked = [c \in Caller |-> <<>>]
  /\ snapshot = [c \in Caller |-> <<>>]
  /\ at = [c \in Caller |-> 1] /\ hopsLeft = [c \in Caller |-> 0]
  /\ table = {} /\ tableOwner = Nobody
  /\ volume = [c \in Caller |-> NoVolume]
  /\ cache = EmptyBag /\ cacheOwner = Nobody

Goto(c, from, to) == pc[c] = from /\ pc' = [pc EXCEPT ![c] = to]

\* Volumes come and go; a drive letter may get another volume.
Remount ==
  /\ mounts' \in MountingsOf(platform) \ {mounts}
  /\ UNCHANGED <<platform, pc, path, asked, walkVars, tableVars, volume, cacheVars>>

\* The path is made absolute, normal and, on macOS, canonical.  With a path that
\* cannot be, or is that of a Windows share, the call is over.
Call(c) ==
  /\ \E to \in {"return", IF platform = "unix" THEN "mounts" ELSE "drive"} : Goto(c, "idle", to)
  /\ \E p \in PathsOf(platform) : /\ asked' = [asked EXCEPT ![c] = p]
                                  /\ path' = [path EXCEPT ![c] = CanonicalPath(p, Firmlinks)]
  /\ UNCHANGED <<platform, mounts, walkVars, tableVars, volume, cacheVars>>

-----------------------------------------------------------------------------
(* Linux and macOS: volumeDeviceForPath.                                   *)

UnchangedByWalk == UNCHANGED <<platform, mounts, tableVars, cacheVars>>
Canonical(m) == [m EXCEPT !.point = CanonicalPath(@, Firmlinks)]

ReadMounts(c) ==
  /\ Goto(c, "mounts", "walk")
  /\ snapshot' = [snapshot EXCEPT ![c] = [n \in DOMAIN mounts |-> Canonical(mounts[n])]]
  /\ at' = [at EXCEPT ![c] = 1] /\ hopsLeft' = [hopsLeft EXCEPT ![c] = MaxHops]
  /\ UNCHANGED <<path, asked, volume>> /\ UnchangedByWalk

Prefix(c) == SubSeq(path[c], 1, at[c])
ParentMount(c) == MountForPath(snapshot[c], Front(Prefix(c)))     \* mutant
PrefixMount(c) == MountForPath(snapshot[c], Prefix(c))
Walking(c) == pc[c] = "walk" /\ at[c] <= Len(path[c]) /\ PrefixMount(c).local

\* The end of the path, or remote storage, is reached.
WalkEnds(c) ==
  /\ ~Walking(c) /\ Goto(c, "walk", "volume")
  /\ UNCHANGED <<path, asked, walkVars, volume>> /\ UnchangedByWalk

NotALink(c) ==
  /\ Walking(c) /\ Link(Prefix(c)) = {}
  /\ at' = [at EXCEPT ![c] = @ + 1]
  /\ UNCHANGED <<pc, path, asked, snapshot, hopsLeft, volume>> /\ UnchangedByWalk

\* The path with the component at n replaced by its link's target.
Spliced(p, n, target) ==
  LexicallyNormal((IF target.absolute THEN <<>> ELSE SubSeq(p, 1, n - 1)) \o target.names
                  \o SubSeq(p, n + 1, Len(p)))

\* Mutants: links in the target are not looked for; no limit.
GoOnBehind(c) == at[c] + 1
NoLimit(c) == FALSE

StartOver(c) == 1
LastHop(c) == hopsLeft[c] = 1

FollowLink(c) ==
  /\ Walking(c) /\ ~LastHop(c)
  /\ \E target \in Link(Prefix(c)) :
       path' = [path EXCEPT ![c] = CanonicalPath(Spliced(@, at[c], target), Firmlinks)]
  /\ at' = [at EXCEPT ![c] = StartOver(c)]
  /\ hopsLeft' = [hopsLeft EXCEPT ![c] = IF @ = 0 THEN 0 ELSE @ - 1]
  /\ UNCHANGED <<pc, asked, snapshot, volume>> /\ UnchangedByWalk

GiveUp(c) ==
  /\ Walking(c) /\ LastHop(c) /\ Link(Prefix(c)) # {}
  /\ Goto(c, "walk", "volume") /\ hopsLeft' = [hopsLeft EXCEPT ![c] = 0]
  /\ UNCHANGED <<path, asked, snapshot, at, volume>> /\ UnchangedByWalk

\* What a call leaves behind when its walk, or the call itself, returns.
ForgetPath(c) ==
  /\ path' = [path EXCEPT ![c] = <<>>] /\ asked' = [asked EXCEPT ![c] = <<>>]
  /\ snapshot' = [snapshot EXCEPT ![c] = <<>>]
  /\ at' = [at EXCEPT ![c] = 1] /\ hopsLeft' = [hopsLeft EXCEPT ![c] = 0]

\* Without a mount, or a device that is one, the answer is SlowOrUnknown.
FindVolume(c) ==
  LET m == MountForPath(snapshot[c], path[c]) IN
  /\ \/ /\ Goto(c, "volume", "return") /\ UNCHANGED volume
     \/ /\ m # NoMount /\ Goto(c, "volume", "cache")
        /\ volume' = [volume EXCEPT ![c] = m.volume]
  /\ ForgetPath(c) /\ UnchangedByWalk

WalkStep(c) == ReadMounts(c) \/ WalkEnds(c) \/ NotALink(c) \/ FollowLink(c) \/ GiveUp(c)
               \/ FindVolume(c)

-----------------------------------------------------------------------------
(* Windows: volumeKeyForPath.  A mount path ends in a backslash, so a path *)
(* is within it only if it goes on behind it, or is a drive's root.        *)

UnchangedByTable == UNCHANGED <<platform, mounts, asked, walkVars, cacheVars>>
Under(p, point) == IsStrictPrefix(point, p) \/ (p = point /\ Len(p) = 1)
OnDrive(p) == p[1] \in Drives
Enumerated == {{m \in Range(mounts) : m.guid /\ OnDrive(m.point)}}
Deepest(S) == CHOOSE m \in S : \A k \in S : Len(k.point) <= Len(m.point)
InTable(p) == {m \in UNION table : Under(p, m.point)}
SystemMounts(p) == {m \in Range(mounts) : Under(p, m.point) \/ p = m.point}

\* Neither a share nor a removable drive is looked up at all.  A path may begin with
\* a volume's GUID, which the system knows and no table lists.
CheckDrive(c) ==
  LET drive == {m \in Range(mounts) : m.point = SubSeq(path[c], 1, 1)} IN
  /\ Goto(c, "drive", IF OnDrive(path[c]) => \E m \in drive : m.local THEN "search" ELSE "return")
  /\ UNCHANGED <<path, tableVars, volume>> /\ UnchangedByTable

\* The table is read before its mutex is first taken.
ReadTable(c) ==
  /\ table = {} /\ Goto(c, "search", "search") /\ table' = Enumerated
  /\ UNCHANGED <<path, tableOwner, volume>> /\ UnchangedByTable

LockTable(c) ==
  /\ table # {} /\ tableOwner = Nobody /\ Goto(c, "search", "first") /\ tableOwner' = c
  /\ UNCHANGED <<path, table, volume>> /\ UnchangedByTable

\* The system still has the volume the table names there.
ValidUnseen(m) == TRUE                                            \* mutant
Valid(m) == \E k \in Range(mounts) : k.point = m.point /\ k.volume = m.volume

Attempting(c) == pc[c] \in {"first", "second"}
Hit(c) ==
  /\ Attempting(c) /\ InTable(path[c]) # {}
  /\ LET m == Deepest(InTable(path[c])) IN
     /\ Valid(m) /\ volume' = [volume EXCEPT ![c] = m.volume]
  /\ pc' = [pc EXCEPT ![c] = "cache"] /\ tableOwner' = Nobody
  /\ UNCHANGED <<path, table>> /\ UnchangedByTable

Stale(c) ==
  /\ pc[c] = "first" /\ InTable(path[c]) # {} /\ ~Valid(Deepest(InTable(path[c])))
  /\ pc' = [pc EXCEPT ![c] = "reread"]
  /\ UNCHANGED <<path, tableVars, volume>> /\ UnchangedByTable

Reread(c) ==
  /\ Goto(c, "reread", "second") /\ table' = Enumerated
  /\ UNCHANGED <<path, tableOwner, volume>> /\ UnchangedByTable

Miss(c) ==
  /\ Attempting(c)
  /\ InTable(path[c]) # {} => pc[c] = "second" /\ ~Valid(Deepest(InTable(path[c])))
  /\ pc' = [pc EXCEPT ![c] = "system"] /\ tableOwner' = Nobody
  /\ UNCHANGED <<path, table, volume>> /\ UnchangedByTable

\* volumeKeyFromSystem: the mount path, then its volume, which a mount path that
\* has no GUID, or has lost its volume meanwhile, is the key of itself.
AskMountPath(c) ==
  LET S == SystemMounts(path[c]) IN
  /\ Goto(c, "system", IF S = {} THEN "return" ELSE "name")
  /\ path' = [path EXCEPT ![c] = IF S = {} THEN @ ELSE Deepest(S).point]
  /\ UNCHANGED <<tableVars, volume>> /\ UnchangedByTable

AskVolume(c) ==
  LET S == {m \in Range(mounts) : m.guid /\ m.point = path[c]} IN
  /\ Goto(c, "name", IF S = {} THEN "cache" ELSE "refresh")
  /\ volume' = [volume EXCEPT ![c] = IF S = {} THEN path[c] ELSE Deepest(S).volume]
  /\ UNCHANGED <<path, tableVars>> /\ UnchangedByTable

RefreshTable(c) ==
  /\ tableOwner = Nobody /\ Goto(c, "refresh", "cache")
  /\ table' = Enumerated
  /\ UNCHANGED <<path, tableOwner, volume>> /\ UnchangedByTable

TableStep(c) == CheckDrive(c) \/ ReadTable(c) \/ LockTable(c) \/ Hit(c) \/ Stale(c)
                \/ Reread(c) \/ Miss(c) \/ AskMountPath(c) \/ AskVolume(c) \/ RefreshTable(c)

-----------------------------------------------------------------------------
(* storageSpeedForPath: the cache, whose mutex is held across the query.   *)

UnchangedByCache == UNCHANGED <<platform, mounts, path, asked, walkVars, tableVars, volume>>

CacheHit(c) ==
  /\ cacheOwner = Nobody /\ BagIn(volume[c], cache)
  /\ Goto(c, "cache", "return")
  /\ UNCHANGED cacheVars /\ UnchangedByCache

CacheMissUnlocked(c) ==                                           \* mutant
  /\ ~BagIn(volume[c], cache) /\ Goto(c, "cache", "query")
  /\ UNCHANGED cacheVars /\ UnchangedByCache

CacheMiss(c) ==
  /\ cacheOwner = Nobody /\ ~BagIn(volume[c], cache)
  /\ Goto(c, "cache", "query") /\ cacheOwner' = c
  /\ UNCHANGED cache /\ UnchangedByCache

\* queryVolumeSpeed and emplace_back.
Query(c) ==
  /\ Goto(c, "query", "return")
  /\ cache' = BagAdd(cache, volume[c]) /\ cacheOwner' = Nobody
  /\ UnchangedByCache

Return(c) ==
  /\ Goto(c, "return", "idle") /\ ForgetPath(c)
  /\ volume' = [volume EXCEPT ![c] = NoVolume]
  /\ UNCHANGED <<platform, mounts, tableVars, cacheVars>>

Step(c) == WalkStep(c) \/ TableStep(c)
           \/ CacheHit(c) \/ CacheMiss(c) \/ Query(c) \/ Return(c)

Next == Remount \/ \E c \in Caller : Call(c) \/ Step(c)

Spec == Init /\ [][Next]_vars

\* Every access to the system returns, and a contended mutex is granted.
FairSpec == Spec /\ \A c \in Caller : SF_vars(Step(c))

-----------------------------------------------------------------------------
(* Correctness.                                                            *)

\* How the kernel looks a path up, one name after the other: a link is followed
\* from where it is, a firmlink entered, ".." leads to the parent.  The walk
\* stops at remote storage, "classified by the volume holding it".
KernelStep(s, table_) ==
  LET name == Head(s.rest)  next == Append(s.dir, name)  rest == Tail(s.rest) IN
  CASE s.rest = <<>> -> s
    [] s.rest # <<>> /\ name = ".." ->
         [s EXCEPT !.dir = Climb(@, name), !.rest = rest]
    [] s.rest # <<>> /\ name # ".." /\ ~MountForPath(table_, next).local ->
         [s EXCEPT !.dir = LexicallyNormal(next \o rest), !.rest = <<>>]
    [] OTHER ->
         IF next \in DOMAIN Links
         THEN [dir |-> IF Links[next].absolute THEN <<>> ELSE s.dir,
               rest |-> Links[next].names \o rest, links |-> s.links + 1]
         ELSE [s EXCEPT !.dir = IF next \in DOMAIN Firmlinks THEN Firmlinks[next] ELSE next,
                        !.rest = rest]

\* WalkBound: the names in a path and in the targets of MaxHops links.
WalkBound == MaxNames * (MaxHops + 1)
Lookup(p) == [dir |-> <<>>, rest |-> p, links |-> 0]
KernelWalk(table_, p) == FoldLeft(KernelStep, Lookup(p), [n \in 1 .. WalkBound |-> table_])

\* The path at which a call arrives, starting over at each link, is the one the
\* kernel finds with the same mounts, if it takes fewer than MaxHops links.
ResolvesAsKernel == \A c \in Caller : pc[c] = "volume" =>
  LET s == KernelWalk(snapshot[c], asked[c]) IN s.links < MaxHops => path[c] = s.dir

\* "Symlinks are followed only on local storage": unless the mounts have changed
\* since the call read them, reading a link makes the kernel touch nothing on
\* remote storage, where it could wait for an unreachable share; none of the
\* names before it is a link that would take the kernel elsewhere.
NeverWaitsOnRemote ==
  [][\A c \in Caller :
       /\ pc[c] = "walk" /\ <<at[c], path[c], hopsLeft[c]>>' # <<at[c], path[c], hopsLeft[c]>>
       /\ snapshot[c] = [n \in DOMAIN mounts |-> Canonical(mounts[n])]
       => \A n \in 1 .. at[c] : LET folder == SubSeq(path[c], 1, n) IN
            /\ MountForPath(snapshot[c], folder).local
            /\ folder \in DOMAIN Links => n = at[c]]_vars

\* "Drive letters are routinely reused": the volume a Windows lookup comes up
\* with, from however old a table, is the one that holds the path at that moment.
KeyIsCurrent ==
  [][platform = "windows" => \A c \in Caller :
       volume'[c] \notin {volume[c], NoVolume, path[c]} =>
         volume'[c] = Deepest(SystemMounts(asked[c])).volume]_vars

\* Each volume is queried and stored once, however many calls miss it together.
OneEntryPerVolume == \A v \in BagToSet(cache) : cache[v] = 1

\* A call ends, on a cycle of links too.
LookupEnds == \A c \in Caller : pc[c] # "idle" ~> pc[c] = "idle"
=============================================================================
