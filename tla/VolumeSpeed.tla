---------------------------- MODULE VolumeSpeed -----------------------------
(***************************************************************************)
(* queryVolumeSpeed() of system/storagespeed.cpp on its three platforms,   *)
(* and the cache in front of it, for one key: a device's number or name on *)
(* Linux and macOS, a mount path without a GUID on Windows, may come to    *)
(* stand for another volume, and the mount path of a GUID to lead to one.  *)
(* Each question to the system is a step, and each may fail.               *)
(***************************************************************************)
EXTENDS Naturals

\* A volume has an os; a kind: "fixed", "removable", "ram" or "none", with no disk
\* behind it; a link: "internal", "usb" or "thunderbolt"; a medium, "solid" or
\* "spinning", and what it claims of it, if it says; it may be mapped, onto a disk
\* that the system shows behind another node, and a partition.
CONSTANTS Volumes, MaxReplaced

VolumesAssumption == MaxReplaced \in Nat /\ \A v \in Volumes :
  /\ v.os \in {"linux", "macOS", "windows"} /\ v.claims \in {"solid", "spinning", ""}
  /\ v.kind \in {"fixed", "removable", "ram", "none"}

HasDisk(v) == v.kind \in {"fixed", "removable"}

VARIABLES
  volume,      \* the one that the key stands for
  keyedBy,     \* "number" or name of a device; on Windows "guid", or "path" without one
  mounted,     \* the volume at the key's mount path, asked on Windows
  replaced,    \* how often one was, for the bound
  step,        \* where the query stands; "idle"
  found,       \* the volume whose node, handle or media object the query holds
  cached,      \* the speed in the cache, in a set
  answer       \* of the last call

key == <<volume, keyedBy, mounted, replaced>>
vars == <<key, step, found, cached, answer>>

Init ==
  /\ volume \in Volumes /\ mounted = volume /\ found = volume /\ replaced = 0
  /\ keyedBy \in {"number", "guid", "path"}
  /\ keyedBy = "number" <=> volume.os # "windows"
  /\ keyedBy = "guid" => volume.kind # "none"
  /\ step = "idle" /\ cached = {} /\ answer = "none"

\* A disk goes, and one that comes gets its number, its name or its drive letter.
\* A GUID is a volume's own: its letter alone leads to the other one.
Replace ==
  /\ replaced < MaxReplaced /\ replaced' = replaced + 1
  /\ mounted' \in {v \in Volumes \ {mounted} : v.os = volume.os}
  /\ volume' = IF keyedBy = "guid" THEN volume ELSE mounted'
  /\ UNCHANGED <<keyedBy, step, found, cached, answer>>

CacheHit ==
  /\ step = "idle" /\ cached # {} /\ answer' \in cached
  /\ UNCHANGED <<key, step, found, cached>>

CacheMiss ==
  /\ step = "idle" /\ cached = {} /\ step' = volume.os
  /\ UNCHANGED <<key, found, cached, answer>>

\* The query goes on with what it found, or ends with a speed.
Continue(to) ==
  /\ step' = to /\ UNCHANGED <<key, cached, answer>>
Settle(speed) ==
  /\ step' = "idle" /\ answer' = speed /\ cached' = {speed}
  /\ UNCHANGED <<key, found>>
Slow == Settle("SlowOrUnknown")
Fast == Settle("FastRandomAccess")

-----------------------------------------------------------------------------
(* Linux.                                                                  *)

ShowsNoBus(v) == FALSE                                           \* mutant
\* "/usb" in the path of the device's node: a mapped one is under /sys/devices/virtual.
ShowsUsb(v) == v.link = "usb" /\ ~v.mapped

FindNode ==
  /\ step = "linux"
  /\ \/ Slow
     \/ /\ HasDisk(volume) /\ ~ShowsUsb(volume)
        /\ Continue("node") /\ found' = volume

\* The node's path still leads to a disk: the same one, or one in its place.
InPlace == HasDisk(volume) /\ volume.link = found.link /\ volume.mapped = found.mapped
Rotational == IF volume.claims = "solid" THEN Fast ELSE Slow
Readable == InPlace /\ volume.claims # ""

\* queue/rotational of the node, then of its parent, where a partition has it.
ReadNodeQueue ==
  /\ step = "node"
  /\ \/ Continue("parent") /\ UNCHANGED found
     \/ Readable /\ ~volume.partition /\ Rotational

ReadParentQueue ==
  /\ step = "parent"
  /\ Slow \/ (Readable /\ volume.partition /\ found.partition /\ Rotational)

-----------------------------------------------------------------------------
(* Windows.                                                                *)

\* GetDriveTypeW is asked of the mount path, whose volume may be another one than
\* the GUID's, and without a GUID there is nothing more to ask.
DriveType ==
  /\ step = "windows"
  /\ CASE mounted.kind = "ram" -> Fast
       [] mounted.kind = "fixed" /\ keyedBy = "guid" -> Continue("open") /\ UNCHANGED found
       [] OTHER -> Slow

\* The GUID's own volume.
OpenVolume == step = "open" /\ (Slow \/ (Continue("seek penalty") /\ found' = volume))

SeekPenalty ==
  /\ step = "seek penalty"
  /\ Slow \/ (found.claims = "solid" /\ Continue("bus") /\ UNCHANGED found)

\* A storage space is a bus of its own.
BusType ==
  /\ step = "bus"
  /\ Slow \/ ((found.link # "usb" \/ found.mapped) /\ Fast)

-----------------------------------------------------------------------------
(* macOS: the registry is searched upward, through what a volume is mapped onto. *)

FindMedia ==
  /\ step = "macOS"
  /\ Slow \/ (HasDisk(volume) /\ Continue("medium") /\ found' = volume)

MediumType ==
  /\ step = "medium"
  /\ Slow \/ (found.claims = "solid" /\ Continue("interconnect") /\ UNCHANGED found)

Interconnect ==
  /\ step = "interconnect"
  /\ Slow \/ (found.link # "usb" /\ Fast)

Query == FindNode \/ ReadNodeQueue \/ ReadParentQueue
         \/ DriveType \/ OpenVolume \/ SeekPenalty \/ BusType
         \/ FindMedia \/ MediumType \/ Interconnect

Next == Replace \/ CacheHit \/ CacheMiss \/ Query

Spec == Init /\ [][Next]_vars

-----------------------------------------------------------------------------
\* A volume that attests to being fast: a RAM disk, or one that claims to be solid
\* and is not seen to be on USB, whose bridges may claim anything.
RamDisk(v) == v.os = "windows" /\ v.kind = "ram"
Attests(v) ==
  RamDisk(v) \/ (HasDisk(v) /\ v.claims = "solid" /\ (v.link = "usb" => v.mapped))

\* A query that answers FastRandomAccess was told so by every question, about a
\* volume that the key stood for meanwhile, wherever disks were replaced between
\* the questions; or else on Windows, where the mount path is asked first, a RAM
\* disk has that path by now, be the key another volume's GUID.
FastIsAttested ==
  [][cached = {} /\ cached' = {"FastRandomAccess"} =>
       RamDisk(mounted) \/ \E v \in {found, volume} : Attests(v)]_vars

\* "Internal SSD or RAM disk": whatever is external is "SlowOrUnknown".
FastIsInternal ==
  step = "idle" /\ answer = "FastRandomAccess" =>
    volume.kind = "ram" \/ (volume.link = "internal" /\ volume.medium = "solid")
=============================================================================
