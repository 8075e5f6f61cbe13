--------------------------- MODULE MCVolumeSpeed ----------------------------
(***************************************************************************)
(* VolumeSpeed with every volume that its three platforms tell apart.      *)
(***************************************************************************)
EXTENDS VolumeSpeed

\* Without a bridge in between, a disk claims what it is, or nothing.
AllVolumes ==
  {v \in [os : {"linux", "macOS", "windows"}, kind : {"fixed", "removable", "ram", "none"},
          link : {"internal", "usb", "thunderbolt"}, medium : {"solid", "spinning"},
          claims : {"solid", "spinning", ""}, mapped : BOOLEAN, partition : BOOLEAN] :
     v.claims \in {v.medium, ""} \/ v.link = "usb"}
=============================================================================
