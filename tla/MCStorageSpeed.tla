--------------------------- MODULE MCStorageSpeed ---------------------------
(***************************************************************************)
(* StorageSpeed on a small instance.                                       *)
(*                                                                         *)
(* unix: a root volume, a disk on h, a share on n, the data volume of      *)
(* macOS on d with the firmlink u.  p is a link to h/q, that one climbs to *)
(* u/r, and r leads to the share; l is a cycle; there is a link at n too,  *)
(* under the share.  windows: C, whose volume has the GUID G, and D, which *)
(* is a volume, another one or a RAM disk; there is no drive E.            *)
(***************************************************************************)
EXTENDS StorageSpeed

CONSTANTS c1, c2

Absolute(names) == [absolute |-> TRUE, names |-> names]
Relative(names) == [absolute |-> FALSE, names |-> names]
LinkAt(p) == CASE p = <<"p">> -> Absolute(<<"h", "q">>)
               [] p = <<"h", "q">> -> Relative(<<"..", "u", "r">>)
               [] p = <<"d", "u", "r">> -> Absolute(<<"n", "x">>)
               [] p = <<"l">> -> Relative(<<"l">>)
               [] p = <<"n">> -> Absolute(<<"h">>)
MCLinks == [p \in {<<"p">>, <<"h", "q">>, <<"d", "u", "r">>, <<"l">>, <<"n">>} |-> LinkAt(p)]
MCFirmlinks == [p \in {<<"u">>} |-> <<"d", "u">>]

Mount(point, volume_, local) ==
  [point |-> point, volume |-> <<volume_>>, local |-> local, guid |-> TRUE]
Root == <<Mount(<<>>, "root", TRUE), Mount(<<"d">>, "data", TRUE)>>
UnixMounts == {Root \o <<Mount(<<"h">>, "hdd", TRUE), Mount(<<"n">>, "nas", FALSE)>>,
               Root \o <<Mount(<<"h">>, "hdd", TRUE), Mount(<<"h">>, "top", TRUE)>>}

System == <<Mount(<<"C">>, "system", TRUE), Mount(<<"G">>, "system", TRUE)>>
WindowsMounts == {System \o <<Mount(<<"D">>, "old", TRUE)>>, System \o <<Mount(<<"D">>, "new", TRUE)>>,
                  System \o <<[Mount(<<"D">>, "ram", TRUE) EXCEPT !.guid = FALSE]>>}

Mountings(system) == IF system = "unix" THEN UnixMounts ELSE WindowsMounts
Paths(system) == IF system = "unix" THEN {<<"p", "z">>, <<"l">>}
                 ELSE {<<"D", "x">>, <<"E", "x">>, <<"G", "x">>}
=============================================================================
