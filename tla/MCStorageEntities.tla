-------------------------- MODULE MCStorageEntities --------------------------
(* Instance of StorageEntities for TLC: two pools and four drives, listed in  *)
(* any order, by three firmwares: one that reports names and slots, of which  *)
(* one looks like a position; one that reports no identity; and one that      *)
(* reports identifiers and lists the drives beside the pools.                 *)
EXTENDS StorageEntities, SequencesExt

CONSTANTS media, backup, d1, d2, d3, c1

MCPools == {media, backup}
MCDrives == {d1, d2, d3, c1}

PoolId(p)   == IF p = media THEN <<"m0">> ELSE <<"b0">>
Serial(d)   == CASE d = d1 -> <<"s1">> [] d = d2 -> <<"s2">> [] d = d3 -> <<"s3">> [] d = c1 -> <<"cs">>
MCMachine   == {PoolId(p) : p \in MCPools}

\* "Media" goes by its name; "Pool 1" is spelled "pool1" by the firmware that has ids.
PoolTitle(p, firmware) ==
    IF p = media THEN <<"media">> ELSE IF firmware = "ids" THEN <<"pool1">> ELSE <<"pool", "1">>
\* "Hard Drive 1" is the name of d1; d2 and d3 have slots of their pools only,
\* and c1 is called like a position.
DriveTitle(d) ==
    CASE d = d1 -> <<"hard", "drive", "1">> [] d = c1 -> <<"drive", "2">> [] OTHER -> <<"1">>

MCLasting == {<<"media">>, <<"hard", "drive", "1">>}
             \cup {PoolId(p) : p \in MCPools} \cup {Serial(d) : d \in MCDrives}
MCSlugs == MCLasting \cup {PoolTitle(backup, f) : f \in {"ids", "names"}}
           \cup {DriveTitle(d) : d \in MCDrives}

MCNumeral == <<"1", "2", "3", "4", "5", "6">>
MCWords == UNION {{slug[i] : i \in DOMAIN slug} : slug \in MCSlugs} \cup {MCNumeral[i] : i \in 1 .. 6}
MCValue == [w \in MCWords |->
               IF \E i \in 1 .. 6 : MCNumeral[i] = w
               THEN CHOOSE i \in 1 .. 6 : MCNumeral[i] = w ELSE 0]
MCToken == [key \in PoolKeys \cup DriveKeys |-> FoldLeft(LAMBDA token, w : token \o w, "", key)]

MCOrders == {<<backup>>, <<media, backup>>, <<backup, media>>}
\* The members of `media`; those of `backup` are always <<d3>>.
MCMembers == {<<d1, d2>>, <<d2>>}

Disks(firmware, order, homes) ==
    [i \in DOMAIN order |->
        [drive |-> order[i],
         id |-> IF firmware = "ids" THEN Serial(order[i]) ELSE Nothing,
         name |-> IF firmware = "names" THEN DriveTitle(order[i]) ELSE Nothing,
         home |-> IF homes THEN PoolId(IF order[i] = d3 THEN backup ELSE media) ELSE Nothing]]

\* The cache drive is there as long as d1 is.
Payload(firmware, order, members) ==
    [pools |-> [i \in DOMAIN order |->
                 [pool |-> order[i],
                  id |-> IF firmware = "ids" THEN PoolId(order[i]) ELSE Nothing,
                  name |-> IF firmware = "bare" THEN Nothing ELSE PoolTitle(order[i], firmware),
                  members |-> IF firmware = "ids" THEN <<>>
                              ELSE Disks(firmware, IF order[i] = media THEN members ELSE <<d3>>,
                                         FALSE)]],
     disks |-> IF firmware = "ids" THEN Disks(firmware, <<d3>> \o members, TRUE) ELSE <<>>,
     cache |-> IF members = <<d2>> THEN <<>> ELSE Disks(firmware, <<c1>>, FALSE)]

MCPayloads ==
    {Payload(firmware, order, members) :
        firmware \in {"names", "bare", "ids"}, order \in MCOrders, members \in MCMembers}
=============================================================================
