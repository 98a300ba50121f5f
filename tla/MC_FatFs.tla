------------------------------ MODULE MC_FatFs ------------------------------
(***************************************************************************)
(* Instances of FatCheck: one- and two-sector clusters, a handful of them,  *)
(* volumes prepared by the calls themselves.                                *)
(***************************************************************************)
EXTENDS FatCheck, TLC

Rel(segs) == [abs |-> FALSE, segs |-> segs]
Abs(segs) == [abs |-> TRUE, segs |-> segs]
A  == Rel(<<"A">>)
B  == Rel(<<"B">>)
D  == Abs(<<"D">>)
DA == Abs(<<"D", "A">>)
Dotdot == Rel(<<"..">>)
MCPaths   == {A, B, D, DA, Dotdot}
\* A directory is never renamed into itself: the code does not refuse it.
MCRenames == {<<A, B>>, <<A, DA>>, <<DA, B>>, <<D, Abs(<<"B">>)>>}

MCModes == {{"READ"}, {"WRITE", "CREATE_ALWAYS"}, {"READ", "WRITE", "OPEN_ALWAYS", "SEEKEND"}}
Byte(n) == [data |-> n]
MCWrites == {<<Byte(1)>>, <<Byte(2), Byte(3), Byte(4), Byte(5), Byte(6)>>}
MCHandles == {0, 1}
MCPatterns == {{"A", "B", "D", "F"}}

\* An empty volume, as a formatting tool leaves it, behind a boot record.
Blankdisk(fat32) ==
    LET Link0(c) == IF c >= n_fatent THEN 1 ELSE IF c < 2 \/ (fat32 /\ c = RootCluster) THEN EOC ELSE 0
        last == rootbase + (IF fat32 THEN 0 ELSE n_rootdir \div SS) + csize * (n_fatent - 2) - 1
        Sector(s) ==
            IF s = 0 THEN [boot |-> [kind |-> "mbr", part |-> <<0, volbase, 0, 0>>]]
            ELSE IF s = volbase THEN [boot |-> [kind |-> "fat", part |-> <<>>]]
            ELSE IF s = volbase + 1
            THEN [fsinfo |-> [free |-> n_fatent - 2 - (IF fat32 THEN 1 ELSE 0), next |-> Unknown]]
            ELSE IF s \in fatbase .. rootbase - 1
            THEN [fat |-> [i \in 0 .. FPS - 1 |-> Link0(((s - fatbase) % fsize) * FPS + i)]]
            ELSE IF s = rootbase THEN [Cleared EXCEPT !.slots[0] = [NewEntry("VOL") EXCEPT !.attr = "volume"]]
            ELSE Cleared
    IN  [s \in 0 .. last + 1 |-> Sector(s)]      \* the card goes on behind the volume

\* Without faults a call leaves one volume behind.
Left(ws) == Settled(CHOOSE w \in ws : TRUE)
Fresh(fat32) == Left(f_mount(OffVolume([disk |-> Blankdisk(fat32), fat32 |-> fat32])))
Stored(v, h, path, mode, data) == Left(f_write(Left(f_open(v, h, path, mode)), h, data))
Saved(v, path, data) == Left(f_close(Stored(v, 1, path, {"WRITE", "CREATE_ALWAYS"}, data), 1))
Start(v, used) == [vol |-> v, handle_used |-> [h \in Handles |-> h \in used]]

\* The root is full with F, D and A (five bytes); D/A is there, nothing is open.
Bystander(fat32) == Saved(Fresh(fat32), Rel(<<"F">>), <<Byte(9)>>)
Filled(fat32) ==
    LET d == Left(f_mkdir(Bystander(fat32), D))
    IN  Saved(Saved(d, A, <<Byte(1), Byte(2), Byte(3), Byte(4), Byte(5)>>), DA, <<Byte(6)>>)
\* B is being written and a search of the root has given its first entry.
Writing(fat32) ==
    Stored(Left(f_findfirst(Filled(fat32), Rel(<<>>), {"A", "B", "D", "F"})),
           0, B, {"READ", "WRITE", "CREATE_ALWAYS"}, <<Byte(7)>>)
\* The current directory is D, whose file is being read.
Reading(fat32) ==
    Left(f_open(Left(f_chdir(Filled(fat32), D)), 0, A, {"READ"}))

MCStarts == {Start(Filled(TRUE), {}), Start(Writing(TRUE), {0}), Start(Reading(TRUE), {0}),
             Start(Bystander(FALSE), {})}

\* Fewer arguments, for three calls one of which meets a fault.
FewPaths  == {A, B, DA}
FewModes  == {{"WRITE", "CREATE_ALWAYS"}}
FewWrites == {<<Byte(2), Byte(3), Byte(4), Byte(5), Byte(6)>>}
FewStarts == {Start(Writing(TRUE), {0}), Start(Bystander(FALSE), {})}
=============================================================================
