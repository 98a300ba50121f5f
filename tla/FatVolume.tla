------------------------------ MODULE FatVolume ------------------------------
(***************************************************************************)
(* FatFS below its API (software/spu32-system/bios/fatfs/ff.c, configured   *)
(* by ffconf.h): the one-sector window on the disk, the allocation table,   *)
(* directories, the lock table and mounting.                                *)
(*                                                                         *)
(* Every function works on a volume v, the record of all that FatFS keeps,  *)
(* and returns the set of the volumes it may leave behind: v.res is its     *)
(* result, v.val a number it found, v.dp the DIR object it works on.  Only  *)
(* the disk makes a difference: it is reached a sector at a time, and while *)
(* v.may holds, one access may fail, which v.fault then tells:              *)
(*    refused     this one access has no effect and reports an error        *)
(*    unanswered  it has its effect and reports an error all the same       *)
(*    dead        this and every later access is refused: the card is gone, *)
(*                or, to look at what a power cut leaves on the disk        *)
(* Names, bytes and entries are values of their own, and a directory entry  *)
(* is as long as a byte.  A sector is a record whose one field tells what   *)
(* it was written as: slots (SS bytes or entries), fat, fsinfo, boot.       *)
(***************************************************************************)
EXTENDS Integers, Sequences

LOCAL INSTANCE FiniteSetsExt

CONSTANTS volbase,      \* where the volume begins on the disk
          SS,           \* slots of a sector
          FPS,          \* entries of the allocation table in a sector
          csize,        \* sectors of a cluster
          n_fatent,     \* entries of the allocation table, clusters + 2
          n_fats,       \* copies of it
          n_rootdir,    \* entries of a static root directory
          MAX_DIR,      \* entries of a directory at most
          FF_FS_LOCK,   \* entries of the lock table
          FaultKinds    \* how an access may fail

Slots    == 0 .. SS - 1
Clusters == 2 .. n_fatent - 1
fsize    == (n_fatent + FPS - 1) \div FPS
fatbase  == volbase + 2                     \* after the boot sector and FSInfo
NoSector == -1
EOC      == 1000                            \* an entry past the last cluster
Unknown  == -1                              \* 0xFFFFFFFF in the FSInfo counts

Zero     == [zero |-> 0]                    \* a cleared slot
Cleared  == [slots |-> [s \in Slots |-> Zero]]
IsEntry(slot) == "name" \in DOMAIN slot
DDEM     == "deleted"                       \* first byte of a removed entry
Dots     == {".", ".."}
NewEntry(n) == [name |-> n, attr |-> "file", clus |-> 0, size |-> 0]

\* A static root directory lies between the table and the data (FAT12/FAT16);
\* on FAT32 the root is a chain that starts at cluster 2.
rootbase == fatbase + n_fats * fsize
database(v) == rootbase + (IF v.fat32 THEN 0 ELSE n_rootdir \div SS)
RootCluster == 2

NoDir == [sclust |-> 0, dptr |-> 0, sect |-> 0, clust |-> 0,
          fn |-> "", noname |-> FALSE, attr |-> "file"]

\* A function that begins where another ends: UNION {Then(w, G(w)) : w \in F(v)}
\* goes on with G unless F fails, {Now(w, u) : w \in F(v)} changes w to u then.
Ok(v)       == v.res = "OK"
Fail(v, r)  == [v EXCEPT !.res = r]
Then(v, vs) == IF Ok(v) THEN vs ELSE {v}
Now(v, u)   == IF Ok(v) THEN u ELSE v
Always(v)   == [v EXCEPT !.res = "OK"]      \* a result nobody looks at
Value(v, x) == [v EXCEPT !.val = x]
-----------------------------------------------------------------------------
(* The disk. *)

Works(v)  == IF v.fault = "dead" THEN {} ELSE {v}
Faults(v) == IF v.fault = "dead" THEN {"dead"} ELSE IF v.may THEN FaultKinds ELSE {}
Struck(v, kind, r) == [v EXCEPT !.res = r, !.fault = kind, !.may = FALSE]

\* disk_status and disk_initialize: the card is set up anew at every call.
disk_status(v) == Works(v) \cup {Struck(v, kind, "NOT_READY") : kind \in Faults(v) \ {"unanswered"}}

\* What is read is what v.disk has there.
disk_read(v) == Works(v) \cup {Struck(v, kind, "DISK_ERR") : kind \in Faults(v) \ {"unanswered"}}

\* disk_write returns whatever the register holds when it falls off its end:
\* the result of the last block, or an error that did not happen.
disk_write(v, sect, data) ==
    LET written == [v EXCEPT !.disk[sect] = data]
    IN  Works(written) \cup
        {Struck(IF kind = "unanswered" THEN written ELSE v, kind, "DISK_ERR") : kind \in Faults(v)}

\* Mutant of sync_window: what became of the write is not looked at.
sync_window_Deaf(v) ==
    IF ~v.wflag THEN {v} ELSE {[Always(w) EXCEPT !.wflag = FALSE] : w \in disk_write(v, v.winsect, v.win)}

\* The second copy of the table is written too; its result is not looked at.
Mirrored(v) ==
    IF n_fats = 2 /\ v.winsect \in fatbase .. fatbase + fsize - 1
    THEN {Always(w) : w \in disk_write(v, v.winsect + fsize, v.win)} ELSE {v}

sync_window(v) ==
    IF ~v.wflag THEN {v}
    ELSE UNION {Then(w, Mirrored([w EXCEPT !.wflag = FALSE])) : w \in disk_write(v, v.winsect, v.win)}

Loaded(v, sect) == [v EXCEPT !.win = v.disk[sect], !.winsect = sect]

\* Mutant of move_window: the window passes for the sector it could not read.
move_window_KeepsSector(v, sect) ==
    IF sect = v.winsect THEN {v}
    ELSE UNION {Then(w, {IF Ok(r) THEN Loaded(r, sect) ELSE [r EXCEPT !.winsect = sect] : r \in disk_read(w)}) :
                w \in sync_window(v)}

move_window(v, sect) ==
    IF sect = v.winsect THEN {v}
    ELSE UNION {Then(w, {IF Ok(r) THEN Loaded(r, sect) ELSE [r EXCEPT !.winsect = NoSector] : r \in disk_read(w)}) :
                w \in sync_window(v)}

SetWin(v, slot, x) == [v EXCEPT !.win.slots[slot] = x, !.wflag = TRUE]
FsInfo(v) == [fsinfo |-> [free |-> v.free_clst, next |-> v.last_clst]]

\* What else is written of FSInfo does not change; its write is not checked.
sync_fs(v) ==
    UNION {Then(w, IF w.fsi_flag # "dirty" THEN {w}
                   ELSE {Always(d) : d \in disk_write([w EXCEPT !.win = FsInfo(w), !.winsect = volbase + 1,
                                                                !.fsi_flag = "clean"], volbase + 1, FsInfo(w))}) :
           w \in sync_window(v)}
-----------------------------------------------------------------------------
(* The allocation table. *)

clst2sect(v, c) == IF c \in Clusters THEN database(v) + csize * (c - 2) ELSE 0
FatSector(c)    == fatbase + c \div FPS

get_fat(v, c) ==
    IF c \notin Clusters THEN {Fail(v, "INT_ERR")}
    ELSE {Now(w, Value(w, w.win.fat[c % FPS])) : w \in move_window(v, FatSector(c))}

put_fat(v, c, x) ==
    IF c \notin Clusters THEN {Fail(v, "INT_ERR")}
    ELSE {Now(w, [w EXCEPT !.win.fat[c % FPS] = x, !.wflag = TRUE]) : w \in move_window(v, FatSector(c))}

Touch(v) == [v EXCEPT !.fsi_flag = IF @ = "off" THEN @ ELSE "dirty"]
Counted(v) == v.free_clst \in 0 .. n_fatent - 2     \* the free count is valid
Freed(v) == IF Counted(v) /\ v.free_clst < n_fatent - 2 THEN Touch([v EXCEPT !.free_clst = @ + 1]) ELSE v

RECURSIVE remove_chain(_, _)
remove_chain(v, c) ==
    UNION {IF ~Ok(g) \/ g.val = 0 THEN {g}
           ELSE UNION {Then(w, IF g.val < n_fatent THEN remove_chain(Freed(w), g.val) ELSE {Freed(w)}) :
                       w \in put_fat(g, c, 0)} :
           g \in get_fat(v, c)}

\* The first free cluster after `at', round to scl; 0 if there is none.
RECURSIVE FindFree(_, _, _)
FindFree(v, scl, at) ==
    LET c == IF at + 1 >= n_fatent THEN 2 ELSE at + 1
    IN  IF at + 1 >= n_fatent /\ 2 > scl THEN {Value(v, 0)}
        ELSE UNION {Then(g, IF g.val = 0 THEN {Value(g, c)}
                            ELSE IF c = scl THEN {Value(g, 0)} ELSE FindFree(g, scl, c)) :
                    g \in get_fat(v, c)}

\* Mutant of Taken: the count is not brought down.
Taken_Uncounted(v, ncl) == Touch([v EXCEPT !.last_clst = ncl, !.val = ncl])

Taken(v, ncl) ==
    Touch([v EXCEPT !.last_clst = ncl, !.val = ncl, !.free_clst = IF Counted(v) THEN @ - 1 ELSE @])
Linked(v, clst, ncl) == IF clst = 0 THEN {v} ELSE put_fat(v, clst, ncl)

\* Mutant of Allocate: the link is made before the new cluster is taken.
Allocate_LinkFirst(v, clst, ncl) ==
    UNION {Then(l, {Now(w, Taken(w, ncl)) : w \in put_fat(l, ncl, EOC)}) : l \in Linked(v, clst, ncl)}

Allocate(v, clst, ncl) ==
    UNION {Then(e, {Now(w, Taken(w, ncl)) : w \in Linked(e, clst, ncl)}) : e \in put_fat(v, ncl, EOC)}

\* The cluster after clst is tried first, then the table is searched from the
\* cluster allocated last.
Stretch(v, clst) ==
    LET next == IF clst + 1 >= n_fatent THEN 2 ELSE clst + 1
        from == IF v.last_clst \in Clusters THEN v.last_clst ELSE clst
    IN  UNION {Then(g, IF g.val = 0 THEN {Value(g, next)} ELSE FindFree(g, from, from)) : g \in get_fat(v, next)}

NewCluster(v, clst) ==
    LET scl == IF v.last_clst \in 1 .. n_fatent - 1 THEN v.last_clst ELSE 1
    IN  IF v.free_clst = 0 THEN {Value(v, 0)}
        ELSE UNION {IF ~Ok(f) \/ f.val = 0 THEN {f} ELSE Allocate(f, clst, f.val) :
                    f \in IF clst = 0 THEN FindFree(v, scl, scl) ELSE Stretch(v, clst)}

\* v.val is the cluster that follows clst, or a new chain's; 0 on a full disk.
create_chain(v, clst) ==
    UNION {Then(g, IF g.val < 2 THEN {Fail(g, "INT_ERR")}
                   ELSE IF g.val < n_fatent THEN {g} ELSE NewCluster(g, clst)) :
           g \in IF clst = 0 THEN {Value(v, EOC)} ELSE get_fat(v, clst)}
-----------------------------------------------------------------------------
(* Directories: v.dp is the DIR object at work. *)

RECURSIVE ClearSectors(_, _, _)
ClearSectors(v, sect, n) ==
    IF n = 0 THEN {v}
    ELSE UNION {Then(w, ClearSectors(w, sect + 1, n - 1)) : w \in disk_write(v, sect, Cleared)}

dir_clear(v, clst) ==
    LET first == clst2sect(v, clst)
    IN  UNION {Then(w, ClearSectors([w EXCEPT !.win = Cleared, !.winsect = first], first, csize)) :
               w \in sync_window(v)}

RECURSIVE FollowChain(_, _, _)
FollowChain(v, c, n) ==
    IF n = 0 THEN {Value(v, c)}
    ELSE UNION {Then(g, IF g.val \notin Clusters THEN {Fail(g, "INT_ERR")} ELSE FollowChain(g, g.val, n - 1)) :
                g \in get_fat(v, c)}

dir_sdi(v, ofs) ==
    LET clst == IF v.dp.sclust = 0 /\ v.fat32 THEN RootCluster ELSE v.dp.sclust
        At(w, c, sect) == [w EXCEPT !.dp.dptr = ofs, !.dp.clust = c, !.dp.sect = sect]
    IN  IF ofs >= MAX_DIR THEN {Fail(v, "INT_ERR")}
        ELSE IF clst = 0
        THEN {IF ofs >= n_rootdir THEN Fail(v, "INT_ERR") ELSE At(v, 0, rootbase + ofs \div SS)}
        ELSE {Now(w, IF clst2sect(w, w.val) = 0 THEN Fail(w, "INT_ERR")
                     ELSE At(w, w.val, clst2sect(w, w.val) + (ofs % (csize * SS)) \div SS)) :
              w \in FollowChain(v, clst, ofs \div (csize * SS))}

EndOfTable(v) == [v EXCEPT !.dp.sect = 0, !.res = "NO_FILE"]
AtCluster(v, c, ofs) == [v EXCEPT !.dp.dptr = ofs, !.dp.clust = c, !.dp.sect = clst2sect(v, c)]

\* A cluster more for the table.
Lengthened(v, ofs) ==
    UNION {Then(n, IF n.val = 0 THEN {Fail(n, "DENIED")}
                   ELSE {Now(w, AtCluster(w, n.val, ofs)) : w \in dir_clear(n, n.val)}) :
           n \in create_chain(v, v.dp.clust)}

\* An error at the end of a cluster leaves the DIR object at the sector behind it.
dir_next(v, stretch) ==
    LET ofs == v.dp.dptr + 1
        on  == [v EXCEPT !.dp.sect = @ + 1]
    IN  IF v.dp.sect = 0 \/ ofs >= MAX_DIR THEN {EndOfTable(v)}
        ELSE IF ofs % SS # 0 THEN {[v EXCEPT !.dp.dptr = ofs]}
        ELSE IF v.dp.clust = 0 /\ ofs >= n_rootdir THEN {EndOfTable(v)}
        ELSE IF v.dp.clust = 0 \/ (ofs \div SS) % csize # 0 THEN {[on EXCEPT !.dp.dptr = ofs]}
        ELSE UNION {Then(g, IF g.val <= 1 THEN {Fail(g, "INT_ERR")}
                            ELSE IF g.val < n_fatent THEN {AtCluster(g, g.val, ofs)}
                            ELSE IF stretch THEN Lengthened(g, ofs) ELSE {EndOfTable(g)}) :
                    g \in get_fat(on, v.dp.clust)}

\* The entry under the DIR object, once the window shows its sector.
Entry(v) == v.win.slots[v.dp.dptr % SS]
SetEntry(v, e) == SetWin(v, v.dp.dptr % SS, e)

\* Is this the entry of that name, or any that a listing shows?
Wanted(e, name) == /\ e.attr # "volume"
                   /\ IF name = "" THEN e.name \notin {DDEM} \cup Dots ELSE e.name = name
Seen(v) == [v EXCEPT !.dp.attr = Entry(v).attr]

\* The next wanted entry; the table may end before it, at a slot that was never
\* used or at the end of its chain.
RECURSIVE Scan(_, _)
Scan(v, name) ==
    UNION {Then(w, IF ~IsEntry(Entry(w)) THEN {Fail(w, "NO_FILE")}
                   ELSE IF Wanted(Entry(w), name) THEN {Seen(w)}
                   ELSE UNION {Then(n, Scan(n, name)) : n \in dir_next(Seen(w), FALSE)}) :
           w \in move_window(v, v.dp.sect)}

dir_read(v) ==
    {IF Ok(r) THEN r ELSE [r EXCEPT !.dp.sect = 0] :
     r \in IF v.dp.sect = 0 THEN {Fail(v, "NO_FILE")} ELSE Scan(v, "")}

dir_find(v) == UNION {Then(w, Scan(w, w.dp.fn)) : w \in dir_sdi(v, 0)}

\* A slot that is free, the table stretched for it if need be.
RECURSIVE FreeSlot(_)
FreeSlot(v) ==
    UNION {Then(w, IF ~IsEntry(Entry(w)) \/ Entry(w).name = DDEM THEN {w}
                   ELSE UNION {Then(n, FreeSlot(n)) : n \in dir_next(w, TRUE)}) :
           w \in move_window(v, v.dp.sect)}

Instead(v, r, s) == IF v.res = r THEN Fail(v, s) ELSE v
dir_alloc(v) ==
    {Instead(w, "NO_FILE", "DENIED") : w \in UNION {Then(s, FreeSlot(s)) : s \in dir_sdi(v, 0)}}

dir_register(v) ==
    UNION {Then(a, {Now(w, SetEntry(w, NewEntry(w.dp.fn))) : w \in move_window(a, a.dp.sect)}) : a \in dir_alloc(v)}

dir_remove(v) ==
    {Now(w, SetEntry(w, [Entry(w) EXCEPT !.name = DDEM])) : w \in move_window(v, v.dp.sect)}
-----------------------------------------------------------------------------
(* The lock table: an open object is known by its directory's first cluster *)
(* and the place of its entry there.                                        *)

NoLock == [used |-> FALSE, clu |-> 0, ofs |-> 0, ctr |-> 0]
Writer == 256                               \* 0x100
Locks  == 1 .. FF_FS_LOCK

Holders(v) == {i \in Locks : v.Files[i].used /\ v.Files[i].clu = v.dp.sclust
                                             /\ v.Files[i].ofs = v.dp.dptr}
Blank(v) == {i \in Locks : ~v.Files[i].used}

enq_lock(v) == Blank(v) # {}

\* May the object be read (0), written (1), removed or renamed (2)?
chk_lock(v, acc) ==
    IF Holders(v) = {}
    THEN IF ~enq_lock(v) /\ acc # 2 THEN Fail(v, "TOO_MANY_OPEN_FILES") ELSE v
    ELSE IF acc # 0 \/ v.Files[Min(Holders(v))].ctr = Writer THEN Fail(v, "LOCKED") ELSE v

\* v.val is the entry of the table, 0 if the object cannot be registered.
inc_lock(v, acc) ==
    LET held == Holders(v)
        i == IF held # {} THEN Min(held) ELSE Min(Blank(v))
        ctr == IF held # {} THEN v.Files[i].ctr ELSE 0
    IN  IF (held = {} /\ ~enq_lock(v)) \/ (acc >= 1 /\ ctr # 0) THEN Value(v, 0)
        ELSE [v EXCEPT !.val = i,
                       !.Files[i] = [used |-> TRUE, clu |-> v.dp.sclust, ofs |-> v.dp.dptr,
                                     ctr |-> IF acc # 0 THEN Writer ELSE ctr + 1]]

\* Mutant of dec_lock: the mark of a writer is counted down like readers.
dec_lock_Counts(v, i) ==
    IF i \notin Locks THEN Fail(v, "INT_ERR")
    ELSE LET n == v.Files[i].ctr - 1
         IN  [v EXCEPT !.Files[i] = IF n = 0 THEN NoLock ELSE [@ EXCEPT !.ctr = n]]

dec_lock(v, i) ==
    IF i \notin Locks THEN Fail(v, "INT_ERR")
    ELSE LET n == IF v.Files[i].ctr \in {0, Writer} THEN 0 ELSE v.Files[i].ctr - 1
         IN  [v EXCEPT !.Files[i] = IF n = 0 THEN NoLock ELSE [@ EXCEPT !.ctr = n]]

clear_lock(v) == [v EXCEPT !.Files = [i \in Locks |-> NoLock]]
-----------------------------------------------------------------------------
(* Mounting. *)

\* Is the sector the boot sector of a FAT volume?  What the window held is lost.
check_fs(v, sect) ==
    {Now(w, IF w.win.boot.kind = "fat" THEN w ELSE Fail(w, "NO_FILESYSTEM")) :
     w \in move_window([v EXCEPT !.wflag = FALSE, !.winsect = NoSector], sect)}

\* The partitions of a boot record are tried in turn, after an error too.
RECURSIVE TryPartitions(_, _)
TryPartitions(v, starts) ==
    UNION {IF Ok(c) \/ Len(starts) = 1 THEN {c} ELSE TryPartitions(c, Tail(starts)) :
           c \in IF Head(starts) = 0 THEN {Fail(v, "NO_FILESYSTEM")} ELSE check_fs(Always(v), Head(starts))}

find_volume(v) ==
    UNION {IF c.res = "NO_FILESYSTEM" /\ c.win.boot.kind = "mbr" THEN TryPartitions(c, c.win.boot.part) ELSE {c} :
           c \in check_fs(v, 0)}

\* FSInfo is used if it can be read; without it the free count is unknown.
LoadFsInfo(v) ==
    LET none == [v EXCEPT !.free_clst = Unknown, !.last_clst = Unknown, !.fsi_flag = "off"]
        Info(w) == [w EXCEPT !.fsi_flag = "clean", !.free_clst = w.win.fsinfo.free, !.last_clst = w.win.fsinfo.next]
    IN  IF v.fat32 THEN {IF Ok(w) THEN Info(w) ELSE Always(w) : w \in move_window(none, volbase + 1)} ELSE {none}

\* Open files are orphaned by the new mount ID and the locks forgotten.
Mounted(v) == clear_lock([v EXCEPT !.mounted = TRUE, !.id = @ + 1, !.cdir = 0])
Remount(v) ==
    UNION {Then(i, UNION {Then(w, {Mounted(l) : l \in LoadFsInfo(w)}) : w \in find_volume(i)}) :
           i \in disk_status([v EXCEPT !.mounted = FALSE])}

\* f_mount has to register the volume first.
mount_volume(v) ==
    IF ~v.enabled THEN {Fail(v, "NOT_ENABLED")}
    ELSE UNION {IF Ok(s) THEN {s} ELSE Remount(Always(s)) :
                s \in IF v.mounted THEN disk_status(v) ELSE {Fail(v, "NOT_READY")}}

\* obj is a FIL or DIR object of this mount and the card answers.
validate(v, obj) ==
    IF ~obj.fs \/ ~v.mounted \/ obj.id # v.id THEN {Fail(v, "INVALID_OBJECT")}
    ELSE {Instead(s, "NOT_READY", "INVALID_OBJECT") : s \in disk_status(v)}
=============================================================================
