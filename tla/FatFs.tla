-------------------------------- MODULE FatFs --------------------------------
(***************************************************************************)
(* The API of FatFS that the BIOS uses (software/spu32-system/bios/fatfs/   *)
(* ff.c): paths, files, directories.  As in FatVolume, a call is a function *)
(* from the volume to the set of the volumes it may leave behind, with its  *)
(* result in v.res and what it hands to the caller in v.out.  The FIL       *)
(* objects are v.file[h]; v.dir is the DIR object of findfirst/findnext.    *)
(*                                                                         *)
(* A path is [abs |-> does it begin at the root, segs |-> its names]; the   *)
(* name "" stands for one that create_name refuses.                         *)
(***************************************************************************)
EXTENDS FatVolume

LOCAL INSTANCE FiniteSetsExt

CONSTANTS Handles           \* FIL objects

NoFil == [fs |-> FALSE, id |-> 0, flag |-> {}, err |-> "OK", fptr |-> 0, sclust |-> 0,
          objsize |-> 0, clust |-> 0, sect |-> 0, dsect |-> 0, dslot |-> 0, lockid |-> 0]
NoDirObj == [fs |-> FALSE, id |-> 0, lockid |-> 0, sclust |-> 0, dptr |-> 0,
             sect |-> 0, clust |-> 0, pat |-> {}]

ClusterSize == csize * SS
Deny(v, P, r) == IF Ok(v) /\ P THEN Fail(v, r) ELSE v
-----------------------------------------------------------------------------
(* Paths. *)

\* Immediate mounting; what the window held of an earlier mount is lost.
f_mount(v) == mount_volume([clear_lock(v) EXCEPT !.enabled = TRUE, !.mounted = FALSE])

\* A dot entry that does not exist, as in the root, is the directory itself.
RECURSIVE FollowSegs(_, _)
FollowSegs(v, segs) ==
    LET n == Head(segs)
        last == Len(segs) = 1
    IN  IF n = "" THEN {Fail(v, "INVALID_NAME")}
        ELSE UNION {
            IF f.res = "NO_FILE" /\ n \in Dots
            THEN IF last THEN {[Always(f) EXCEPT !.dp.noname = TRUE]} ELSE FollowSegs(Always(f), Tail(segs))
            ELSE IF last THEN {f}
            ELSE IF f.res = "NO_FILE" THEN {Fail(f, "NO_PATH")}
            ELSE Then(f, IF f.dp.attr # "dir" THEN {Fail(f, "NO_PATH")}
                         ELSE FollowSegs([f EXCEPT !.dp.sclust = Entry(f).clus], Tail(segs))) :
            f \in dir_find([v EXCEPT !.dp.fn = n, !.dp.noname = FALSE])}

\* The empty path is the directory one starts from.
follow_path(v, path) ==
    LET w == [v EXCEPT !.dp.sclust = IF path.abs THEN 0 ELSE v.cdir]
    IN  IF path.segs = <<>> THEN dir_sdi([w EXCEPT !.dp.noname = TRUE], 0)
        ELSE FollowSegs(w, path.segs)

\* The volume, mounted, with the path followed.
Locate(v, path) == UNION {Then(w, follow_path(w, path)) : w \in mount_volume(v)}
-----------------------------------------------------------------------------
(* Opening and closing files. *)

\* An existing file loses its clusters; its entry is written before them.
Truncate(v) ==
    LET cl == Entry(v).clus
        w == SetEntry(v, [Entry(v) EXCEPT !.attr = "file", !.clus = 0, !.size = 0])
    IN  IF cl = 0 THEN {w}
        ELSE UNION {Then(r, {[m EXCEPT !.last_clst = cl - 1] : m \in move_window(r, v.winsect)}) :
                    r \in remove_chain(w, cl)}

\* The end of a chain of ofs bytes, for FA_OPEN_APPEND.
SeekEnd(v, h) ==
    LET f == v.file[h]
        n == (f.objsize - 1) \div ClusterSize
        ofs == f.objsize - n * ClusterSize
        At(e) == [e EXCEPT !.file[h].fptr = f.objsize, !.file[h].clust = e.val]
    IN  {Now(e, IF ofs % SS = 0 THEN At(e)
                ELSE IF clst2sect(e, e.val) = 0 THEN Fail(e, "INT_ERR")
                ELSE [At(e) EXCEPT !.file[h].sect = clst2sect(e, e.val) + ofs \div SS]) :
         e \in IF n = 0 THEN {Value(v, f.sclust)} ELSE FollowChain(v, f.sclust, n)}

Access(mode)  == IF mode \subseteq {"READ"} THEN 0 ELSE 1
Creates(mode) == mode \cap {"CREATE_ALWAYS", "OPEN_ALWAYS", "CREATE_NEW"} # {}

\* The entry of the path is there, or NO_FILE and a place to look for one.
Found(v, path, mode) ==
    {Now(l, IF l.dp.noname THEN Fail(l, "INVALID_NAME") ELSE chk_lock(l, Access(mode))) : l \in Locate(v, path)}

Existing(v, mode) ==
    IF Creates(mode) THEN Deny(Deny(v, v.dp.attr = "dir", "DENIED"), "CREATE_NEW" \in mode, "EXIST")
    ELSE Deny(v, v.dp.attr = "dir", "NO_FILE")

\* A file that is made, or made anew, is an entry without clusters.
Provided(v, mode) ==
    IF Creates(mode) /\ v.res = "NO_FILE"
    THEN IF enq_lock(v) THEN UNION {Then(e, Truncate(e)) : e \in dir_register(Always(v))}
         ELSE {Fail(v, "TOO_MANY_OPEN_FILES")}
    ELSE LET e == Existing(v, mode)
         IN  IF Ok(e) /\ "CREATE_ALWAYS" \in mode THEN Truncate(e) ELSE {e}

\* The FIL object of the file whose entry is in the window; i is locked.
Opened(i, h, mode, fresh) ==
    IF i.val = 0 THEN Fail(i, "INT_ERR")
    ELSE [i EXCEPT !.file[h] =
            [NoFil EXCEPT !.fs = TRUE, !.id = i.id, !.lockid = i.val,
                          !.flag = (mode \cap {"READ", "WRITE"}) \cup (IF fresh THEN {"MODIFIED"} ELSE {}),
                          !.sclust = Entry(i).clus, !.objsize = Entry(i).size,
                          !.dsect = i.winsect, !.dslot = i.dp.dptr % SS]]

\* mode is a set of flags.  A SeekEnd that fails leaves the lock behind.
f_open(v, h, path, mode) ==
    {IF Ok(w) THEN w ELSE [w EXCEPT !.file[h] = NoFil] : w \in
     UNION {Then(o, IF "SEEKEND" \in mode /\ o.file[h].objsize > 0 THEN SeekEnd(o, h) ELSE {o}) : o \in
     UNION {{Now(e, Opened(inc_lock(e, Access(mode)), h, mode,
                           "CREATE_ALWAYS" \in mode \/ (Creates(mode) /\ f.res = "NO_FILE"))) :
             e \in Provided(f, mode)} : f \in Found(v, path, mode)}}}

\* The entry is written wherever it was when the file was opened.
f_sync(v, h) ==
    LET f == v.file[h]
        Updated(e) == [e EXCEPT !.clus = f.sclust, !.size = f.objsize]
    IN  UNION {Then(w, IF "MODIFIED" \notin f.flag THEN {w}
               ELSE UNION {Then(m, {[s EXCEPT !.file[h].flag = @ \ {"MODIFIED"}] :
                                    s \in sync_fs(SetWin(m, f.dslot, Updated(m.win.slots[f.dslot])))}) :
                           m \in move_window(w, f.dsect)}) :
               w \in validate(v, f)}

f_close(v, h) ==
    UNION {Then(s, {Now(d, [d EXCEPT !.file[h] = NoFil]) : d \in
                    {Now(w, dec_lock(w, w.file[h].lockid)) : w \in validate(s, s.file[h])}}) : s \in f_sync(v, h)}
-----------------------------------------------------------------------------
(* Reading, writing, seeking.  An error in the middle marks the file.       *)

Abort(v, h) == IF Ok(v) THEN v ELSE [v EXCEPT !.file[h].err = v.res]

\* A file that may be used in this way, after validate; {} for any.
Usable(v, h, way) ==
    LET f == v.file[h]
    IN  {Now(w, IF f.err # "OK" THEN Fail(w, f.err)
                ELSE IF way # {} /\ way \cap f.flag = {} THEN Fail(w, "DENIED") ELSE w) : w \in validate(v, f)}

Min2(a, b) == IF a < b THEN a ELSE b

\* A slot of the window: what was no byte of a file before reads as one now.
Slot(win, i) == IF "slots" \in DOMAIN win THEN win.slots[i] ELSE [junk |-> 0]
Sub(sector, from, n) == [i \in 1..n |-> Slot(sector, from + i - 1)]

\* The sector of the byte at fptr, a sector boundary; Next gives the cluster
\* when a new one begins.
AtSector(v, h, c) ==
    LET f == v.file[h]
        sect == clst2sect(v, c)
    IN  IF sect = 0 THEN Fail(v, "INT_ERR")
        ELSE [v EXCEPT !.file[h].clust = c, !.val = sect + ((f.fptr \div SS) % csize)]

Advance(v, h, n) ==
    [v EXCEPT !.file[h].fptr = @ + n,
              !.file[h].objsize = IF v.file[h].fptr + n > @ THEN v.file[h].fptr + n ELSE @]

\* The sectors of a cluster from that of fptr on that n bytes fill.
WholeSectors(f, n) == Min2(n \div SS, csize - ((f.fptr \div SS) % csize))

\* n sectors at once, past the window; what is dirty in the window is newer.
RECURSIVE ReadSectors(_, _, _)
ReadSectors(v, sect, n) ==
    IF n = 0 THEN {v}
    ELSE UNION {Then(r, ReadSectors([r EXCEPT !.out = @ \o
                    Sub(IF r.wflag /\ r.winsect = sect THEN r.win ELSE r.disk[sect], 0, SS)], sect + 1, n - 1)) :
                r \in disk_read(v)}

\* The cluster of the byte at fptr.
ReadCluster(v, f) ==
    IF f.fptr % ClusterSize # 0 THEN {Value(v, f.clust)}
    ELSE IF f.fptr = 0 THEN {Value(v, f.sclust)} ELSE get_fat(v, f.clust)

RECURSIVE ReadLoop(_, _, _)
\* n bytes of the sector in the window, then the rest.
ReadPart(v, h, n, btr) ==
    UNION {Then(m, ReadLoop(Advance([m EXCEPT !.out = @ \o Sub(m.win, m.file[h].fptr % SS, n)], h, n), h, btr - n)) :
           m \in move_window(v, v.file[h].sect)}
ReadWhole(v, h, n, btr) ==
    UNION {IF Ok(r) THEN ReadLoop(Advance(r, h, n * SS), h, btr - n * SS) ELSE {[r EXCEPT !.out = v.out]} :
           r \in ReadSectors(v, v.val, n)}
ReadLoop(v, h, btr) ==
    LET f == v.file[h]
        ofs == f.fptr % SS
        Sector(w) == IF btr >= SS THEN ReadWhole(w, h, WholeSectors(f, btr), btr)
                     ELSE ReadPart([w EXCEPT !.file[h].sect = w.val], h, btr, btr)
    IN  IF btr = 0 THEN {v}
        ELSE IF ofs # 0 THEN ReadPart(v, h, Min2(SS - ofs, btr), btr)
        ELSE UNION {Then(w, Sector(w)) : w \in
                    {Now(g, IF g.val < 2 THEN Fail(g, "INT_ERR") ELSE AtSector(g, h, g.val)) : g \in ReadCluster(v, f)}}

\* v.out is what was read.
f_read(v, h, btr) ==
    UNION {Then(w, {Abort(r, h) : r \in ReadLoop(w, h, Min2(btr, w.file[h].objsize - w.file[h].fptr))}) :
           w \in Usable([v EXCEPT !.out = <<>>], h, {"READ"})}

\* Whole sectors go past the window, which follows them if it shows one.
RECURSIVE WriteSectors(_, _, _, _)
WriteSectors(v, sect, data, n) ==
    IF n = 0 THEN {v}
    ELSE UNION {Then(w, WriteSectors(w, sect + 1, SubSeq(data, SS + 1, Len(data)), n - 1)) :
                w \in disk_write(v, sect, [slots |-> [i \in Slots |-> data[i + 1]]])}

Refill(v, sect, data, n) ==
    IF v.winsect \in sect .. sect + n - 1
    THEN [v EXCEPT !.win = [slots |-> [i \in Slots |-> data[(v.winsect - sect) * SS + i + 1]]], !.wflag = FALSE]
    ELSE v

\* The cluster of the byte at fptr, a new one at the end of the chain.
WriteCluster(v, f) ==
    IF f.fptr % ClusterSize # 0 THEN {Value(v, f.clust)}
    ELSE IF f.fptr = 0 /\ f.sclust # 0 THEN {Value(v, f.sclust)}
    ELSE create_chain(v, IF f.fptr = 0 THEN 0 ELSE f.clust)
TakeCluster(v, h) ==
    [v EXCEPT !.file[h].clust = v.val, !.file[h].sclust = IF @ = 0 THEN v.val ELSE @]

\* The file's own sector in the window is written before another is found.
WriteSector(v, h, f) ==
    {Now(y, AtSector(y, h, y.file[h].clust)) : y \in IF v.winsect = f.sect THEN sync_window(v) ELSE {v}}

\* A sector of its own: on the growing edge there is nothing to read.
Edge(v, h) ==
    LET grows == v.file[h].fptr >= v.file[h].objsize
    IN  {Now(s, [s EXCEPT !.file[h].sect = v.val, !.winsect = IF grows THEN v.val ELSE @]) :
         s \in IF grows THEN sync_window(v) ELSE {v}}

RECURSIVE WriteLoop(_, _, _)
\* n bytes into the sector in the window, then the rest.
WritePart(v, h, n, data) ==
    LET ofs == v.file[h].fptr % SS
        Put(win) == [slots |-> [i \in Slots |-> IF i \in ofs .. ofs + n - 1 THEN data[i - ofs + 1] ELSE Slot(win, i)]]
    IN  UNION {Then(m, WriteLoop(Advance([m EXCEPT !.win = Put(@), !.wflag = TRUE], h, n),
                                 h, SubSeq(data, n + 1, Len(data)))) : m \in move_window(v, v.file[h].sect)}
WriteWhole(v, h, n, data) ==
    UNION {Then(r, WriteLoop(Advance(Refill(r, v.val, data, n), h, n * SS), h, SubSeq(data, n * SS + 1, Len(data)))) :
           r \in WriteSectors(v, v.val, data, n)}
\* A disk that is full ends the loop without an error.
WriteLoop(v, h, data) ==
    LET f == v.file[h]
        ofs == f.fptr % SS
        btw == Len(data)
        Sector(w) == IF btw >= SS THEN WriteWhole(w, h, WholeSectors(f, btw), data)
                     ELSE UNION {Then(e, WritePart(e, h, btw, data)) : e \in Edge(w, h)}
    IN  IF btw = 0 THEN {v}
        ELSE IF ofs # 0 THEN WritePart(v, h, Min2(SS - ofs, btw), data)
        ELSE UNION {Then(c, IF c.val = 0 THEN {c}
                            ELSE UNION {Then(w, Sector(w)) : w \in WriteSector(TakeCluster(c, h), h, f)}) :
                    c \in WriteCluster(v, f)}

\* v.out is the number of bytes written.
f_write(v, h, data) ==
    LET Count(w) == [w EXCEPT !.out = w.file[h].fptr - v.file[h].fptr]
    IN  UNION {Then(u, {Now(w, [w EXCEPT !.file[h].flag = @ \cup {"MODIFIED"}]) : w \in
                        {Count(Abort(l, h)) : l \in WriteLoop(u, h, data)}}) :
               u \in Usable([v EXCEPT !.out = 0], h, {"WRITE"})}

\* Follow the chain until ofs lies in the cluster; a file that is written grows
\* on the way, as far as the disk allows.
RECURSIVE SeekLoop(_, _, _)
SeekLoop(v, h, ofs) ==
    LET f == v.file[h]
        grows == "WRITE" \in f.flag
        at == [v EXCEPT !.file[h].fptr = @ + ofs]
        step == [v EXCEPT !.file[h].fptr = @ + ClusterSize]
    IN  IF ofs <= ClusterSize
        THEN {IF ofs % SS = 0 THEN at ELSE [at EXCEPT !.file[h].sect = clst2sect(v, f.clust) + ofs \div SS]}
        ELSE UNION {Then(c, IF c.val = 0 /\ grows THEN {c}
                            ELSE IF c.val \notin Clusters THEN {Fail(c, "INT_ERR")}
                            ELSE SeekLoop([c EXCEPT !.file[h].clust = c.val], h, ofs - ClusterSize)) :
                    c \in IF grows THEN create_chain(step, f.clust) ELSE get_fat(step, f.clust)}

\* Mutant of Extend: the entry is not marked for an update.
Extend_Unmarked(v, h) ==
    LET f == v.file[h]
    IN  IF Ok(v) /\ f.fptr > f.objsize THEN [v EXCEPT !.file[h].objsize = f.fptr] ELSE v

Extend(v, h) ==
    LET f == v.file[h]
    IN  IF Ok(v) /\ f.fptr > f.objsize
        THEN [v EXCEPT !.file[h].objsize = f.fptr, !.file[h].flag = @ \cup {"MODIFIED"}] ELSE v

\* To ofs, from the current cluster if it is not behind, else from the first.
Seek(v, h, ofs) ==
    LET f == v.file[h]
        base == ((f.fptr - 1) \div ClusterSize) * ClusterSize     \* of the current cluster
        w == [v EXCEPT !.file[h].fptr = 0]
        From(u, c) == [u EXCEPT !.file[h].sclust = c, !.file[h].clust = c]
    IN  IF ofs = 0 THEN {w}
        ELSE IF f.fptr > 0 /\ (ofs - 1) \div ClusterSize >= (f.fptr - 1) \div ClusterSize
        THEN SeekLoop([w EXCEPT !.file[h].fptr = base], h, ofs - base)
        ELSE UNION {Then(c, IF c.val = 0 THEN {From(c, 0)} ELSE SeekLoop(From(c, c.val), h, ofs)) :
                    c \in IF f.sclust = 0 THEN create_chain(w, 0) ELSE {Value(w, f.sclust)}}

f_lseek(v, h, pos) ==
    LET f == v.file[h]
        ofs == IF pos > f.objsize /\ "WRITE" \notin f.flag THEN f.objsize ELSE pos
    IN  UNION {Then(u, {Abort(Extend(s, h), h) : s \in Seek(u, h, ofs)}) : u \in Usable(v, h, {})}
-----------------------------------------------------------------------------
(* Directories. *)

f_chdir(v, path) ==
    {Instead(Now(l, IF l.dp.noname THEN [l EXCEPT !.cdir = l.dp.sclust]
                    ELSE IF l.dp.attr = "dir" THEN [l EXCEPT !.cdir = Entry(l).clus] ELSE Fail(l, "NO_PATH")),
             "NO_FILE", "NO_PATH") : l \in Locate(v, path)}

\* The entry of a directory that links to cluster ccl.
RECURSIVE FindChild(_, _)
FindChild(v, ccl) ==
    UNION {Then(r, IF Entry(r).clus = ccl THEN {r} ELSE UNION {Then(n, FindChild(n, ccl)) : n \in dir_next(r, FALSE)}) :
           r \in dir_read(v)}

\* The parent, by a directory's second entry, and this one's entry there.
ParentEntry(v) ==
    UNION {Then(s, UNION {Then(m, UNION {Then(p, {Instead(c, "NO_FILE", "INT_ERR") : c \in FindChild(p, v.dp.sclust)}) :
                                         p \in dir_sdi([m EXCEPT !.dp.sclust = Entry(m).clus], 0)}) :
                          m \in move_window(s, s.dp.sect)}) :
           s \in dir_sdi(v, 1)}

\* Upwards from the current directory.
RECURSIVE Climb(_)
Climb(v) ==
    IF v.dp.sclust = 0 THEN {v}
    ELSE UNION {Then(w, Climb([w EXCEPT !.out = <<Entry(w).name>> \o @])) : w \in ParentEntry(v)}

\* v.out is the path.
f_getcwd(v) ==
    UNION {Then(w, Climb([w EXCEPT !.dp.sclust = w.cdir])) : w \in mount_volume([v EXCEPT !.out = <<>>])}

\* A directory other than the root is registered in the lock table under its
\* own first cluster.
LockDir(v) ==
    LET i == IF v.dp.sclust # 0 THEN inc_lock(v, 0) ELSE Value(v, 0)
    IN  IF v.dp.sclust # 0 /\ i.val = 0 THEN Fail(i, "TOO_MANY_OPEN_FILES")
        ELSE [i EXCEPT !.dir.fs = TRUE, !.dir.id = i.id, !.dir.lockid = i.val]

f_opendir(v, path) ==
    LET Named(l) == IF l.dp.noname THEN l
                    ELSE IF l.dp.attr = "dir" THEN [l EXCEPT !.dp.sclust = Entry(l).clus] ELSE Fail(l, "NO_PATH")
        Keep(x) == [x EXCEPT !.dir.sclust = x.dp.sclust, !.dir.dptr = x.dp.dptr, !.dir.sect = x.dp.sect,
                             !.dir.clust = x.dp.clust, !.dir.fs = @ /\ Ok(x)]
    IN  {Keep(Instead(d, "NO_FILE", "NO_PATH")) : d \in
         UNION {Then(f, {Now(s, LockDir(s)) : s \in dir_sdi(f, 0)}) : f \in {Now(l, Named(l)) : l \in Locate(v, path)}}}

f_closedir(v) ==
    {Now(d, [d EXCEPT !.dir.fs = FALSE]) : d \in
     {Now(w, IF w.dir.lockid # 0 THEN dec_lock(w, w.dir.lockid) ELSE w) : w \in validate(v, v.dir)}}

FileInfo(e) == [name |-> e.name, attr |-> e.attr, size |-> e.size]
NoInfo == [name |-> "", attr |-> "file", size |-> 0]     \* an empty name: no more entries

\* The next entry goes to v.out; the end of the table is no error.
NextEntry(v) ==
    UNION {IF r.res = "NO_FILE" THEN {[r EXCEPT !.out = NoInfo]}
           ELSE Then(r, dir_next([r EXCEPT !.out = FileInfo(Entry(r))], FALSE)) : r \in dir_read(v)}

f_readdir(v) ==
    LET d == v.dir
        Keep(w) == [w EXCEPT !.dir.dptr = w.dp.dptr, !.dir.sect = w.dp.sect, !.dir.clust = w.dp.clust]
    IN  UNION {Then(u, {Keep(Instead(w, "NO_FILE", "OK")) :
                        w \in NextEntry([u EXCEPT !.dp = [NoDir EXCEPT !.sclust = d.sclust, !.dptr = d.dptr,
                                                                       !.sect = d.sect, !.clust = d.clust]])}) :
               u \in validate(v, d)}

\* The next entry whose name matches the pattern.
RECURSIVE f_findnext(_)
f_findnext(v) ==
    UNION {Then(r, IF r.out.name = "" \/ r.out.name \in r.dir.pat THEN {r} ELSE f_findnext(r)) : r \in f_readdir(v)}

\* The pattern is the set of the names that match it.
f_findfirst(v, path, pat) ==
    UNION {Then(d, f_findnext(d)) : d \in f_opendir([v EXCEPT !.dir.pat = pat], path)}

f_stat(v, path) ==
    {Now(l, IF l.dp.noname THEN Fail(l, "INVALID_NAME") ELSE [l EXCEPT !.out = FileInfo(Entry(l))]) :
     l \in Locate(v, path)}

\* Counts the free entries into v.val, until it is done or meets an error.
RECURSIVE CountFree(_, _)
CountFree(v, sect) ==
    LET Free(win) == {i \in 0 .. FPS - 1 : (sect - fatbase) * FPS + i < n_fatent /\ win.fat[i] = 0}
    IN  IF sect = fatbase + fsize THEN {v}
        ELSE UNION {Then(w, CountFree(Value(w, w.val + Cardinality(Free(w.win))), sect + 1)) :
                    w \in move_window(v, sect)}

\* v.out is the number of free clusters.  A count that was cut short is kept too.
f_getfree(v) ==
    UNION {Then(w, IF Counted(w) THEN {[w EXCEPT !.out = w.free_clst]}
                   ELSE {Touch([c EXCEPT !.out = c.val, !.free_clst = c.val]) : c \in CountFree(Value(w, 0), fatbase)}) :
           w \in mount_volume(v)}

\* A directory that holds an entry, or is the current one, is not removed.
IsEmpty(v, clus) ==
    IF clus = v.cdir THEN {Fail(v, "DENIED")}
    ELSE {[Instead(Instead(r, "OK", "DENIED"), "NO_FILE", "OK") EXCEPT !.dp = v.dp] : r \in
          UNION {Then(s, dir_read(s)) : s \in dir_sdi([v EXCEPT !.dp.sclust = clus], 0)}}

\* May the object that was found be removed?
Removable(v) ==
    IF v.dp.fn \in Dots THEN Fail(v, "INVALID_NAME") ELSE Deny(chk_lock(v, 2), v.dp.noname, "INVALID_NAME")

\* The entry goes first, then the chain.
RemoveObject(v, clus) ==
    UNION {Then(r, UNION {Then(c, sync_fs(c)) : c \in IF clus # 0 THEN remove_chain(r, clus) ELSE {r}}) :
           r \in dir_remove(v)}

f_unlink(v, path) ==
    UNION {Then(k, UNION {Then(e, RemoveObject(e, Entry(k).clus)) :
                          e \in IF k.dp.attr = "dir" THEN IsEmpty(k, Entry(k).clus) ELSE {k}}) :
           k \in {Now(l, Removable(l)) : l \in Locate(v, path)}}

DirEntry(n, c) == [name |-> n, attr |-> "dir", clus |-> c, size |-> 0]

\* The table is cleaned up, gets its dot entries and is then linked from its parent.
NewTable(v, dcl, pcl) ==
    UNION {Then(w, dir_register(SetWin(SetWin(w, 0, DirEntry(".", dcl)), 1, DirEntry("..", pcl)))) :
           w \in dir_clear(v, dcl)}

\* If that fails its cluster is given back.
MakeDir(v, dcl) ==
    UNION {IF Ok(m) THEN sync_fs(SetEntry(m, DirEntry(m.dp.fn, dcl)))
           ELSE {Fail(r, m.res) : r \in remove_chain(Always(m), dcl)} :
           m \in NewTable(v, dcl, v.dp.sclust)}

f_mkdir(v, path) ==
    UNION {IF l.res # "NO_FILE" THEN {Instead(l, "OK", "EXIST")}
           ELSE UNION {Then(c, IF c.val = 0 THEN {Fail(c, "DENIED")} ELSE MakeDir(c, c.val)) :
                       c \in create_chain(Always(l), 0)} :
           l \in Locate(v, path)}

\* A directory that moves, its new entry written, has its link to its parent
\* turned round; pcl is where it was.
TurnLink(v, e, pcl) ==
    LET sect == clst2sect(v, e.clus)
    IN  IF e.attr # "dir" \/ pcl = v.dp.sclust THEN {v}
        ELSE IF sect = 0 THEN {Fail(v, "INT_ERR")}
        ELSE {Now(m, SetWin(m, 1, DirEntry("..", m.dp.sclust))) : m \in move_window(v, sect)}

\* The new entry, in the place f found for it, then away with that of dp.
MoveEntry(f, e, dp) ==
    UNION {Then(r, UNION {Then(m, UNION {Then(d, sync_fs(d)) : d \in dir_remove([m EXCEPT !.dp = dp])}) :
                          m \in TurnLink(SetEntry(r, [e EXCEPT !.name = r.dp.fn]), e, dp.sclust)}) :
           r \in dir_register(f)}

\* Renamed to its own name, an object gets a new entry like any other.
f_rename(v, old, new) ==
    LET Renamable(l) == IF l.dp.fn \in Dots \/ l.dp.noname THEN Fail(l, "INVALID_NAME") ELSE chk_lock(l, 2)
        Itself(f, k) == f.dp.sclust = k.dp.sclust /\ f.dp.dptr = k.dp.dptr
    IN  UNION {Then(k, UNION {IF Ok(f) /\ ~Itself(f, k) THEN {Fail(f, "EXIST")}
                              ELSE IF Ok(f) \/ f.res = "NO_FILE" THEN MoveEntry(Always(f), Entry(k), k.dp) ELSE {f} :
                              f \in follow_path(k, new)}) :
               k \in {Now(l, Renamable(l)) : l \in Locate(v, old)}}
=============================================================================
