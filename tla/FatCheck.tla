------------------------------ MODULE FatCheck ------------------------------
(***************************************************************************)
(* A volume looked at from outside, the way a file system checker does: the *)
(* objects on it, their chains and contents, and with them the tree of      *)
(* FileTree that the calls of BiosFatFs implement.                          *)
(***************************************************************************)
EXTENDS BiosFatFs

LOCAL INSTANCE FiniteSetsExt
LOCAL INSTANCE SequencesExt
LOCAL INSTANCE TLC

\* The card with what the window still has to write.
View(v) == IF v.wflag THEN [v.disk EXCEPT ![v.winsect] = v.win] ELSE v.disk

Link(d, c) == d[FatSector(c)].fat[c % FPS]

\* A chain as far as it can be followed, and whether it ends as it should.
RECURSIVE FollowedFrom(_, _, _)
FollowedFrom(d, c, seen) ==
    IF c \notin Clusters \/ c \in ToSet(seen) THEN seen ELSE FollowedFrom(d, Link(d, c), Append(seen, c))
Chain(d, c)    == FollowedFrom(d, c, <<>>)
Closes(d, seq) == seq # <<>> /\ Link(d, Last(seq)) = EOC
Ends(d, c)     == c = 0 \/ Closes(d, Chain(d, c))

StartOf(v, c) == IF c = 0 /\ v.fat32 THEN RootCluster ELSE c
ChainSectors(v, seq) ==
    [i \in 1 .. Len(seq) * csize |-> clst2sect(v, seq[1 + (i - 1) \div csize]) + ((i - 1) % csize)]
Sectors(v, d, c) ==
    IF StartOf(v, c) = 0 THEN [i \in 1 .. n_rootdir \div SS |-> rootbase + i - 1]
    ELSE ChainSectors(v, Chain(d, StartOf(v, c)))

\* All slots of an object, whatever its size.
SlotsOf(d, sects)  == [i \in 1 .. Len(sects) * SS |-> Slot(d[sects[1 + (i - 1) \div SS]], (i - 1) % SS)]
AllSlots(v, d, c)  == SlotsOf(d, Sectors(v, d, c))
Content(v, d, o)   == SubSeq(AllSlots(v, d, o.clus), 1, o.size)

\* The table of a directory ends before the first slot never used.
UpToUnused(slots) ==
    SubSeq(slots, 1, Min({i \in 1 .. Len(slots) + 1 : i = Len(slots) + 1 \/ ~IsEntry(slots[i])}) - 1)
Table(v, d, c) == UpToUnused(AllSlots(v, d, c))
Live(e) == e.name \notin {DDEM} \cup Dots /\ e.attr # "volume"

\* The FIL object that writes the file whose entry is at ofs in directory c.
Writers(v, c, ofs) ==
    {h \in Handles : /\ v.mounted /\ v.file[h].fs /\ v.file[h].id = v.id
                     /\ v.file[h].lockid \in Locks
                     /\ v.Files[v.file[h].lockid] = [used |-> TRUE, clu |-> c, ofs |-> ofs, ctr |-> Writer]}

\* Every file and directory: where it is, where its entry is, its chain.
Depth == 4
Object(v, c, path, e, ofs, ws) ==
    [path |-> Append(path, e.name), kind |-> e.attr, dir |-> c, ofs |-> ofs,
     clus |-> IF ws = {} THEN e.clus ELSE v.file[Min(ws)].sclust,
     size |-> IF ws = {} THEN e.size ELSE v.file[Min(ws)].objsize]
Listed(v, c, path, table) ==
    {Object(v, c, path, table[i], i - 1, Writers(v, c, i - 1)) : i \in {j \in 1 .. Len(table) : Live(table[j])}}

RECURSIVE ObjectsIn(_, _, _, _, _)
ObjectsIn(v, d, c, path, depth) ==
    UNION {{o} \cup (IF o.kind = "dir" /\ depth > 0 THEN ObjectsIn(v, d, o.clus, o.path, depth - 1) ELSE {}) :
           o \in Listed(v, c, path, Table(v, d, c))}
TheRoot == [path |-> <<>>, kind |-> "dir", dir |-> NoSector, ofs |-> 0, clus |-> 0, size |-> 0]
Objects(v, d) == {TheRoot} \cup ObjectsIn(v, d, 0, <<>>, Depth)

T == INSTANCE FileTree WITH MaxOpen <- FF_FS_LOCK, fs <- <<>>

Node(v, d, o) == IF o.kind = "dir" THEN T!Dir ELSE T!File(IF o.clus = 0 THEN <<>> ELSE Content(v, d, o))
TreeOf(v, d, objects) ==
    [p \in {o.path : o \in objects} |-> Node(v, d, CHOOSE o \in objects : o.path = p)]

PathOf(found) == IF found = {} THEN T!Gone ELSE (CHOOSE o \in found : TRUE).path
EntryAt(objects, lock) == {o \in objects : o.dir = lock.clu /\ o.ofs = lock.ofs}
DirAt(objects, c)      == {o \in objects : o.kind = "dir" /\ o.clus = c}

OpenOf(v, used, objects) ==
    [h \in Handles |->
        LET f == v.file[h]
            lock == v.Files[f.lockid]
        IN  IF ~used[h] THEN T!Closed
            ELSE IF ~v.mounted \/ f.id # v.id THEN [T!Closed EXCEPT !.on = TRUE]
            ELSE [on |-> TRUE, flag |-> f.flag \cap {"READ", "WRITE"}, pos |-> f.fptr,
                  path |-> PathOf(EntryAt(objects, lock)), sole |-> lock.ctr = Writer]]

\* The DIR object of the search is at the sector of its next entry.
InPlace(s, sects) == s.sect = 0 \/ (s.dptr < Len(sects) * SS /\ s.sect = sects[1 + s.dptr \div SS])

\* The names from the entry under the search's DIR object on.
SearchOf(v, d, objects) ==
    LET s == v.dir
    IN  IF ~v.mounted \/ ~s.fs \/ s.id # v.id THEN T!NoSearch
        ELSE [on |-> TRUE, pat |-> s.pat,
              dir |-> IF InPlace(s, Sectors(v, d, s.sclust)) THEN PathOf(DirAt(objects, s.sclust)) ELSE T!Gone,
              due |-> IF s.sect = 0 THEN {}
                      ELSE {Last(o.path) : o \in {x \in objects : x.dir = s.sclust /\ x.ofs >= s.dptr}}]

Own(v, d, o) == ToSet(Chain(d, IF o.kind = "dir" THEN StartOf(v, o.clus) ELSE o.clus))
FreeClusters(d) == {c \in Clusters : Link(d, c) = 0}

\* Clusters that are taken and belong to nothing; is the free count right?
Lost(v) == LET d == View(v)
           IN  (Clusters \ FreeClusters(d)) \ UNION {Own(v, d, o) : o \in Objects(v, d)}
Exact(v) == Counted(v) => v.free_clst = Cardinality(FreeClusters(View(v)))

Full(table) == \A i \in 1 .. n_rootdir : i \in DOMAIN table /\ table[i].name # DDEM

StateOf(v, used, d, objects) ==
    [tree |-> TreeOf(v, d, objects), open |-> OpenOf(v, used, objects), search |-> SearchOf(v, d, objects),
     cwd |-> PathOf(DirAt(objects, v.cdir)),
     room |-> Cardinality(FreeClusters(d)), sure |-> Exact(v), full |-> ~v.fat32 /\ Full(Table(v, d, 0))]
State(v, used) == StateOf(v, used, View(v), Objects(v, View(v)))

\* The tree is kept beside the volume it is read from: fs is always State(vol).
VARIABLE fs
CheckedInit == Init /\ fs = State(vol, handle_used)
CheckedNext == Next /\ fs' = State(vol', handle_used')
CheckedSpec == CheckedInit /\ [][CheckedNext]_<<vars, fs>>

\* The last call is told apart by the steps, not by the states.
Lasting == <<vol, handle_used, calls, faults, fs>>

Promised == INSTANCE FileTree WITH MaxOpen <- FF_FS_LOCK

-----------------------------------------------------------------------------
\* The lock table and the open objects agree: an entry is there as long as
\* somebody holds it, a writer alone (Writer) or so many readers, and no object
\* has two.  Closing, failing and remounting must all keep the count.
LocksHeld ==
    /\ vol.Files \in [Locks -> [used : BOOLEAN, clu : 0 .. n_fatent - 1, ofs : 0 .. MAX_DIR, ctr : 0 .. Writer]]
    /\ handle_used \in [Handles -> BOOLEAN]
    /\ \A i \in Locks :
          LET lock == vol.Files[i]
              files == {h \in Handles : handle_used[h] /\ vol.file[h].id = vol.id /\ vol.file[h].lockid = i}
              search == vol.dir.fs /\ vol.dir.id = vol.id /\ vol.dir.lockid = i
          IN  /\ lock.used <=> files # {} \/ search
              /\ lock.used => lock.ctr \in {Writer, Cardinality(files) + (IF search THEN 1 ELSE 0)}
              /\ lock.ctr = Writer => Cardinality(files) = 1
              /\ \A h \in files : "WRITE" \in vol.file[h].flag => lock.ctr = Writer
              /\ lock.used => \A j \in Locks \ {i} : <<vol.Files[j].clu, vol.Files[j].ofs>> # <<lock.clu, lock.ofs>>

\* Every call of the file service, whatever the window, the table and the lock
\* table do meanwhile, changes the tree and answers as FileTree promises.
ImplementsFileTree == Promised!Spec

\* Every chain ends at its mark and is long enough for its file, and no two
\* objects share a cluster -- also when an access failed or the power was cut
\* at any point: what is taken is marked before it is linked, what is given up
\* is unlinked before it is freed.
ChainsSound ==
    LET d == View(vol)
        Long(o, seq) == o.size <= Len(seq) * ClusterSize
        Apart(objects) == \A o, p \in objects : o # p => Own(vol, d, o) \cap Own(vol, d, p) = {}
    IN  /\ \A o \in Objects(vol, d) : Ends(d, o.clus) /\ Long(o, Chain(d, o.clus))
        /\ Apart(Objects(vol, d))

\* A call loses no cluster: each that is taken belongs to something, and the
\* free count, once right, stays right.  Mounting with unsaved files may lose.
NothingLeaks ==
    [][call'.op # "init" =>
        /\ Lost(vol') \subseteq Lost(vol)
        /\ Exact(vol) => Exact(vol')]_vars

\* The file or directory a call changes, whatever directory it starts from.
Exposed ==
    LET Where(path) == {T!Place(fs, path), T!Place([fs EXCEPT !.cwd = <<>>], path)}
    IN  CASE call'.op \in {"unlink", "mkdir"} -> Where(call'.path)
          [] call'.op = "open" /\ ~(call'.arg \subseteq {"READ"}) -> Where(call'.path)
          [] OTHER -> {}

\* Places some call can name.
Nameable == {p \in DOMAIN fs.tree : p # <<>> /\ Last(p) \in UNION {ToSet(path.segs) : path \in Paths}}

\* A failed access or a power cut in a call leaves every other file and
\* directory as it was, and what no call names stays for good.
BystandersSafe ==
    [][\A p \in DOMAIN fs.tree \ (IF faults = 0 THEN Exposed \cup T!Unsaved(fs) ELSE Nameable) :
            p \in DOMAIN fs'.tree /\ fs'.tree[p] = fs.tree[p]]_vars

\* A card that does not answer when its status is asked for is mounted anew; what
\* was not saved is then what the card has of it.
Remounted ==
    LET kept == {p \in DOMAIN fs.tree : p \in T!Unsaved(fs) => p \in DOMAIN fs'.tree}
    IN  [fs EXCEPT !.cwd = <<>>, !.search = T!NoSearch, !.room = fs'.room, !.full = fs'.full, !.sure = fs'.sure,
                   !.open = [h \in Handles |-> [T!Closed EXCEPT !.on = fs.open[h].on]],
                   !.tree = [p \in kept |-> IF p \in T!Unsaved(fs) THEN fs'.tree[p] ELSE fs.tree[p]]]

\* A call that says OK although an access failed has done what it should: on
\* the volume as it was or, when the card had to be mounted anew, from there.
\* (bios_fatfs_getcwd has no result, bios_fatfs.c:186.)  Nothing is said of a
\* call about a file that was open and not saved when its access failed.
OkMeansDone ==
    [][(faults = 0 /\ call'.fault # "cut" /\ call'.result = "OK" /\ call'.op # "getcwd")
        => \/ T!Does(call', fs, fs', {})
           \/ /\ call'.fault # "none"
              /\ T!Does(call', Remounted, fs', T!Unsaved(fs)) \/ Exposed \cap T!Unsaved(fs) # {}]_vars
=============================================================================
