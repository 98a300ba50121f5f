------------------------------ MODULE FileTree ------------------------------
(***************************************************************************)
(* What the file service of the BIOS promises: a tree of directories and    *)
(* files, the current directory, the open files and one search, without     *)
(* sectors, clusters, windows or lock tables.                               *)
(*                                                                         *)
(* A place is the sequence of names that leads to it from the root.  Each   *)
(* step is one call: call' holds its arguments, result and answer, and      *)
(* Does says how the tree before, the call and the tree after belong        *)
(* together.  What is left open: bytes between the old end of a file and a  *)
(* position sought past it, the order of a listing, whether an entry made   *)
(* during a search is listed, and how much room there is -- but a call may  *)
(* fall short only when there is none.                                      *)
(***************************************************************************)
EXTENDS Integers, Sequences

LOCAL INSTANCE SequencesExt
LOCAL INSTANCE FiniteSets

CONSTANTS Handles,
          MaxOpen           \* files and directories open at a time

VARIABLES fs, call

Gone    == <<"gone">>       \* where an object is that no path leads to any more
Nowhere == <<"nowhere">>    \* where a path leads that cannot be followed
Dir     == [kind |-> "dir", data |-> <<>>]
File(d) == [kind |-> "file", data |-> d]
Closed  == [on |-> FALSE, path |-> Gone, flag |-> {}, sole |-> FALSE, pos |-> 0]
NoSearch == [on |-> FALSE, dir |-> Gone, due |-> {}, pat |-> {}]

Exists(s, p) == p \in DOMAIN s.tree
IsDir(s, p)  == Exists(s, p) /\ s.tree[p].kind = "dir"
IsFile(s, p) == Exists(s, p) /\ s.tree[p].kind = "file"
Up(p) == IF p = <<>> THEN p ELSE Front(p)
Below(s, p) == {q \in DOMAIN s.tree : Len(q) = Len(p) + 1 /\ Front(q) = p}
Names(s, p) == {Last(q) : q \in Below(s, p)}

Step(s, p, n) == IF ~IsDir(s, p) \/ n = "" THEN Nowhere
                 ELSE IF n = "." THEN p ELSE IF n = ".." THEN Up(p) ELSE Append(p, n)
Walk(s, path, segs) == FoldLeft(LAMBDA p, n : Step(s, p, n), IF path.abs THEN <<>> ELSE s.cwd, segs)
Place(s, path) == Walk(s, path, path.segs)

IsDots(path) == path.segs # <<>> /\ Last(path.segs) \in {".", ".."}
\* A path that ends at the root without naming an entry.
Rootish(s, path) == path.segs = <<>> \/ (IsDots(path) /\ Walk(s, path, Front(path.segs)) = <<>>)
Named(path) == path.segs # <<>> /\ ~IsDots(path)

\* Open objects, and whether one more may be opened.
Opened(s)     == {h \in Handles : s.open[h].on /\ s.open[h].path # Gone}
Places(s)     == {s.open[h].path : h \in Opened(s)}
OpenRoom(s)   == Cardinality(Places(s)) + (IF s.search.on /\ s.search.dir # <<>> THEN 1 ELSE 0) < MaxOpen
InUse(s, p)   == p \in Places(s)
Unsaved(s)    == {s.open[h].path : h \in {g \in Opened(s) : s.open[g].sole}}

\* The tree is as wanted, but for the places in loose.
Tree(t, want, loose) ==
    \A p \in (DOMAIN t.tree \cup DOMAIN want) \ loose :
        p \in DOMAIN t.tree /\ p \in DOMAIN want /\ t.tree[p] = want[p]

With(tree, p, node) == [q \in DOMAIN tree \cup {p} |-> IF q = p THEN node ELSE tree[q]]
Without(tree, ps)   == [q \in DOMAIN tree \ ps |-> tree[q]]

\* A search knows the entries still to be listed; one that goes is not due any
\* more, one that is new may be.  A search whose directory is gone lists anything.
Searching(s, t, gone, new) ==
    s.search.dir # Gone =>
        /\ [t.search EXCEPT !.due = {}] = [s.search EXCEPT !.due = {}]
        /\ t.search.due \ new = s.search.due \ (gone \cup new)

\* No room for an entry: no cluster is free, or a root of fixed size is full.
NoRoom(s, p) == s.room = 0 \/ (Up(p) = <<>> /\ s.full)

Same(s, t, fields) == \A f \in fields : s[f] = t[f]
Refused(c, s, t, loose) ==
    /\ c.result = "ERR" /\ Tree(t, s.tree, loose) /\ Same(s, t, {"cwd", "open"}) /\ Searching(s, t, {}, {})
-----------------------------------------------------------------------------
(* Files. *)

Locked(s, p, sole) == InUse(s, p) /\ (sole \/ p \in Unsaved(s))

\* A file is opened if it is there or may be made, nobody uses it in a way that
\* excludes this one, and there is room to note it.
OpenOk(c, s, t, loose) ==
    LET p     == Place(s, c.path)
        sole  == ~(c.arg \subseteq {"READ"})
        data  == IF Exists(s, p) /\ "CREATE_ALWAYS" \notin c.arg THEN s.tree[p].data ELSE <<>>
        size  == Len(data)
        new   == IF Exists(s, p) THEN {} ELSE {p}
    IN  /\ Tree(t, With(s.tree, p, File(data)), loose)
        /\ t.open = [s.open EXCEPT ![c.fh] = [on |-> TRUE, path |-> p, flag |-> c.arg \cap {"READ", "WRITE"},
                                               sole |-> sole, pos |-> IF "SEEKEND" \in c.arg THEN size ELSE 0]]
        /\ t.cwd = s.cwd
        /\ Searching(s, t, {}, IF new # {} /\ Up(p) = s.search.dir THEN {Last(p)} ELSE {})

Open(c, s, t, loose) ==
    LET p == Place(s, c.path)
        creates == c.arg \cap {"CREATE_ALWAYS", "CREATE_NEW", "OPEN_ALWAYS"} # {}
        may == /\ c.fh \in Handles /\ p # Nowhere /\ Named(c.path)
               /\ IF Exists(s, p) THEN IsFile(s, p) /\ ~(creates /\ "CREATE_NEW" \in c.arg)
                  ELSE creates /\ IsDir(s, Up(p))
               /\ ~Locked(s, p, ~(c.arg \subseteq {"READ"}))
               /\ InUse(s, p) \/ OpenRoom(s)
    IN  IF may THEN \/ c.result = "OK" /\ OpenOk(c, s, t, loose)
                    \/ ~Exists(s, p) /\ NoRoom(s, p) /\ Refused(c, s, t, loose)
        ELSE Refused([c EXCEPT !.result = IF c.fh \in Handles THEN @ ELSE IF @ = "TOOMANY" THEN "ERR" ELSE "OK"],
                     s, t, loose)

\* A call on an open file leaves everything but the file's own data and position.
OnFile(c, s, t, loose, data, pos) ==
    LET f == s.open[c.fh]
    IN  /\ c.result = "OK" /\ t.cwd = s.cwd /\ Searching(s, t, {}, {})
        /\ Tree(t, With(s.tree, f.path, File(data)), loose)
        /\ t.open = [s.open EXCEPT ![c.fh].pos = pos]

Close(c, s, t, loose) ==
    /\ c.result = "OK" /\ t.cwd = s.cwd /\ Searching(s, t, {}, {})
    /\ Tree(t, s.tree, loose) /\ t.open = [s.open EXCEPT ![c.fh] = Closed]

OnOpenFile(c, s, t, loose) ==
    LET f    == s.open[c.fh]
        data == s.tree[f.path].data
        size == Len(data)
        short(n, want) == n < want => t.room = 0
        Lesser(a, b) == IF a < b THEN a ELSE b
        grown == t.tree[f.path].data
    IN  CASE c.op = "read" ->
               IF "READ" \notin f.flag THEN Refused(c, s, t, loose)
               ELSE /\ c.out = SubSeq(data, f.pos + 1, Lesser(f.pos + c.arg, size))
                    /\ OnFile(c, s, t, loose, data, f.pos + Len(c.out))
          [] c.op = "write" ->
               IF "WRITE" \notin f.flag THEN Refused(c, s, t, loose)
               ELSE /\ c.out \in 0 .. Len(c.arg) /\ short(c.out, Len(c.arg))
                    /\ OnFile(c, s, t, loose, SubSeq(data, 1, f.pos) \o SubSeq(c.arg, 1, c.out)
                                              \o SubSeq(data, f.pos + c.out + 1, size), f.pos + c.out)
          [] c.op = "seek" ->
               IF "WRITE" \notin f.flag \/ c.arg <= size
               THEN OnFile(c, s, t, loose, data, Lesser(c.arg, size))
               ELSE /\ IsPrefix(data, grown) /\ Len(grown) <= c.arg /\ short(Len(grown), c.arg)
                    /\ OnFile(c, s, t, loose, grown, Len(grown))
          [] c.op = "size" -> c.out = size  /\ OnFile(c, s, t, loose, data, f.pos)
          [] c.op = "tell" -> c.out = f.pos /\ OnFile(c, s, t, loose, data, f.pos)
          [] c.op = "close" -> Close(c, s, t, loose)
-----------------------------------------------------------------------------
(* Directories. *)

\* A file that is written may be shorter on the card than it is.
Shows(s, p, out) ==
    /\ out.attr = s.tree[p].kind
    /\ IF IsFile(s, p) /\ p \notin Unsaved(s) THEN out.size = Len(s.tree[p].data) ELSE TRUE

\* The search, which stood at `from', gives its next match or says there is none.
Lists(c, s, t, from) ==
    LET n == c.out.name
    IN  /\ c.result = "OK" /\ [t.search EXCEPT !.due = {}] = [from EXCEPT !.due = {}]
        /\ t.search.due \subseteq from.due
        /\ IF n = "" THEN from.due \cap from.pat = {}
           ELSE /\ n \in from.due \cap from.pat /\ n \notin t.search.due
                /\ (from.due \ t.search.due) \cap from.pat = {n}
                /\ Shows(s, Append(from.dir, n), [c.out EXCEPT !.name = n])

Quiet(s, t, loose) == Tree(t, s.tree, loose) /\ Same(s, t, {"cwd", "open"})

FindFirst(c, s, t, loose) ==
    LET p == Place(s, c.path)
        none == [s EXCEPT !.search = NoSearch]
        from == [on |-> TRUE, dir |-> p, due |-> Names(s, p), pat |-> c.arg]
    IN  /\ Quiet(s, t, loose)
        /\ IF IsDir(s, p) /\ (p = <<>> \/ OpenRoom(none)) THEN Lists(c, s, t, from)
           ELSE c.result = "ERR" /\ ~t.search.on

FindNext(c, s, t, loose) ==
    /\ Quiet(s, t, loose)
    /\ s.search.dir # Gone => Lists(c, s, t, s.search)
    /\ ~s.search.on => c.result = "ERR" /\ ~t.search.on

Unlink(c, s, t, loose) ==
    LET p == Place(s, c.path)
        kept == /\ Quiet(s, t, loose) /\ Searching(s, t, {}, {})
    IN  IF ~Exists(s, p) THEN kept /\ c.result \in {"NOTFOUND"} \cup (IF "" \in ToSet(c.path.segs) THEN {"ERR"} ELSE {})
        ELSE IF ~Named(c.path) \/ InUse(s, p) THEN kept /\ c.result = "ERR"
        ELSE IF IsDir(s, p) /\ (Below(s, p) # {} \/ p = s.cwd) THEN kept /\ c.result = "DENIED"
        ELSE /\ c.result = "OK" /\ Tree(t, Without(s.tree, {p}), loose) /\ Same(s, t, {"cwd", "open"})
             /\ IF s.search.dir = p THEN t.search.dir = Gone
                ELSE Searching(s, t, IF Up(p) = s.search.dir THEN {Last(p)} ELSE {}, {})

GetCwd(c, s, t, loose) ==
    /\ c.result = "OK" /\ c.out = s.cwd /\ Quiet(s, t, loose) /\ Searching(s, t, {}, {})

ChDir(c, s, t, loose) ==
    LET p == Place(s, c.path)
    IN  IF IsDir(s, p)
        THEN /\ c.result = "OK" /\ t.cwd = p /\ Same(s, t, {"open"})
             /\ Tree(t, s.tree, loose) /\ Searching(s, t, {}, {})
        ELSE Refused([c EXCEPT !.result = IF @ = "INVALID" THEN "ERR" ELSE @], s, t, loose)

\* The free room is told rightly as long as FatFS knows it (sure).
Free(c, s, t, loose) ==
    /\ c.result = "OK" /\ (s.sure => c.out = s.room) /\ Same(s, t, {"room", "sure"}) /\ Quiet(s, t, loose) /\ Searching(s, t, {}, {})

MkDir(c, s, t, loose) ==
    LET p == Place(s, c.path)
    IN  IF p # Nowhere /\ Named(c.path) /\ ~Exists(s, p) /\ IsDir(s, Up(p))
        THEN \/ /\ c.result = "OK" /\ Tree(t, With(s.tree, p, Dir), loose) /\ Same(s, t, {"cwd", "open"})
                /\ Searching(s, t, {}, IF Up(p) = s.search.dir THEN {Last(p)} ELSE {})
             \/ (s.room = 1 \/ NoRoom(s, p)) /\ Refused(c, s, t, loose)
        ELSE Refused(c, s, t, loose)

Stat(c, s, t, loose) ==
    LET p == Place(s, c.path)
    IN  IF Exists(s, p) /\ ~Rootish(s, c.path)
        THEN /\ c.result = "OK" /\ c.out.name = Last(c.path.segs)
             /\ Shows(s, p, c.out) /\ Quiet(s, t, loose) /\ Searching(s, t, {}, {})
        ELSE Refused(c, s, t, loose)

\* Everything at or below old is below new afterwards.
Moved(p, old, new) == IF IsPrefix(old, p) THEN new \o SubSeq(p, Len(old) + 1, Len(p)) ELSE p

Rename(c, s, t, loose) ==
    LET old == Place(s, c.path)
        new == Place(s, c.arg)
        Mv(p) == Moved(p, old, new)
        In(p, d) == IF Up(p) = d THEN {Last(p)} ELSE {}
    IN  IF /\ Exists(s, old) /\ Named(c.path) /\ ~InUse(s, old)
           /\ new # Nowhere /\ Named(c.arg) /\ (new = old \/ ~Exists(s, new)) /\ IsDir(s, Up(new))
        THEN \/ /\ c.result = "OK" /\ t.cwd = Mv(s.cwd)
                /\ Tree(t, [q \in {Mv(p) : p \in DOMAIN s.tree} |-> s.tree[Moved(q, new, old)]], loose)
                /\ t.open = [h \in Handles |-> [s.open[h] EXCEPT !.path = Mv(@)]]
                /\ Searching([s EXCEPT !.search.dir = Mv(@)], t,
                             In(old, s.search.dir), In(new, s.search.dir))
             \/ NoRoom(s, new) /\ Refused(c, s, t, loose)
        ELSE Refused(c, s, t, loose)

\* Mounting anew closes everything; what was not saved may be anything.
Mount(c, s, t, loose) ==
    /\ c.result = "OK" /\ t.cwd = <<>> /\ t.open = [h \in Handles |-> Closed] /\ ~t.search.on
    /\ Tree(t, s.tree, loose \cup Unsaved(s))

Does(c, s, t, loose) ==
    CASE c.op = "open" -> Open(c, s, t, loose)
      [] c.op \in {"read", "write", "seek", "size", "tell", "close"} -> OnOpenFile(c, s, t, loose)
      [] c.op = "unlink" -> Unlink(c, s, t, loose)
      [] c.op = "findfirst" -> FindFirst(c, s, t, loose)
      [] c.op = "findnext" -> FindNext(c, s, t, loose)
      [] c.op = "getcwd" -> GetCwd(c, s, t, loose)
      [] c.op = "chdir" -> ChDir(c, s, t, loose)
      [] c.op = "free" -> Free(c, s, t, loose)
      [] c.op = "mkdir" -> MkDir(c, s, t, loose)
      [] c.op = "stat" -> Stat(c, s, t, loose)
      [] c.op = "rename" -> Rename(c, s, t, loose)
      [] c.op = "init" -> Mount(c, s, t, loose)

Init == IsDir(fs, <<>>) /\ call.op = "none"
Next == Does(call', fs, fs', {})
Spec == Init /\ [][Next]_<<fs, call>>
=============================================================================
