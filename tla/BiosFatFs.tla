------------------------------ MODULE BiosFatFs ------------------------------
(***************************************************************************)
(* The file service of the BIOS on a card that may fail: the calls of       *)
(* software/spu32-system/bios/bios_fatfs.c, one at a time, on top of FatFs. *)
(*                                                                         *)
(* In a call, one access to the card may fail in any of the ways FatVolume  *)
(* knows, or the power may be cut between two accesses, which leaves what   *)
(* is on the card and nothing else.                                         *)
(***************************************************************************)
EXTENDS FatFs

LOCAL INSTANCE FiniteSetsExt

CONSTANTS Paths, Modes, Writes, Counts, Positions, Patterns,    \* arguments of calls
          Renames,      \* pairs of an old and a new path
          Starts,       \* the card, FatFS and the handles at the start
          MaxCalls, MaxFaults, PowerCuts                        \* bounds

VARIABLES vol,          \* the card and all of FatFS
          handle_used,  \* the handles given out
          call,         \* the last call, its arguments, its result
          calls, faults

vars == <<vol, handle_used, call, calls, faults>>

OffVolume(image) ==
    [disk |-> image.disk, fat32 |-> image.fat32, win |-> [slots |-> <<>>], winsect |-> NoSector,
     wflag |-> FALSE, free_clst |-> Unknown, last_clst |-> Unknown, fsi_flag |-> "off",
     enabled |-> FALSE, mounted |-> FALSE, id |-> 0, cdir |-> 0,
     Files |-> [i \in Locks |-> NoLock], file |-> [h \in Handles |-> NoFil], dir |-> NoDirObj,
     res |-> "OK", val |-> 0, out |-> <<>>, dp |-> NoDir, may |-> FALSE, fault |-> "none"]

\* Between two calls nothing is left of how the last one got its result.
Settled(v) == [v EXCEPT !.res = "OK", !.val = 0, !.out = <<>>, !.dp = NoDir, !.may = FALSE, !.fault = "none"]

NoCall == [op |-> "none", fh |-> -1, path |-> [abs |-> TRUE, segs |-> <<>>], arg |-> <<>>,
           result |-> "OK", out |-> <<>>, fault |-> "none"]

Init ==
    /\ \E start \in Starts : vol = start.vol /\ handle_used = start.handle_used
    /\ call = NoCall /\ calls = 0 /\ faults = 0

\* The volume a call finds: while the bound allows, an access may fail.
Card == [vol EXCEPT !.may = faults < MaxFaults]

\* The call of FatFS leaves one of ws behind; Result is what the BIOS makes of
\* its FRESULT, Used(r) the handles in use after result r.
Do(c, ws, Result(_), Used(_)) ==
    /\ calls < MaxCalls /\ calls' = calls + 1
    /\ \E w \in ws :
        /\ faults' = IF w.fault = "none" THEN faults ELSE faults + 1
        /\ \/ /\ vol' = Settled(w)
              /\ call' = [c EXCEPT !.result = Result(w.res), !.out = w.out, !.fault = w.fault]
              /\ handle_used' = Used(Result(w.res))
           \/ /\ PowerCuts /\ w.fault = "dead"     \* and the BIOS starts with mounting the card
              /\ \E m \in f_mount(OffVolume(w)) : vol' = Settled(m)
              /\ call' = [c EXCEPT !.fault = "cut"]
              /\ handle_used' = [h \in Handles |-> FALSE]

OkOrErr(res) == IF res = "OK" THEN "OK" ELSE "ERR"
Same(result) == handle_used

Plain(c, ws)   == Do(c, ws, OkOrErr, Same)
On(op)         == [NoCall EXCEPT !.op = op]
OnPath(op, p)  == [On(op) EXCEPT !.path = p]
OnFile(op, h)  == [On(op) EXCEPT !.fh = h]

\* A handle that was not given out is refused before FatFS is asked.
check_filehandle(h) == handle_used[h]
Given == {h \in Handles : check_filehandle(h)}
find_free_filehandle == IF Given = Handles THEN -1 ELSE Min(Handles \ Given)

bios_fatfs_init ==
    Do(On("init"), f_mount(Card), OkOrErr,
       LAMBDA r : IF r = "OK" THEN [h \in Handles |-> FALSE] ELSE handle_used)

bios_fatfs_open(path, mode) ==
    LET h == find_free_filehandle
        c == [OnPath("open", path) EXCEPT !.arg = mode, !.fh = h]
    IN  IF h = -1 THEN Do(c, {Card}, LAMBDA r : "TOOMANY", Same)
        ELSE Do(c, f_open(Card, h, path, mode), OkOrErr,
                LAMBDA r : IF r = "OK" THEN [handle_used EXCEPT ![h] = TRUE] ELSE handle_used)

bios_fatfs_close(h) ==
    /\ check_filehandle(h)
    /\ Do(OnFile("close", h), f_close(Card, h), OkOrErr,
          LAMBDA r : IF r = "OK" THEN [handle_used EXCEPT ![h] = FALSE] ELSE handle_used)

bios_fatfs_read(h, n) ==
    check_filehandle(h) /\ Plain([OnFile("read", h) EXCEPT !.arg = n], f_read(Card, h, n))

bios_fatfs_write(h, data) ==
    check_filehandle(h) /\ Plain([OnFile("write", h) EXCEPT !.arg = data], f_write(Card, h, data))

bios_fatfs_seek(h, pos) ==
    check_filehandle(h) /\ Plain([OnFile("seek", h) EXCEPT !.arg = pos], f_lseek(Card, h, pos))

\* size and tell look at the FIL object only.
bios_fatfs_size(h) ==
    /\ check_filehandle(h)
    /\ Plain(OnFile("size", h), {[vol EXCEPT !.out = vol.file[h].objsize]})
bios_fatfs_tell(h) ==
    /\ check_filehandle(h)
    /\ Plain(OnFile("tell", h), {[vol EXCEPT !.out = vol.file[h].fptr]})

bios_fatfs_unlink(path) ==
    Do(OnPath("unlink", path), f_unlink(Card, path),
       LAMBDA r : IF r \in {"OK", "DENIED"} THEN r
                  ELSE IF r \in {"NO_FILE", "NO_PATH"} THEN "NOTFOUND" ELSE "ERR", Same)

\* The directory of the last search is closed first, whatever comes of it.
bios_fatfs_findfirst(path, pat) ==
    Plain([OnPath("findfirst", path) EXCEPT !.arg = pat],
          UNION {f_findfirst(Always(d), path, pat) : d \in f_closedir(Card)})

bios_fatfs_findnext == Plain(On("findnext"), f_findnext(Card))

\* The result is never returned.
bios_fatfs_getcwd == Do(On("getcwd"), f_getcwd(Card), LAMBDA r : "OK", Same)

bios_fatfs_chdir(path) ==
    Do(OnPath("chdir", path), f_chdir(Card, path),
       LAMBDA r : IF r = "INVALID_NAME" THEN "INVALID" ELSE OkOrErr(r), Same)

bios_fatfs_free        == Plain(On("free"), f_getfree(Card))
bios_fatfs_mkdir(path) == Plain(OnPath("mkdir", path), f_mkdir(Card, path))
bios_fatfs_stat(path)  == Plain(OnPath("stat", path), f_stat(Card, path))

bios_fatfs_rename(old, new) ==
    Plain([OnPath("rename", old) EXCEPT !.arg = new], f_rename(Card, old, new))

FileCall == \E h \in Given :
    \/ bios_fatfs_close(h)
    \/ \E n \in Counts : bios_fatfs_read(h, n)
    \/ \E data \in Writes : bios_fatfs_write(h, data)
    \/ \E pos \in Positions : bios_fatfs_seek(h, pos)
    \/ bios_fatfs_size(h)
    \/ bios_fatfs_tell(h)

PathCall == \E path \in Paths :
    \/ \E mode \in Modes : bios_fatfs_open(path, mode)
    \/ bios_fatfs_unlink(path)
    \/ \E pat \in Patterns : bios_fatfs_findfirst(path, pat)
    \/ bios_fatfs_chdir(path)
    \/ bios_fatfs_mkdir(path)
    \/ bios_fatfs_stat(path)

RenameCall == \E pair \in Renames : bios_fatfs_rename(pair[1], pair[2])

Next ==
    \/ FileCall
    \/ PathCall
    \/ RenameCall
    \/ bios_fatfs_init
    \/ bios_fatfs_findnext
    \/ bios_fatfs_getcwd
    \/ bios_fatfs_free

Spec == Init /\ [][Next]_vars
=============================================================================
