------------------------------ MODULE BiosFiles ------------------------------
(***************************************************************************)
(* The file service of the BIOS (software/spu32-system/bios/bios_fatfs.c): *)
(* a table of file handles on top of FatFS.  FatFS and the card, vendored  *)
(* and external, are what this file relies on: a file is a sequence of     *)
(* bytes, FF_FS_LOCK lets one writer or several readers have it open, and  *)
(* any call may fail.                                                      *)
(*                                                                         *)
(* An operation is an action with its result; one that fails because the   *)
(* card does is left to the module that counts failures.                   *)
(***************************************************************************)
EXTENDS Integers, Sequences, FiniteSetsExt

CONSTANTS FILEHANDLES,  \* entries of the table
          NoFile        \* the content of a file that does not exist

ASSUME HandleAssumption == FILEHANDLES \in Nat \ {0}

Handle == 0 .. FILEHANDLES - 1

VARIABLES
    handle_used,    \* the handles given out
    file,           \* the FIL object of each handle
    disk            \* the files of the card

filesVars == <<handle_used, file, disk>>

Content(path) == IF path \in DOMAIN disk THEN disk[path] ELSE NoFile

\* The card with an empty file at path.
Emptied(path) == [p \in DOMAIN disk \cup {path} |-> IF p = path THEN <<>> ELSE disk[p]]

\* The names of the card that exist already are those of the domain.
InitFiles(contents) ==
    /\ handle_used = [h \in Handle |-> FALSE]
    /\ file = [h \in Handle |-> [path |-> <<>>, pos |-> 0, write |-> FALSE]]
    /\ disk = contents

find_free_filehandle ==
    IF \E h \in Handle : ~handle_used[h] THEN Min({h \in Handle : ~handle_used[h]}) ELSE -1

check_filehandle(fh) == fh \in Handle /\ handle_used[fh]

\* f_open succeeds on a card that works.
Openable(path, write) ==
    /\ path # <<>>
    /\ write \/ Content(path) # NoFile
    /\ \A h \in Handle : handle_used[h] /\ file[h].path = path => ~write /\ ~file[h].write

\* Mutant of bios_fatfs_open: a full table is not noticed.
bios_fatfs_open_WhenFull(path, write) ==
    LET fh == find_free_filehandle
    IN  /\ Openable(path, write)
        /\ handle_used' = [handle_used EXCEPT ![fh] = TRUE]
        /\ file' = [file EXCEPT ![fh] = [path |-> path, pos |-> 0, write |-> write]]
        /\ disk' = IF write THEN Emptied(path) ELSE disk

\* Writers open with CREATE_ALWAYS.
bios_fatfs_open(path, write) ==
    LET fh == find_free_filehandle
    IN  /\ fh # -1 /\ Openable(path, write)
        /\ handle_used' = [handle_used EXCEPT ![fh] = TRUE]
        /\ file' = [file EXCEPT ![fh] = [path |-> path, pos |-> 0, write |-> write]]
        /\ disk' = IF write THEN Emptied(path) ELSE disk

OpenRefused(path, write) == find_free_filehandle = -1 \/ ~Openable(path, write)

bios_fatfs_close(fh) ==
    /\ check_filehandle(fh)
    /\ handle_used' = [handle_used EXCEPT ![fh] = FALSE]
    /\ UNCHANGED <<file, disk>>

\* The next len bytes, fewer at the end of the file.
Chunk(fh, len) ==
    LET f == file[fh]
    IN  SubSeq(Content(f.path), f.pos + 1, Min({f.pos + len, Len(Content(f.path))}))

Readable(fh) == check_filehandle(fh) /\ ~file[fh].write
Writable(fh) == check_filehandle(fh) /\ file[fh].write

bios_fatfs_read(fh, len) ==
    /\ Readable(fh)
    /\ file' = [file EXCEPT ![fh].pos = @ + Len(Chunk(fh, len))]
    /\ UNCHANGED <<handle_used, disk>>

bios_fatfs_write(fh, bytes) ==
    /\ Writable(fh)
    /\ disk' = [disk EXCEPT ![file[fh].path] = @ \o bytes]
    /\ UNCHANGED <<handle_used, file>>
=============================================================================
