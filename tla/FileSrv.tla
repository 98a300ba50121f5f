------------------------------- MODULE FileSrv -------------------------------
(***************************************************************************)
(* The file transfer: the client on the PC (software/filesrv/              *)
(* filesrv_client.c) and the server on the board (software/spu32-system/   *)
(* apps/filesrv/filesrv.c), each over its copy of the packet layer, with   *)
(* the BIOS's file service behind the server.                              *)
(*                                                                         *)
(* The user gives commands, one at a time, to copy one file to or from the *)
(* card.  The card may fail, the client's file system may, and bytes on    *)
(* the line may be damaged.                                                *)
(***************************************************************************)
EXTENDS Packet, BiosFiles

CONSTANTS Path,             \* the file on the card
          Contents,         \* what files may contain
          NoiseBytes,       \* what a damaged byte may become
          MaxCommands, MaxFailures, MaxDamage   \* bounds

ASSUME SetupAssumption ==
    /\ Path \in Seq(Byte \ {0}) /\ Len(Path) \in 1..BufLen
    /\ Contents \subseteq Seq(Byte) /\ NoiseBytes \subseteq Byte
    /\ MaxCommands \in Nat /\ MaxFailures \in Nat /\ MaxDamage \in Nat

\* enum cmd_enum, the commands the two programs use
FSERV_DATA      == 0
FSERV_OPENREAD  == 1
FSERV_OPENWRITE == 2
FSERV_CLOSE     == 3
FSERV_READ      == 4
FSERV_WRITE     == 5
FSERV_EXIT      == 8
FSERV_ERROR     == 9

VARIABLES
    (* client *)
    pc,         \* the call the client is in, "prompt" between commands
    result,     \* what send_file or receive_file will return
    told,       \* the user was told of a failure
    source,     \* the local file that is put, or what the card's held at a get
    pos,        \* bytes of it read, or written to the local file
    localfile,  \* the local file that is written
    ttyOpen,    \* the client still has the serial line open
    (* server *)
    serving,    \* "receive", "respond", or "stopped"
    fh,         \* the one file handle
    (* what happened so far *)
    commands, failures, damage,
    derailed    \* the damage was one the protocol cannot survive

clientVars == <<pc, result, told, source, pos, localfile, ttyOpen, commands>>
serverVars == <<serving, fh>>
packetVars == <<line, ep>>
vars == <<clientVars, serverVars, packetVars, filesVars, failures, damage, derailed>>

Done(p) == ep[p].at = "ready"
Err(p)  == ep[p].err

Init ==
    /\ InitPacket
    /\ \E before \in Contents \cup {NoFile} :
          InitFiles(IF before = NoFile THEN <<>> ELSE [path \in {Path} |-> before])
    /\ pc = "prompt" /\ result = 0 /\ told = FALSE
    /\ source = <<>> /\ pos = 0 /\ localfile \in Contents /\ ttyOpen = TRUE
    /\ serving = "receive" /\ fh = 0
    /\ commands = 0 /\ failures = 0 /\ damage = 0 /\ derailed = FALSE

Fails == failures < MaxFailures /\ failures' = failures + 1
-----------------------------------------------------------------------------
(* The client.  A step runs from the end of one packet to the header of the *)
(* next.                                                                    *)

Sends(cmd, payload, next) == SendHeader("client", cmd, payload) /\ pc' = next

\* The next bytes of the local file.
NextChunk == SubSeq(source, pos + 1, Min({pos + BufLen, Len(source)}))

\* Mutant of Close: the failure path does not close the remote file.
Close_OnlyAfterSuccess(next) ==
    IF next \in {"put close", "get close"} /\ Err("client") = 0
    THEN Sends(FSERV_CLOSE, <<>>, next)
    ELSE pc' = "prompt" /\ UNCHANGED packetVars

Close(next) == Sends(FSERV_CLOSE, <<>>, next)

\* send_file
Put ==
    /\ pc = "prompt" /\ Done("client") /\ commands < MaxCommands
    /\ commands' = commands + 1
    /\ source' \in Contents /\ pos' = 0 /\ told' = FALSE /\ result' = 0
    /\ Sends(FSERV_OPENWRITE, Path, "put")
    /\ UNCHANGED <<localfile, ttyOpen>>

\* OPENWRITE or WRITE has returned: the next bytes, or the end of it.
PutNext ==
    /\ pc = "put" /\ Done("client")
    /\ \/ /\ Err("client") = 0 /\ NextChunk # <<>>
          /\ Sends(FSERV_WRITE, NextChunk, "put")
          /\ pos' = pos + Len(NextChunk)
          /\ UNCHANGED told
       \/ /\ Err("client") # 0 \/ NextChunk = <<>>
          /\ told' = (Err("client") # 0)
          /\ Close("put close")
          /\ UNCHANGED pos
    /\ UNCHANGED <<result, source, localfile, ttyOpen, commands>>

\* Whatever happened before, send_file returns what CLOSE did.
PutReturns ==
    /\ pc = "put close" /\ Done("client")
    /\ pc' = "prompt" /\ result' = Err("client")
    /\ UNCHANGED <<told, source, pos, localfile, ttyOpen, commands, packetVars>>

\* receive_file
Get ==
    /\ pc = "prompt" /\ Done("client") /\ commands < MaxCommands
    /\ commands' = commands + 1
    /\ told' = FALSE /\ result' = 0 /\ pos' = 0 /\ source' = <<>>
    /\ Sends(FSERV_OPENREAD, Path, "get")
    /\ UNCHANGED <<localfile, ttyOpen>>

GetFails(error) == /\ result' = error
                   /\ told' = (error = 2)
                   /\ Close("get close")
                   /\ UNCHANGED <<pos, localfile>>

\* After a failed OPENREAD the client closes a descriptor that was never
\* assigned, which may be the one of the serial line.  A local file that cannot
\* be opened ends the command at once.  One that exists is not truncated.
GetOpened ==
    /\ pc = "get" /\ Done("client")
    /\ \/ /\ Err("client") # 0 /\ GetFails(2)
          /\ ttyOpen' \in BOOLEAN
          /\ UNCHANGED <<source, failures>>
       \/ /\ Err("client") = 0 /\ Fails
          /\ pc' = "prompt" /\ result' = 1 /\ told' = TRUE
          /\ UNCHANGED <<source, pos, localfile, ttyOpen, packetVars>>
       \/ /\ Err("client") = 0
          /\ Sends(FSERV_READ, <<>>, "get read")
          /\ source' = IF Content(Path) = NoFile THEN <<>> ELSE Content(Path)
          /\ UNCHANGED <<result, told, pos, localfile, ttyOpen, failures>>
    /\ UNCHANGED commands

\* READ has returned: receive_packet.
GetRequested ==
    /\ pc = "get read" /\ Done("client")
    /\ \/ Err("client") # 0 /\ GetFails(3)
       \/ /\ Err("client") = 0
          /\ Receive("client") /\ pc' = "get data"
          /\ UNCHANGED <<result, told, pos, localfile>>
    /\ UNCHANGED <<source, ttyOpen, commands>>

\* write(fd, buf, n) at the file's position
Overwritten(bytes) == SubSeq(localfile, 1, pos) \o bytes
                        \o SubSeq(localfile, pos + Len(bytes) + 1, Len(localfile))

GetReceived ==
    /\ pc = "get data" /\ Done("client")
    /\ LET data == ep["client"].data
           cmd  == Cmd(ep["client"].head)
       IN  \/ Err("client") # 0 /\ GetFails(4)
           \/ Err("client") = 0 /\ cmd # FSERV_DATA /\ GetFails(5)
           \/ /\ Err("client") = 0 /\ cmd = FSERV_DATA /\ data = <<>>
              /\ Close("get close")
              /\ UNCHANGED <<result, told, pos, localfile>>
           \/ /\ Err("client") = 0 /\ cmd = FSERV_DATA /\ data # <<>>
              /\ localfile' = Overwritten(data) /\ pos' = pos + Len(data)
              /\ Sends(FSERV_READ, <<>>, "get read")
              /\ UNCHANGED <<result, told>>
    /\ UNCHANGED <<source, ttyOpen, commands>>

\* What CLOSE returns is dropped.
GetReturns ==
    /\ pc = "get close" /\ Done("client")
    /\ pc' = "prompt"
    /\ UNCHANGED <<result, told, source, pos, localfile, ttyOpen, commands, packetVars>>

\* The packet layer of the client.  dummy_payload_func returns no value, so the
\* client acknowledges data with or without an error.
ClientPacket ==
    /\ \/ SendPayload("client") \/ EndSend("client")
       \/ ReceiveHeader("client") \/ RejectPayload("client")
       \/ \E error \in {0, 1} : AcceptPayload("client", error)
    /\ UNCHANGED clientVars

ClientStep ==
    /\ ttyOpen
    /\ \/ PutNext /\ UNCHANGED failures
       \/ PutReturns /\ UNCHANGED failures
       \/ GetOpened
       \/ GetRequested /\ UNCHANGED failures
       \/ GetReceived /\ UNCHANGED failures
       \/ GetReturns /\ UNCHANGED failures
       \/ ClientPacket /\ UNCHANGED failures
    /\ UNCHANGED <<serverVars, filesVars, damage, derailed>>

Command == /\ ttyOpen
           /\ Put \/ Get
           /\ UNCHANGED <<serverVars, filesVars, failures, damage, derailed>>
-----------------------------------------------------------------------------
(* The server. *)

\* The payload as a C string in a cleared buffer.
CString(bytes) ==
    SubSeq(bytes, 1, Min({i - 1 : i \in {j \in DOMAIN bytes : bytes[j] = 0}} \cup {Len(bytes)}))

Refused(error) == error = 1 /\ UNCHANGED <<filesVars, fh, failures>>

\* The card fails, after it did a part of the work that leaves disk.
CardFails(error, disks) ==
    /\ error = 1 /\ Fails
    /\ disk' \in disks
    /\ UNCHANGED <<handle_used, file, fh>>

OpenFile(path, write, error) ==
    \/ /\ bios_fatfs_open(path, write)
       /\ fh' = find_free_filehandle /\ error = 0
       /\ UNCHANGED failures
    \/ OpenRefused(path, write) /\ Refused(error)
    \/ /\ ~OpenRefused(path, write)
       /\ CardFails(error, {disk} \cup IF write THEN {Emptied(path)} ELSE {})

WriteFile(bytes, error) ==
    \/ bios_fatfs_write(fh, bytes) /\ error = 0 /\ UNCHANGED <<fh, failures>>
    \/ ~Writable(fh) /\ Refused(error)
    \/ /\ Writable(fh)
       /\ CardFails(error, {[disk EXCEPT ![file[fh].path] = @ \o SubSeq(bytes, 1, n)] :
                               n \in 0 .. Len(bytes) - 1})

CloseFile(error) ==
    \/ bios_fatfs_close(fh) /\ error = 0 /\ UNCHANGED <<fh, failures>>
    \/ ~check_filehandle(fh) /\ Refused(error)
    \/ check_filehandle(fh) /\ CardFails(error, {disk})

\* Mutant of payload_callback: a failed write is acknowledged.
payload_callback_WriteUnchecked(cmd, payload, error) ==
    CASE cmd \in {FSERV_OPENREAD, FSERV_OPENWRITE} ->
            OpenFile(CString(payload), cmd = FSERV_OPENWRITE, error)
      [] cmd = FSERV_WRITE -> error = 0 /\ \E e \in {0, 1} : WriteFile(payload, e)
      [] cmd = FSERV_CLOSE -> CloseFile(error)
      [] OTHER -> error = 0 /\ UNCHANGED <<filesVars, fh, failures>>

payload_callback(cmd, payload, error) ==
    CASE cmd \in {FSERV_OPENREAD, FSERV_OPENWRITE} ->
            OpenFile(CString(payload), cmd = FSERV_OPENWRITE, error)
      [] cmd = FSERV_WRITE -> WriteFile(payload, error)
      [] cmd = FSERV_CLOSE -> CloseFile(error)
      [] OTHER -> error = 0 /\ UNCHANGED <<filesVars, fh, failures>>

Listen == /\ serving = "receive"
          /\ ep["server"].at \in {"header", "payload"}

ServeHeader == /\ Listen /\ ReceiveHeader("server")
               /\ serving' = IF ep'["server"].at = "ready" THEN "respond" ELSE serving
               /\ UNCHANGED <<fh, filesVars, failures>>

ServePayload ==
    /\ Listen /\ serving' = "respond"
    /\ \/ RejectPayload("server") /\ UNCHANGED <<fh, filesVars, failures>>
       \/ \E error \in {0, 1} :
             /\ AcceptPayload("server", error)
             /\ payload_callback(Cmd(ep["server"].head), Payload("server"), error)

\* main looks at the command also when receive_packet failed.
Answers(cmd) == serving = "respond" /\ Done("server") /\ Cmd(ep["server"].head) = cmd

\* read_file
ServeRead ==
    /\ Answers(FSERV_READ) /\ serving' = "answered"
    /\ \/ /\ bios_fatfs_read(fh, BufLen)
          /\ SendHeader("server", FSERV_DATA, Chunk(fh, BufLen))
          /\ UNCHANGED failures
       \/ /\ ~Readable(fh)
          /\ SendHeader("server", FSERV_ERROR, <<>>)
          /\ UNCHANGED <<filesVars, failures>>
       \/ /\ Readable(fh) /\ Fails
          /\ SendHeader("server", FSERV_ERROR, <<>>)
          /\ UNCHANGED filesVars
    /\ UNCHANGED fh

ServerPacket == /\ serving = "answered"
                /\ SendPayload("server") \/ EndSend("server")
                /\ UNCHANGED <<serverVars, filesVars, failures>>

ServeExit == /\ Answers(FSERV_EXIT) /\ serving' = "stopped"
             /\ \E error \in {0, 1} : CloseFile(error)
             /\ UNCHANGED packetVars

ServeNext == /\ \/ /\ serving = "respond"
                   /\ ~Answers(FSERV_READ) /\ ~Answers(FSERV_EXIT)
                \/ serving = "answered"
                \/ serving = "receive" /\ ep["server"].at = "ready"
             /\ Receive("server") /\ serving' = "receive"
             /\ UNCHANGED <<fh, filesVars, failures>>

ServerStep ==
    /\ ServeHeader \/ ServePayload \/ ServeRead \/ ServerPacket \/ ServeExit \/ ServeNext
    /\ UNCHANGED <<clientVars, damage, derailed>>
-----------------------------------------------------------------------------
\* A damaged header is not answered at all; a damaged acknowledge of READ makes
\* the client give up on data the server goes on to send.
Derails(p) ==
    \/ ep[Peer(p)].at = "headAck"       \* a header is on its way to p
    \/ /\ p = "client" /\ ep[p].at \in {"headAck", "payAck"}
       /\ Cmd(ep[p].head) = FSERV_READ

\* A byte is damaged on the line.
Damage ==
    /\ damage < MaxDamage /\ damage' = damage + 1
    /\ \E p \in Side :
          /\ derailed' = (derailed \/ Derails(p))
          /\ \E i \in DOMAIN line[p], b \in NoiseBytes :
                /\ b # line[p][i]
                /\ line' = [line EXCEPT ![p][i] = b]
    /\ UNCHANGED <<ep, clientVars, serverVars, filesVars, failures>>

Next == ClientStep \/ Command \/ ServerStep \/ Damage

\* Both programs run whenever they are not waiting for the line.
FairSpec == Init /\ [][Next]_vars /\ WF_vars(ClientStep) /\ WF_vars(ServerStep)
-----------------------------------------------------------------------------
PacketTypeOK ==
    /\ line \in [Side -> Seq(Byte)]
    /\ \A p \in Side : /\ ep[p].at \in {"ready", "headAck", "payAck", "header", "payload"}
                       /\ ep[p].head \in [1..6 -> Byte] /\ ep[p].data \in Seq(Byte)
                       /\ ep[p].err \in 0..3

FilesTypeOK ==
    /\ handle_used \in [Handle -> BOOLEAN]
    /\ \A h \in Handle : /\ file[h].path \in Seq(Byte) /\ file[h].pos \in Nat
                         /\ file[h].write \in BOOLEAN
    /\ \A path \in DOMAIN disk : disk[path] \in Seq(Byte)

TypeOK ==
    /\ PacketTypeOK /\ FilesTypeOK
    /\ pc \in {"prompt", "put", "put close", "get", "get read", "get data", "get close"}
    /\ result \in 0..5 /\ told \in BOOLEAN /\ source \in Seq(Byte) /\ pos \in Nat
    /\ localfile \in Seq(Byte) /\ ttyOpen \in BOOLEAN
    /\ serving \in {"receive", "respond", "answered", "stopped"} /\ fh \in Handle
    /\ commands \in 0..MaxCommands /\ failures \in 0..MaxFailures /\ damage \in 0..MaxDamage

\* A get that reports no error has the whole file, whatever failed on the card, or
\* with a byte damaged anywhere on the line: the local file begins with what the
\* card's held when it was opened (what an older, longer local file had beyond it
\* stays).  Both together are too much: the acknowledge that refuses OPENREAD can
\* be damaged into one that grants it, and a handle that an earlier failure left
\* open in the middle of the file then gives its rest.
GetDelivers ==
    pc = "get close" /\ result = 0 /\ (damage = 0 \/ damage + failures <= 1) =>
        SubSeq(localfile, 1, Len(source)) = source

\* A put that told of no failure and returned 0 has written the whole file to
\* the card, unless the card failed and the acknowledge that says so was damaged.
\* The value send_file returns is the last CLOSE's and would not do alone.
PutDelivers ==
    [][pc = "put close" /\ pc' = "prompt" /\ ~told /\ result' = 0 /\ damage + failures <= 1
          => Content(Path) = source]_vars

\* Between commands both sides agree on where the next packet begins: nothing is
\* left on the line and the server listens, after any failure of the card or of
\* the client's files, a refused payload, and damage to all but a header or the
\* acknowledge of READ.
InStep ==
    pc = "prompt" /\ ttyOpen /\ ~derailed =>
        /\ \A p \in Side : line[p] = <<>>
        /\ ep["server"].at \in {"ready", "header"} /\ serving # "answered"

\* Every failed command costs at most one file handle, and only one that failed
\* in the card or in the local file system does: every other way out of a
\* command closes the remote file.
HandlesReturned ==
    pc = "prompt" /\ ttyOpen /\ ~derailed =>
        Quantify(Handle, LAMBDA h : handle_used[h]) <= failures

\* Every command comes to its end, short of that damage.
CommandsEnd == pc # "prompt" ~> (pc = "prompt" \/ ~ttyOpen \/ derailed)
=============================================================================
