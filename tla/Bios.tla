--------------------------------- MODULE Bios --------------------------------
(***************************************************************************)
(* A request to the BIOS: the caller (bios_calls/bios_calls.c), the         *)
(* environment call and the interrupt service routine that finds out what   *)
(* is asked of which device (bios/bios.c).  The caller is four steps long:  *)
(* it sets the request up, makes the environment call, executes a           *)
(* breakpoint or an instruction the CPU does not know, and reads the        *)
(* result.  A hardware interrupt may come before any of them; none comes    *)
(* while the routine runs.                                                  *)
(***************************************************************************)
EXTENDS Naturals

CONSTANTS FsResults            \* results of the file service, BiosFatFs

VARIABLES pc,                  \* next step of the caller
          isr,                 \* the routine runs
          cause, epc,          \* registers the CPU sets when it enters it
          request,             \* what register t0 points at
          result,              \* its result field, "unset" as on the stack
          bios_stdout_device,
          served               \* history: handlers that ran for the request

vars == <<pc, isr, cause, epc, request, result, bios_stdout_device, served>>

Devices == {"UART", "KEYBOARD", "SD", "STDIN", "STDOUT", "VIDEO"}
OnFile  == {"FS_OPENFILE", "FS_CLOSEFILE", "FS_READFILE", "FS_WRITEFILE",
            "FS_UNLINK", "FS_FINDFIRST", "FS_FINDNEXT", "FS_CHDIR", "FS_FREE",
            "FS_SEEK", "FS_MKDIR", "FS_RENAME", "FS_SIZE", "FS_TELL", "FS_STAT"}
OnDevice == {"INIT_BLOCK_DEVICE", "AVAILABLE_STREAM", "READ_STREAM",
             "WRITE_STREAM", "FS_INIT", "SET_STDOUT", "GET_STDOUT"}
Modes   == {"OFF", "TEXT_40", "GRAPHICS_640", "GRAPHICS_320", "TEXT_80"}

\* The requests a caller can make; one number is no command.
Requests ==
  [command : OnDevice, device : Devices]
  \cup [command : {"READ_BLOCK", "WRITE_BLOCK"}, device : Devices, len : {511, 512}]
  \cup [command : OnFile \cup {"FS_GETCWD", "VIDEO_SETPALETTE", "VIDEO_GETMODE", "28"}]
  \cup [command : {"VIDEO_SETMODE"}, mode : Modes \cup {"COMPRESSED_640"}]

Stdout(device) == IF device = "STDOUT" THEN bios_stdout_device ELSE device

\* The results a handler may give.  The way to getcwd returns no value.
Answer(r) ==
  LET On(devices, res) == IF r.device \in devices THEN res ELSE {"ERR"}
  IN CASE r.command \in {"INIT_BLOCK_DEVICE", "FS_INIT"} -> On({"SD"}, {"OK", "ERR"})
       [] r.command \in {"READ_BLOCK", "WRITE_BLOCK"} ->
            IF r.len = 512 THEN On({"SD"}, {"OK", "ERR"}) ELSE {"ERR"}
       [] r.command = "AVAILABLE_STREAM" -> On({"UART"}, {"OK"})
       [] r.command = "READ_STREAM"      -> On({"STDIN", "UART"}, {"OK"})
       [] r.command = "WRITE_STREAM"     ->
            IF Stdout(r.device) \in {"VIDEO", "UART"} THEN {"OK"} ELSE {"ERR"}
       [] r.command \in OnFile           -> FsResults
       [] r.command = "FS_GETCWD"        -> FsResults \cup {"any"}
       [] r.command = "VIDEO_SETMODE"    -> IF r.mode \in Modes THEN {"OK"} ELSE {"ERR"}
       [] r.command = "28"               -> {"unset"}
       [] OTHER                          -> {"OK"}
-----------------------------------------------------------------------------
Init ==
  /\ pc = 0 /\ isr = FALSE /\ cause = "none" /\ epc = 0
  /\ request \in {[command |-> "28"]} /\ result = "unset"
  /\ bios_stdout_device = "UART" /\ served = 0

\* bios_calls: the fields of the request; its result is what the stack held.
SetUp(r) ==
  /\ ~isr /\ pc = 0 /\ pc' = 1 /\ request' = r /\ result' = "unset" /\ served' = 0
  /\ UNCHANGED <<isr, cause, epc, bios_stdout_device>>

Trap(c) ==
  /\ ~isr /\ isr' = TRUE /\ cause' = c /\ epc' = pc
  /\ CASE c = "ecall" -> pc = 1
       [] c \in {"ebreak", "invalid"} -> pc = 2
       [] c = "interrupt" -> TRUE
  /\ UNCHANGED <<pc, request, result, bios_stdout_device, served>>

\* Where the caller goes on: an interrupted instruction has not been executed.
Resume_AlwaysNext == epc + 1
Resume == IF cause = "interrupt" THEN epc ELSE epc + 1

bios_isr ==
  /\ isr /\ isr' = FALSE /\ pc' = Resume
  /\ IF cause = "ecall"
     THEN /\ result' \in Answer(request) /\ served' = served + 1
          /\ bios_stdout_device' = IF request.command = "SET_STDOUT"
                                   THEN request.device ELSE bios_stdout_device
     ELSE UNCHANGED <<result, served, bios_stdout_device>>
  /\ UNCHANGED <<cause, epc, request>>

ReadResult ==
  /\ ~isr /\ pc = 3 /\ pc' = 0
  /\ UNCHANGED <<isr, cause, epc, request, result, bios_stdout_device, served>>

Next == \/ \E r \in Requests : SetUp(r)
        \/ \E c \in {"ecall", "ebreak", "invalid", "interrupt"} : Trap(c)
        \/ bios_isr \/ ReadResult
Spec == Init /\ [][Next]_vars
-----------------------------------------------------------------------------
\* A request is served exactly once before the caller reads its result, and
\* what the caller reads is an answer to it, whatever interrupts come in
\* between: an interrupt neither skips the call nor repeats it.
ServedOnce ==
  /\ pc = 3 => served = 1 /\ (result = "unset" => request.command = "28")
  /\ pc < 2 /\ ~isr => served = 0 \/ pc = 0
=============================================================================
