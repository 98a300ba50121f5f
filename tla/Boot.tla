--------------------------------- MODULE Boot --------------------------------
(***************************************************************************)
(* From the boot ROM to the programs, in pages of 4 KB: the first stage     *)
(* (software/spu32-system/boot-stage1/stage1.c, crt0.s) copies the BIOS and *)
(* the second stage out of the flash, the second stage                      *)
(* (boot-stage2/stage2.c) reads the shell from the card and the shell       *)
(* (shell/shell.c, do_run) reads programs.  Every request to the file       *)
(* service may fail (module FatFs).  A page holds what was put there last.  *)
(***************************************************************************)
EXTENDS Integers

CONSTANTS RAMPAGES,          \* 128 pages, 512 KB
          BIOS_PAGES,        \* the BIOS, 6 pages
          STAGE2_PAGE,       \* where the second stage runs, page 16
          SHELL_STACK,       \* pages of the stack below the shell
          Sizes              \* sizes of files in pages

VARIABLES ram,               \* what each page holds: <<name, page of it>>
          runs,              \* what runs: "rom", "stage1", "stage2", "shell",
                             \* "program", "halted"
          led,               \* the LEDs show why the second stage halted
          fh,                \* a file is open
          files,             \* size of shell.bin, of the program here and in /bin
          whole              \* history: pages the running program ought to have

vars == <<ram, runs, led, fh, files, whole>>

BIOS_PAGE  == RAMPAGES - BIOS_PAGES                 \* (512 - 24) * 1024
SHELL_PAGE == RAMPAGES - BIOS_PAGES - 1             \* (512 - 28) * 1024
PROGRAM_PAGES == RAMPAGES - 16                      \* (512 - 64) * 1024
None == -1                                          \* no such file

\* The image in the flash: stage1_4k.bin, stage2_4k.bin and bios_24k.bin.
Flash(page) == CASE page = 0 -> <<"stage1", 0>>
                 [] page = 1 -> <<"stage2", 0>>
                 [] OTHER    -> <<"bios", page - 2>>
\* n pages copied from there.
FromFlash(mem, to, from, n) ==
  [p \in 0 .. RAMPAGES - 1 |->
     IF p - to \in 0 .. n - 1 THEN Flash(from + p - to) ELSE mem[p]]

Init ==
  /\ ram = [p \in 0 .. RAMPAGES - 1 |-> <<"free", 0>>] /\ runs = "rom" /\ led = 0
  /\ fh = FALSE /\ whole = 0
  /\ files \in [{"shell.bin", "here", "bin"} -> Sizes \cup {None}]

\* load_from_spi of the boot ROM.
LoadStage1 ==
  /\ runs = "rom" /\ ram' = FromFlash(ram, 0, 0, 1) /\ runs' = "stage1" /\ whole' = 1
  /\ UNCHANGED <<led, fh, files>>

\* load_bios and load_stage2; crt0 makes the BIOS the trap handler.
RunStage1 ==
  /\ runs = "stage1"
  /\ ram' = FromFlash(FromFlash(ram, BIOS_PAGE, 2, BIOS_PAGES), STAGE2_PAGE, 1, 1)
  /\ runs' = "stage2" /\ whole' = 1
  /\ UNCHANGED <<led, fh, files>>

\* The pages a read of at most max pages brings.
FromFile(name, to, max) ==
  [p \in 0 .. RAMPAGES - 1 |->
     IF p - to \in 0 .. max - 1 /\ p - to < files[name] THEN <<name, p - to>> ELSE ram[p]]

\* The shell keeps font, screen and variables on the stack.
Stacked(mem) == [p \in 0 .. RAMPAGES - 1 |->
                   IF SHELL_PAGE - p \in 1 .. SHELL_STACK THEN <<"stack", p>> ELSE mem[p]]

\* main of the second stage: any failure halts.
Halt(error) == runs' = "halted" /\ led' = error /\ UNCHANGED <<files, whole>>
RunStage2 ==
  /\ runs = "stage2"
  /\ \/ (* bios_fs_init *) Halt(1) /\ UNCHANGED <<ram, fh>>
     \/ (* bios_fs_open *) Halt(2) /\ UNCHANGED <<ram, fh>>
     \/ (* bios_fs_size *)
        files["shell.bin"] # None /\ Halt(6) /\ fh' = TRUE /\ UNCHANGED ram
     \/ (* too big *)
        files["shell.bin"] > 1 /\ Halt(7) /\ fh' = TRUE /\ UNCHANGED ram
     \/ /\ files["shell.bin"] \in {0, 1}
        /\ \/ (* bios_fs_read *) Halt(4) /\ fh' = TRUE /\ UNCHANGED ram
           \/ (* bios_fs_close *) Halt(5) /\ fh' = TRUE
              /\ ram' = FromFile("shell.bin", SHELL_PAGE, 1)
           \/ /\ ram' = Stacked(FromFile("shell.bin", SHELL_PAGE, 1))
              /\ runs' = "shell" /\ led' = 0 /\ whole' = files["shell.bin"]
              /\ UNCHANGED <<fh, files>>

\* The first n pages with anything in them.
Spoilt(n) == [p \in 0 .. RAMPAGES - 1 |-> IF p < n THEN <<"data", 0>> ELSE ram[p]]
Smaller(a, b) == IF a < b THEN a ELSE b

\* do_run of the shell, first here and then in /bin: a read that fails may have
\* overwritten what was there.  The result of bios_fs_size is not looked at: it
\* fails for a handle that is not in use only, and the file has just been opened.
TooBig_Unchecked(name) == FALSE
TooBig(name) == files[name] > PROGRAM_PAGES
Opens(name)  == files[name] # None /\ ~TooBig(name)
Loads(name)  ==
  /\ Opens(name) /\ ram' = FromFile(name, 0, PROGRAM_PAGES)
  /\ runs' = "program" /\ whole' = files[name]
Fails(name)  ==
  \/ UNCHANGED ram
  \/ Opens(name) /\ ram' = Spoilt(Smaller(files[name], PROGRAM_PAGES))
do_run ==
  /\ runs = "shell"
  /\ \/ Loads("here") \/ Loads("bin")
     \/ (Fails("here") \/ Fails("bin")) /\ UNCHANGED <<runs, whole>>
  /\ UNCHANGED <<led, fh, files>>

\* A program is external: it writes to its own pages, and returns to the shell.
ProgramWrites ==
  /\ runs = "program" /\ ram' = Spoilt(whole)
  /\ UNCHANGED <<runs, led, fh, files, whole>>
ProgramReturns ==
  /\ runs = "program" /\ runs' = "shell" /\ whole' = files["shell.bin"]
  /\ UNCHANGED <<ram, led, fh, files>>

Stopped == runs = "halted" /\ UNCHANGED vars

Next == LoadStage1 \/ RunStage1 \/ RunStage2 \/ do_run \/ ProgramWrites
        \/ ProgramReturns \/ Stopped
Spec == Init /\ [][Next]_vars /\ WF_vars(LoadStage1 \/ RunStage1 \/ RunStage2)
-----------------------------------------------------------------------------
Has(page, name, n) == \A i \in 0 .. n - 1 : ram[page + i] = <<name, i>>

\* Whoever runs is whole in memory: the BIOS from the second stage on, the
\* stages until they hand over, the shell and its stack under every program
\* it runs and every attempt that fails halfway.
CodeIntact ==
  /\ runs \in {"stage2", "shell", "program", "halted"} => Has(BIOS_PAGE, "bios", BIOS_PAGES)
  /\ runs = "stage1" => Has(0, "stage1", 1)
  /\ runs = "stage2" => Has(STAGE2_PAGE, "stage2", 1)
  /\ runs \in {"shell", "program"} =>
       /\ Has(SHELL_PAGE, "shell.bin", files["shell.bin"]) /\ ~fh
       /\ \A i \in 1 .. SHELL_STACK : ram[SHELL_PAGE - i] = <<"stack", SHELL_PAGE - i>>

\* The program found is in memory with all of its file.
Loaded ==
  \E name \in {"here", "bin"} : Has(0, name, files[name])
=============================================================================
