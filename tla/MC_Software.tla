----------------------------- MODULE MC_Software -----------------------------
(***************************************************************************)
(* Six parts of the software, each with the part of the hardware below it   *)
(* as its environment: the SD card driver, the shell at the text terminal,  *)
(* requests to the BIOS, the monitor in the boot ROM with the uploader, the *)
(* boot stages, and a game.  A behaviour is of one of them, the active one, *)
(* and the others rest.  Two blocks of two bytes on the card, one of which  *)
(* looks like a token and like busy; a screen of three rows of three, lines *)
(* of up to three characters with spaces among them, programs that print    *)
(* text, escape sequences or both; files of two parts and of one and a half *)
(* to upload, one with bytes that look like commands to the monitor;        *)
(* programs that just fit and just do not; a field of six cells.            *)
(***************************************************************************)
EXTENDS Console

CONSTANTS BlockBytes, CmdPolls, ResetTries, ReadyTries, TokenPolls, CsdPolls,
          Blocks, Contents, Kinds, Delays,                               \* SdCard
          FsResults,                                                     \* Bios
          Files, FlashBase, FlashSize, BLOCK, UPLOADSIZE, CHUNKSIZE,
          LOADSIZE, BusyPolls,                                           \* BootRom
          RAMPAGES, BIOS_PAGES, STAGE2_PAGE, SHELL_STACK, Sizes,         \* Boot
          MAXX, MAXY                                                     \* ChainReaction

VARIABLES active, pc, result, ram,
          card, op, usable, stage, count, retries, response, buf,
          isr, cause, epc, request, stdout, served,
          rom, flash, up, down, host,
          runs, led, fh, files, whole,
          f, ki, player, playerplayed, phase, winner, pass

\* No result of the file service is what the stack held.
ASSUME BiosAssumption == "unset" \notin FsResults

\* The memory is laid out as in the linker scripts: the BIOS at its end, the
\* shell below it, and do_run leaves the last 16 pages alone, in which they
\* and the shell's stack have their place.
ASSUME LayoutAssumption ==
    /\ RAMPAGES \in Nat /\ BIOS_PAGES \in Nat /\ STAGE2_PAGE \in Nat /\ SHELL_STACK \in Nat
    /\ BIOS_PAGES + 1 + SHELL_STACK <= 16 /\ 16 <= RAMPAGES
    /\ STAGE2_PAGE < RAMPAGES - BIOS_PAGES
    /\ Sizes \subseteq Nat

\* A block is BlockBytes bytes, and the polls are numbers.
ASSUME CardAssumption ==
    /\ BlockBytes \in Nat \ {0} /\ Contents \subseteq [1 .. BlockBytes -> 0 .. 255]
    /\ Delays \subseteq Nat
    /\ CmdPolls \in Nat /\ TokenPolls \in Nat /\ CsdPolls \in Nat
    /\ ResetTries \in Nat /\ ReadyTries \in Nat

\* A field of two by two cells at least.
ASSUME FieldAssumption == MAXX \in Nat \ {0} /\ MAXY \in Nat \ {0}

\* The image begins with a block of the flash, and its first page and every
\* file fit behind it.
ASSUME UploadAssumption ==
    /\ FlashBase \in Nat /\ FlashSize \in Nat /\ LOADSIZE \in Nat /\ BusyPolls \in Nat
    /\ BLOCK \in Nat \ {0} /\ UPLOADSIZE \in Nat \ {0} /\ CHUNKSIZE \in Nat \ {0}
    /\ FlashBase % BLOCK = 0 /\ FlashBase + LOADSIZE <= FlashSize
    /\ Files \subseteq Seq(0 .. 255) /\ \A file \in Files : FlashBase + Len(file) <= FlashSize

Card == INSTANCE SdCard
Bios == INSTANCE Bios WITH bios_stdout_device <- stdout
Monitor == INSTANCE BootRom
          WITH Tasks <- {"upload", "program"}, Pauses <- "between"
Stages == INSTANCE Boot
Game == INSTANCE ChainReaction WITH Machine <- BOOLEAN

\* The line fits the screen, and programs finish their escape sequences.
ASSUME ShellAssumption == ConsoleAssumption

\* The variables of each part but those several of them name.
cardVars   == <<card, op, usable, stage, count, retries, response, buf>>
biosVars   == <<isr, cause, epc, request, stdout, served>>
romVars    == <<rom, flash, up, down, host>>
bootVars   == <<runs, led, fh, files, whole>>
gameVars   == <<f, ki, player, playerplayed, phase, winner, pass>>
vars == <<active, pc, result, ram, cardVars, shell_vars, biosVars,
          romVars, bootVars, gameVars>>

\* A part at rest.
CardRests  == /\ card = 0 /\ op = 0 /\ usable = 0 /\ stage = 0 /\ count = 0 /\ retries = 0
              /\ response = 0 /\ buf = 0
BiosRests  == isr = 0 /\ cause = 0 /\ epc = 0 /\ request = 0 /\ stdout = 0 /\ served = 0
RomRests   == rom = 0 /\ flash = 0 /\ up = 0 /\ down = 0 /\ host = 0
BootRests  == runs = 0 /\ led = 0 /\ fh = 0 /\ files = 0 /\ whole = 0
GameRests  == /\ f = 0 /\ ki = 0 /\ player = 0 /\ playerplayed = 0 /\ phase = 0
              /\ winner = 0 /\ pass = 0

Init ==
    /\ ConsoleInit
    /\ \/ /\ active = "card" /\ Card!Init /\ ram = 0
          /\ BiosRests /\ RomRests /\ BootRests /\ GameRests
       \/ /\ active = "shell" /\ pc = 0 /\ result = 0 /\ ram = 0
          /\ CardRests /\ BiosRests /\ RomRests /\ BootRests /\ GameRests
       \/ /\ active = "bios" /\ Bios!Init /\ ram = 0
          /\ CardRests /\ RomRests /\ BootRests /\ GameRests
       \/ /\ active = "monitor" /\ Monitor!Init /\ pc = 0 /\ result = 0
          /\ CardRests /\ BiosRests /\ BootRests /\ GameRests
       \/ /\ active = "stages" /\ Stages!Init /\ pc = 0 /\ result = 0
          /\ CardRests /\ BiosRests /\ RomRests /\ GameRests
       \/ /\ active = "game" /\ Game!Init /\ pc = 0 /\ result = 0
          /\ ram = 0 /\ CardRests /\ BiosRests /\ RomRests /\ BootRests

\* A step of one part leaves the others alone.
Alone(a) ==
    /\ active = a /\ UNCHANGED active
    /\ a # "card"    => UNCHANGED cardVars
    /\ a # "shell"   => UNCHANGED shell_vars
    /\ a # "bios"    => UNCHANGED biosVars
    /\ a # "monitor" => UNCHANGED romVars
    /\ a # "stages"  => UNCHANGED bootVars
    /\ a # "game"    => UNCHANGED gameVars
    /\ a \notin {"card", "bios"}      => UNCHANGED <<pc, result>>
    /\ a \notin {"monitor", "stages"} => UNCHANGED ram

Next ==
    \/ Alone("card")    /\ Card!Next
    \/ Alone("shell")   /\ ConsoleNext
    \/ Alone("bios")    /\ Bios!Next
    \/ Alone("monitor") /\ Monitor!Next
    \/ Alone("stages")  /\ Stages!Next
    \/ Alone("game")    /\ Game!Next

\* The fairness of each part: its processor goes on with what it does.
Spec ==
    /\ Init /\ [][Next]_vars
    /\ WF_<<pc, result, cardVars>>(active = "card" /\ Card!Driver)
    /\ WF_<<ram, romVars>>(active = "monitor" /\ Monitor!Monitor)
    /\ WF_<<ram, romVars>>(active = "monitor" /\ Monitor!Uploader)
    /\ WF_gameVars(active = "game" /\ (Game!React \/ Game!Again \/ Game!Done))
-----------------------------------------------------------------------------
\* A block read is the card's block, a block written is on the card when the
\* call says OK and unchanged when it reports an error: see SdCard.
ImplementsBlockDevice ==
    /\ active = "card" => Card!Promised!Init
    /\ [](active = "card" => Card!TypeOK)
    /\ [][active = "card" => [Card!Promised!Next]_(Card!Promised!vars)]_vars

\* A request is served once, whatever interrupts come in between.
ServedOnce == active = "bios" => Bios!ServedOnce

\* What the monitor is told to call is the whole file, and what the uploader
\* could read of one it has left in the flash, or says otherwise: see BootRom.
UploadKept == active = "monitor" => Monitor!RunsWhatWasLoaded /\ Monitor!FlashHoldsFile

\* Every stage, the shell and the BIOS below them stay whole in memory, and a
\* program starts with all of its file: see Boot.
StartsWhole ==
    /\ [](active = "stages" => Stages!CodeIntact)
    /\ [][active = "stages" /\ runs' = "program" /\ runs # "program" => Stages!Loaded']_vars

\* A turn of the game begins with the field at rest and a move to make, and
\* the winner is the one who has it all.
TurnPossible == active = "game" => Game!TurnPossible /\ Game!WinnerTakesAll

\* Calls of the card driver return, the uploader comes to its end or is left
\* by a board that has given it up, and every chain reaction ends.
ItEnds ==
    /\ active = "card" /\ op # Card!NoOp
         ~> active = "card" /\ (op = Card!NoOp \/ (op.kind = "write" /\ ~card.in))
    /\ active = "monitor" ~> active = "monitor" /\ (host.at = "end" \/ rom.by = "flash")
    /\ active = "game" /\ phase = "react" ~> active = "game" /\ phase # "react"
-----------------------------------------------------------------------------
MCPrompt   == <<36, 32>>
MCOutputs  == {<<97>>, <<27, 91, 50, 74>>, <<27, 91, 51, 49, 109, 97, 27, 91, 72>>}
MCContents == {<<254, 0>>, <<0, 7>>}
MCFiles    == {<<1, 83, 2>>, <<67, 85>>}
=============================================================================
