----------------------------- MODULE StartScreen ------------------------------
(***************************************************************************)
(* The start screen: the text sequencer (SPACE_INVADERS.v, 524-623, once    *)
(* every Period edges of clockCPU), the two ROMs it reads, which answer an  *)
(* edge late, and the writer of vgaHdmi.v (263-274), which runs at six      *)
(* times that clock and writes a letter when the number of the instruction  *)
(* changes.  First the letters of the introduction are written, once, then  *)
(* the letters of a message, again and again.                               *)
(*                                                                          *)
(* A letter is its ROM and its address there.  system_state is the loader's *)
(* (Filer1) and changes here as it likes.                                   *)
(***************************************************************************)
EXTENDS Integers

CONSTANTS
    INTRO_LETTERS,      \* 160
    ALERT_LETTERS,      \* 40, which is also the distance of two messages in their ROM
    Period              \* 50000

ASSUME ScreenAssumption ==
    /\ INTRO_LETTERS \in Nat \ {0}
    /\ ALERT_LETTERS \in Nat \ {0, 1}
    /\ Period \in Nat \ {0}

VARIABLES
    system_state,
    sys_Count,
    vgaInstruction, vgaInstructionDone,     \* 0: none yet; the writer's answer
    vga_textAddr, vga_textAddr_de1,         \* the next cell, and the instruction's
    rom_textAddr_de1, rom_alertAddr, rom_alertID,
    rom_textVal, rom_alertVal,              \* what the ROMs show
    screen                                  \* player_ram2, by cell

introVars == <<rom_textAddr_de1>>
alertVars == <<rom_alertAddr, rom_alertID>>
addrVars == <<vga_textAddr, vga_textAddr_de1>>
sequencerVars == <<vgaInstruction, introVars, alertVars, addrVars>>
romVars == <<rom_textVal, rom_alertVal>>
screenVars == <<system_state, sys_Count, sequencerVars, vgaInstructionDone, romVars, screen>>

Cells == 0..(INTRO_LETTERS + ALERT_LETTERS - 1)
Intro(a) == <<"intro", a>>
Alert(a) == <<"alert", a>>
Blank == <<"blank", 0>>
Letters == {"blank", "intro", "alert"} \X Nat

\* "Connect disc drive", "Please insert disc", and no message.
Message(state) ==
    CASE state = 0 -> 0
      [] state = 1 -> ALERT_LETTERS
      [] OTHER     -> 2 * ALERT_LETTERS
Messages == {Message(s) : s \in 0..2}

ScreenInit ==
    /\ system_state = 0 /\ sys_Count = 0
    /\ vgaInstruction = 0 /\ vgaInstructionDone = 0
    /\ vga_textAddr = 0 /\ vga_textAddr_de1 = 0
    /\ rom_textAddr_de1 = 0 /\ rom_alertAddr = 0 /\ rom_alertID = 0
    /\ rom_textVal = Blank /\ rom_alertVal = Blank
    /\ screen = [c \in Cells |-> Blank]

----------------------------------------------------------------------------
(* The sequencer.  instructionNum is what the writer is shown. *)

instructionNum == IF vgaInstruction > 0 THEN vgaInstruction ELSE vgaInstructionDone
rom_textAddr == IF rom_textAddr_de1 = 0 THEN 0 ELSE rom_textAddr_de1 - 1

\* Mutant of IntroLetter: the cell is one further, without the delay of the ROM.
IntroLetterFurther ==
    /\ vgaInstruction < INTRO_LETTERS
    /\ vgaInstruction = 0 \/ vgaInstruction = vgaInstructionDone
    /\ \/ /\ rom_textAddr_de1 > 0
          /\ vga_textAddr_de1' = vga_textAddr
          /\ vgaInstruction' = vgaInstruction + 1
       \/ rom_textAddr_de1 = 0 /\ UNCHANGED <<vga_textAddr_de1, vgaInstruction>>
    /\ rom_textAddr_de1' = rom_textAddr_de1 + 1
    /\ vga_textAddr' = vga_textAddr + 1
    /\ \/ /\ vgaInstruction = INTRO_LETTERS - 1
          /\ rom_alertAddr' = 0 /\ rom_alertID' = Message(system_state)
       \/ vgaInstruction # INTRO_LETTERS - 1 /\ UNCHANGED alertVars

\* The first time the ROM does not show a letter yet.
IntroLetter ==
    /\ vgaInstruction < INTRO_LETTERS
    /\ vgaInstruction = 0 \/ vgaInstruction = vgaInstructionDone
    /\ \/ /\ rom_textAddr_de1 > 0
          /\ vga_textAddr_de1' = vga_textAddr - 1
          /\ vgaInstruction' = vgaInstruction + 1
       \/ rom_textAddr_de1 = 0 /\ UNCHANGED <<vga_textAddr_de1, vgaInstruction>>
    /\ rom_textAddr_de1' = rom_textAddr_de1 + 1
    /\ vga_textAddr' = vga_textAddr + 1
    /\ \/ /\ vgaInstruction = INTRO_LETTERS - 1
          /\ rom_alertAddr' = 0 /\ rom_alertID' = Message(system_state)
       \/ vgaInstruction # INTRO_LETTERS - 1 /\ UNCHANGED alertVars

InAlert == vgaInstruction \in INTRO_LETTERS..(INTRO_LETTERS + ALERT_LETTERS - 1)

\* Mutant of AlertLetter: the address goes on after the last letter.
AlertLetterOn ==
    /\ InAlert /\ vgaInstruction = vgaInstructionDone
    /\ vga_textAddr_de1' = vga_textAddr - 1
    /\ vgaInstruction' = vgaInstruction + 1
    /\ vga_textAddr' = vga_textAddr + 1
    /\ rom_alertAddr' = rom_alertAddr + 1 /\ rom_alertID' = Message(system_state)
    /\ UNCHANGED introVars

\* Mutant of AlertLetter: the message is chosen for every letter.
AlertLetterOfNow ==
    /\ InAlert /\ vgaInstruction = vgaInstructionDone
    /\ vga_textAddr_de1' = vga_textAddr - 1
    /\ vgaInstruction' = vgaInstruction + 1
    /\ vga_textAddr' = vga_textAddr + 1
    /\ rom_alertID' = Message(system_state)
    /\ rom_alertAddr' = IF vgaInstruction = INTRO_LETTERS + ALERT_LETTERS - 1
                        THEN 0 ELSE rom_alertAddr + 1
    /\ UNCHANGED introVars

AlertLetter ==
    /\ InAlert /\ vgaInstruction = vgaInstructionDone
    /\ vga_textAddr_de1' = vga_textAddr - 1
    /\ vgaInstruction' = vgaInstruction + 1
    /\ vga_textAddr' = vga_textAddr + 1
    /\ \/ /\ vgaInstruction = INTRO_LETTERS + ALERT_LETTERS - 1
          /\ rom_alertAddr' = 0 /\ rom_alertID' = Message(system_state)
       \/ /\ vgaInstruction # INTRO_LETTERS + ALERT_LETTERS - 1
          /\ rom_alertAddr' = rom_alertAddr + 1 /\ UNCHANGED rom_alertID
    /\ UNCHANGED introVars

\* Mutant of FirstLetterAgain: the message stays as it was written first.
FirstLetterOnce == FALSE

\* After the last letter of the message comes its first.
FirstLetterAgain ==
    /\ vgaInstruction >= INTRO_LETTERS + ALERT_LETTERS /\ vgaInstruction = vgaInstructionDone
    /\ vgaInstruction' = INTRO_LETTERS + 1
    /\ rom_alertAddr' = rom_alertAddr + 1
    /\ vga_textAddr' = INTRO_LETTERS + 2
    /\ vga_textAddr_de1' = INTRO_LETTERS
    /\ UNCHANGED <<introVars, rom_alertID>>

Sequence == IntroLetter \/ AlertLetter \/ FirstLetterAgain

\* The writer's clock has gone by between two edges of clockCPU, which is made from it, so
\* that the sequencer always finds its instruction done.
WriterDone == instructionNum = vgaInstructionDone

\* An edge of clockCPU: each ROM shows what its address was up to now.
CpuEdge ==
    /\ WriterDone
    /\ rom_textVal' = Intro(rom_textAddr)
    /\ rom_alertVal' = Alert(rom_alertAddr + rom_alertID)
    /\ sys_Count' = IF sys_Count >= Period - 1 THEN 0 ELSE sys_Count + 1
    /\ \/ sys_Count = 0 /\ system_state # 3 /\ Sequence
       \/ (sys_Count # 0 \/ system_state = 3) /\ UNCHANGED sequencerVars
    /\ UNCHANGED <<system_state, vgaInstructionDone, screen>>

\* An edge of clock50 at which the instruction has changed; the RAM takes the letter at
\* the next.
WriteLetter ==
    /\ instructionNum # vgaInstructionDone
    /\ screen' = [screen EXCEPT ![vga_textAddr_de1] =
                    IF vgaInstruction <= INTRO_LETTERS THEN rom_textVal ELSE rom_alertVal]
    /\ vgaInstructionDone' = instructionNum
    /\ UNCHANGED <<system_state, sys_Count, sequencerVars, romVars>>

LoaderMoves ==
    /\ system_state' \in 0..3 \ {system_state}
    /\ UNCHANGED <<sys_Count, sequencerVars, vgaInstructionDone, romVars, screen>>

\* rst_n: the sequencer keeps its place.
ScreenReset ==
    /\ sys_Count' = 0 /\ system_state' = 0
    /\ UNCHANGED <<sequencerVars, vgaInstructionDone, romVars, screen>>

ScreenNext == CpuEdge \/ WriteLetter \/ LoaderMoves \/ ScreenReset
ScreenSpec == ScreenInit /\ [][ScreenNext]_screenVars

\* The clocks run.
ScreenFair == ScreenSpec /\ WF_screenVars(CpuEdge) /\ WF_screenVars(WriteLetter)
----------------------------------------------------------------------------

\* The counters keep to their ranges.
ScreenType ==
    /\ system_state \in 0..3 /\ sys_Count \in 0..(Period - 1)
    /\ vgaInstruction \in 0..(INTRO_LETTERS + ALERT_LETTERS)
    /\ vgaInstructionDone \in 0..(INTRO_LETTERS + ALERT_LETTERS)
    /\ vga_textAddr \in 0..(INTRO_LETTERS + ALERT_LETTERS + 1)
    /\ vga_textAddr_de1 \in Cells
    /\ rom_textAddr_de1 \in 0..(INTRO_LETTERS + 1)
    /\ rom_alertAddr \in 0..(ALERT_LETTERS - 1) /\ rom_alertID \in Messages
    /\ screen \in [Cells -> Letters]

\* Counting in three places, with ROMs that answer late, and whenever the sequencer is
\* stopped by the game or by a reset: the introduction stands where the writer has been,
\* letter by letter, and a cell of the message shows its own letter of some message.
TextInPlace ==
    /\ \A c \in 0..(INTRO_LETTERS - 1) :
         screen[c] = IF c < vgaInstructionDone THEN Intro(c) ELSE Blank
    /\ \A i \in 0..(ALERT_LETTERS - 1) :
         screen[INTRO_LETTERS + i] \in {Blank} \cup {Alert(m + i) : m \in Messages}

\* A message is written over the one before it, not among others: up to some cell the line
\* shows the new one, from there on the one before, or nothing.
OneMessageAtATime ==
    \E k \in 0..ALERT_LETTERS, new \in Messages, old \in Messages :
        \A i \in 0..(ALERT_LETTERS - 1) :
            IF i < k THEN screen[INTRO_LETTERS + i] = Alert(new + i)
                     ELSE screen[INTRO_LETTERS + i] \in {Alert(old + i), Blank}

\* What the loader waits for comes to be shown, and stays, if the loader goes on waiting.
MessageShown ==
    \A s \in 0..2 :
        <>[](system_state = s) =>
            <>[](\A i \in 0..(ALERT_LETTERS - 1) :
                    screen[INTRO_LETTERS + i] = Alert(Message(s) + i))
=============================================================================
