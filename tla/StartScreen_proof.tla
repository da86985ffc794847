-------------------------- MODULE StartScreen_proof --------------------------
(***************************************************************************)
(* The start screen for every length of the introduction and of a message   *)
(* (two letters at least), and every period of the sequencer.               *)
(***************************************************************************)
EXTENDS StartScreen, TLAPS

LastLetter == INTRO_LETTERS + ALERT_LETTERS

\* Where the three counters and the two addresses stand when the instruction is v: the ROM
\* of the introduction is one letter ahead, the cell two, the message's ROM none.
CountInv ==
    LET v == vgaInstruction
        d == vgaInstructionDone
    IN  /\ v = 0 => /\ d = 0 /\ vga_textAddr = rom_textAddr_de1
                    /\ rom_textAddr_de1 \in 0..1
        /\ v \in 1..INTRO_LETTERS => rom_textAddr_de1 = v + 1
        /\ v > INTRO_LETTERS => rom_textAddr_de1 = INTRO_LETTERS + 1
        /\ v > 0 => vga_textAddr = v + 1 /\ vga_textAddr_de1 = v - 1
        /\ v \in INTRO_LETTERS..(LastLetter - 1) => rom_alertAddr = v - INTRO_LETTERS
        /\ v = LastLetter => rom_alertAddr = 0
        /\ d = v \/ d = v - 1 \/ (v = INTRO_LETTERS + 1 /\ d = LastLetter)

\* The first k cells of the line show the message new, the others the one before it, or
\* nothing.
Showing(k, new) ==
    \E old \in Messages : \A i \in 0..(ALERT_LETTERS - 1) :
        IF i < k THEN screen[INTRO_LETTERS + i] = Alert(new + i)
                 ELSE screen[INTRO_LETTERS + i] \in {Alert(old + i), Blank}

\* What the screen shows, and what the ROM shows while a letter waits to be written.
LetterInv ==
    LET v == vgaInstruction
        d == vgaInstructionDone
    IN  /\ \A c \in 0..(INTRO_LETTERS - 1) :
             screen[c] = IF c < d THEN Intro(c) ELSE Blank
        /\ v <= INTRO_LETTERS =>
             \A i \in 0..(ALERT_LETTERS - 1) : screen[INTRO_LETTERS + i] = Blank
        /\ v \in 1..INTRO_LETTERS /\ d # v => rom_textVal = Intro(v - 1)
        /\ v > INTRO_LETTERS =>
             \E m \in Messages :
                /\ v < LastLetter => m = rom_alertID
                /\ d = v => Showing(v - INTRO_LETTERS, m)
                /\ d # v => /\ Showing(v - INTRO_LETTERS - 1, m)
                            /\ rom_alertVal = Alert(m + v - INTRO_LETTERS - 1)

RomType == rom_textVal \in Letters /\ rom_alertVal \in Letters

ScreenInv == ScreenType /\ RomType /\ CountInv /\ LetterInv

LEMMA MessageIsOne ==
    ASSUME NEW s \in 0..3
    PROVE  Message(s) \in Messages /\ Message(s) \in Nat
  <1>1. CASE s = 0
    BY <1>1, ScreenAssumption DEF ScreenAssumption, Message, Messages
  <1>2. CASE s = 1
    BY <1>2, ScreenAssumption DEF ScreenAssumption, Message, Messages
  <1>3. CASE s \in {2, 3}
    <2>1. Message(s) = Message(2)
      BY <1>3 DEF Message
    <2>2. Message(2) = 2 * ALERT_LETTERS
      BY DEF Message
    <2> QED BY <2>1, <2>2, ScreenAssumption DEF ScreenAssumption, Messages
  <1> QED BY <1>1, <1>2, <1>3

LEMMA MessageIsNat == ASSUME NEW m \in Messages PROVE m \in Nat
  BY MessageIsOne DEF Messages

LEMMA InitScreen == ScreenInit => ScreenInv
  <1> SUFFICES ASSUME ScreenInit PROVE ScreenInv
    OBVIOUS
  <1> USE ScreenAssumption DEF ScreenAssumption, ScreenInit
  <1>1. Blank \in Letters
    BY DEF Blank, Letters
  <1>2. Message(0) = 0
    BY DEF Message
  <1>3. 0 \in Messages
    BY <1>2 DEF Messages
  <1>4. ScreenType
    BY <1>1, <1>3 DEF ScreenType, Cells
  <1>5. RomType
    BY <1>1 DEF RomType
  <1>6. CountInv
    BY DEF CountInv, LastLetter
  <1>7. LetterInv
    BY DEF LetterInv, Cells
  <1> QED BY <1>4, <1>5, <1>6, <1>7 DEF ScreenInv

\* At an edge of the sequencer the last letter has been written.
LEMMA DoneAtEdge == ScreenInv /\ WriterDone => vgaInstructionDone = vgaInstruction
  BY DEF ScreenInv, CountInv, ScreenType, WriterDone, instructionNum

LEMMA IntroCounts ==
    ASSUME ScreenType, CountInv, WriterDone, vgaInstructionDone = vgaInstruction, IntroLetter,
           UNCHANGED vgaInstructionDone
    PROVE  /\ CountInv'
           /\ vgaInstruction' \in 0..LastLetter
           /\ vga_textAddr' \in 0..(LastLetter + 1) /\ vga_textAddr_de1' \in Cells
           /\ rom_textAddr_de1' \in 0..(INTRO_LETTERS + 1)
           /\ rom_alertAddr' \in 0..(ALERT_LETTERS - 1) /\ rom_alertID' \in Messages
  <1> USE ScreenAssumption DEF ScreenAssumption, LastLetter
  <1>1. /\ rom_alertAddr' \in 0..(ALERT_LETTERS - 1)
        /\ rom_alertID' \in Messages
    <2>1. Message(system_state) \in Messages
      BY MessageIsOne DEF ScreenType
    <2> QED BY <2>1 DEF ScreenType, IntroLetter, alertVars
  <1>2. CASE vgaInstruction = 0
    BY <1>1, <1>2 DEF ScreenType, CountInv, IntroLetter, Cells, alertVars
  <1>3. CASE vgaInstruction # 0
    <2>1. /\ vgaInstruction \in 1..(INTRO_LETTERS - 1)
          /\ vgaInstruction' = vgaInstruction + 1
          /\ rom_textAddr_de1' = vgaInstruction + 2
          /\ vga_textAddr' = vgaInstruction + 2
          /\ vga_textAddr_de1' = vgaInstruction
      BY <1>3 DEF ScreenType, CountInv, IntroLetter
    <2>2. vgaInstruction = INTRO_LETTERS - 1 => rom_alertAddr' = 0
      BY DEF IntroLetter
    <2> QED BY <1>1, <2>1, <2>2 DEF ScreenType, CountInv, Cells
  <1> QED BY <1>2, <1>3

LEMMA AlertCounts ==
    ASSUME ScreenType, CountInv, vgaInstructionDone = vgaInstruction,
           AlertLetter \/ FirstLetterAgain, UNCHANGED vgaInstructionDone
    PROVE  /\ CountInv'
           /\ vgaInstruction' \in 0..LastLetter
           /\ vga_textAddr' \in 0..(LastLetter + 1) /\ vga_textAddr_de1' \in Cells
           /\ rom_textAddr_de1' \in 0..(INTRO_LETTERS + 1)
           /\ rom_alertAddr' \in 0..(ALERT_LETTERS - 1) /\ rom_alertID' \in Messages
  <1> USE ScreenAssumption DEF ScreenAssumption, LastLetter
  <1>1. CASE AlertLetter
    <2>1. Message(system_state) \in Messages
      BY MessageIsOne DEF ScreenType
    <2>2. /\ rom_alertAddr' \in 0..(ALERT_LETTERS - 1)
          /\ rom_alertID' \in Messages
      BY <1>1, <2>1 DEF ScreenType, CountInv, AlertLetter, InAlert
    <2>3. CountInv'
      BY <1>1 DEF ScreenType, CountInv, AlertLetter, InAlert, introVars
    <2> QED BY <1>1, <2>2, <2>3 DEF ScreenType, CountInv, AlertLetter, InAlert, Cells, introVars
  <1>2. CASE FirstLetterAgain
    BY <1>2 DEF ScreenType, CountInv, FirstLetterAgain, Cells, introVars
  <1> QED BY <1>1, <1>2

\* A new letter is asked for, and its ROM shows it; the screen is as it was.
LEMMA EdgeLetters ==
    ASSUME ScreenInv, vgaInstructionDone = vgaInstruction, Sequence,
           rom_textVal' = Intro(rom_textAddr), rom_alertVal' = Alert(rom_alertAddr + rom_alertID),
           UNCHANGED <<vgaInstructionDone, screen>>
    PROVE  LetterInv'
  <1> USE ScreenAssumption DEF ScreenAssumption, LastLetter
  <1>1. ScreenType /\ CountInv /\ LetterInv
    BY DEF ScreenInv
  <1>2. \A c \in 0..(INTRO_LETTERS - 1) :
          screen'[c] = IF c < vgaInstructionDone' THEN Intro(c) ELSE Blank
    BY <1>1 DEF LetterInv
  <1>3. CASE IntroLetter
    <2>1. /\ vgaInstruction' \in 0..INTRO_LETTERS
          /\ vgaInstruction' \in {vgaInstruction, vgaInstruction + 1}
      BY <1>1, <1>3 DEF IntroLetter, ScreenType
    <2>2. \A i \in 0..(ALERT_LETTERS - 1) : screen'[INTRO_LETTERS + i] = Blank
      BY <1>1, <1>3 DEF LetterInv, IntroLetter, ScreenType
    <2>3. vgaInstruction' # vgaInstruction => rom_textVal' = Intro(vgaInstruction' - 1)
      <3> SUFFICES ASSUME vgaInstruction' # vgaInstruction
                   PROVE  rom_textVal' = Intro(vgaInstruction' - 1)
        OBVIOUS
      <3>1. rom_textAddr_de1 > 0 /\ vgaInstruction' = vgaInstruction + 1
        BY <1>3 DEF IntroLetter
      <3>2. rom_textAddr_de1 = vgaInstruction + 1
        BY <1>1, <1>3, <3>1 DEF CountInv, ScreenType, IntroLetter
      <3>3. rom_textAddr = vgaInstruction
        BY <1>1, <3>1, <3>2 DEF rom_textAddr, ScreenType
      <3>4. vgaInstruction' - 1 = vgaInstruction
        BY <1>1, <3>1 DEF ScreenType
      <3> QED BY <3>3, <3>4
    <2>4. vgaInstructionDone' = vgaInstruction
      OBVIOUS
    <2>5. ~(vgaInstruction' > INTRO_LETTERS)
      BY <2>1
    <2> QED BY <1>2, <2>2, <2>3, <2>4, <2>5 DEF LetterInv
  <1>4. CASE AlertLetter
    <2>m. PICK m \in Messages : m = rom_alertID
      BY <1>1 DEF ScreenType
    <2>1. /\ m = rom_alertID
          /\ vgaInstruction \in INTRO_LETTERS..(LastLetter - 1)
          /\ vgaInstruction' = vgaInstruction + 1
          /\ vgaInstructionDone' = vgaInstruction
          /\ vgaInstruction' < LastLetter => m = rom_alertID'
      BY <1>1, <1>4, <2>m DEF ScreenType, AlertLetter, InAlert
    <2>2. m \in Nat
      BY MessageIsNat
    <2>3. rom_alertVal' = Alert(m + vgaInstruction' - INTRO_LETTERS - 1)
      <3>1. rom_alertAddr = vgaInstruction - INTRO_LETTERS
        BY <1>1, <2>1 DEF CountInv
      <3>2. rom_alertAddr + m = m + vgaInstruction' - INTRO_LETTERS - 1
        BY <2>1, <2>2, <3>1
      <3> QED BY <2>1, <3>2
    <2>4. Showing(vgaInstruction - INTRO_LETTERS, m)
      <3>1. CASE vgaInstruction = INTRO_LETTERS
        <4>1. \A i \in 0..(ALERT_LETTERS - 1) : screen[INTRO_LETTERS + i] = Blank
          BY <1>1, <3>1 DEF LetterInv
        <4> QED BY <2>1, <3>1, <4>1 DEF Showing
      <3>2. CASE vgaInstruction # INTRO_LETTERS
        <4>1. vgaInstruction > INTRO_LETTERS /\ vgaInstruction < LastLetter
          BY <2>1, <3>2
        <4> QED BY <1>1, <2>1, <4>1 DEF LetterInv
      <3> QED BY <3>1, <3>2
    <2>5. Showing(vgaInstruction - INTRO_LETTERS - 1, m)'
      <3>1. vgaInstruction' - INTRO_LETTERS - 1 = vgaInstruction - INTRO_LETTERS
        BY <2>1
      <3> QED BY <2>4, <3>1 DEF Showing
    <2> QED BY <1>2, <2>1, <2>3, <2>5 DEF LetterInv
  <1>5. CASE FirstLetterAgain
    <2>1. /\ vgaInstruction = LastLetter
          /\ vgaInstruction' = INTRO_LETTERS + 1 /\ vgaInstructionDone' = LastLetter
          /\ rom_alertID' = rom_alertID /\ rom_alertAddr = 0
          /\ rom_alertID \in Messages
      BY <1>1, <1>5 DEF ScreenType, FirstLetterAgain, CountInv
    <2>2. rom_alertID \in Nat
      BY <2>1, MessageIsNat
    <2>3. PICK old \in Messages : Showing(ALERT_LETTERS, old)
      <3>1. vgaInstruction > INTRO_LETTERS /\ vgaInstruction - INTRO_LETTERS = ALERT_LETTERS
        BY <2>1
      <3> QED BY <1>1, <3>1 DEF LetterInv
    <2>4. \A i \in 0..(ALERT_LETTERS - 1) : screen[INTRO_LETTERS + i] = Alert(old + i)
      BY <2>3 DEF Showing
    <2>5. Showing(0, rom_alertID)'
      BY <2>4 DEF Showing
    <2>6. rom_alertVal' = Alert(rom_alertID' + vgaInstruction' - INTRO_LETTERS - 1)
      <3>1. rom_alertAddr + rom_alertID = rom_alertID' + vgaInstruction' - INTRO_LETTERS - 1
        BY <2>1, <2>2
      <3> QED BY <3>1
    <2>7. vgaInstruction' - INTRO_LETTERS - 1 = 0
      BY <2>1
    <2> QED BY <1>2, <2>1, <2>5, <2>6, <2>7 DEF LetterInv
  <1> QED BY <1>3, <1>4, <1>5 DEF Sequence

LEMMA EdgeScreen == ScreenInv /\ CpuEdge => ScreenInv'
  <1> SUFFICES ASSUME ScreenInv, CpuEdge PROVE ScreenInv'
    OBVIOUS
  <1> USE ScreenAssumption DEF ScreenAssumption
  <1>1. ScreenType /\ CountInv /\ LetterInv
    BY DEF ScreenInv
  <1>2. vgaInstructionDone = vgaInstruction
    BY DoneAtEdge DEF CpuEdge
  <1>3. RomType'
    <2>1. rom_textAddr \in Nat
      BY <1>1 DEF rom_textAddr, ScreenType
    <2>2. rom_alertAddr + rom_alertID \in Nat
      <3>1. rom_alertID \in Nat
        BY <1>1, MessageIsNat DEF ScreenType
      <3> QED BY <1>1, <3>1 DEF ScreenType
    <2> QED BY <2>1, <2>2 DEF CpuEdge, RomType, Intro, Alert, Letters
  <1>4. /\ system_state' \in 0..3 /\ sys_Count' \in 0..(Period - 1)
        /\ vgaInstructionDone' \in 0..LastLetter /\ screen' \in [Cells -> Letters]
    BY <1>1 DEF ScreenType, CpuEdge, LastLetter
  <1>5. CASE Sequence
    <2>1. LetterInv'
      BY <1>2, <1>5, EdgeLetters DEF CpuEdge
    <2>2. CASE IntroLetter
      BY <1>1, <1>2, <1>3, <1>4, <2>1, <2>2, IntroCounts
         DEF CpuEdge, ScreenInv, ScreenType, LastLetter
    <2>3. CASE AlertLetter \/ FirstLetterAgain
      BY <1>1, <1>2, <1>3, <1>4, <2>1, <2>3, AlertCounts
         DEF CpuEdge, ScreenInv, ScreenType, LastLetter
    <2> QED BY <1>5, <2>2, <2>3 DEF Sequence
  <1>6. CASE UNCHANGED sequencerVars
    <2>1. UNCHANGED <<vgaInstruction, rom_textAddr_de1, rom_alertAddr, rom_alertID,
                      vga_textAddr, vga_textAddr_de1, vgaInstructionDone, screen>>
      BY <1>6 DEF CpuEdge, sequencerVars, introVars, alertVars, addrVars
    <2>2. ScreenType'
      BY <1>1, <1>4, <2>1 DEF ScreenType
    <2>3. CountInv'
      BY <1>1, <2>1 DEF CountInv
    <2>4. LetterInv'
      BY <1>1, <1>2, <2>1 DEF LetterInv, Showing
    <2> QED BY <1>3, <2>2, <2>3, <2>4 DEF ScreenInv
  <1> QED BY <1>5, <1>6 DEF CpuEdge

\* A letter of the message is written: one more cell shows the new one.
LEMMA ShowsOneMore ==
    ASSUME screen \in [Cells -> Letters], NEW m \in Messages, NEW k \in 0..(ALERT_LETTERS - 1),
           Showing(k, m),
           screen' = [screen EXCEPT ![INTRO_LETTERS + k] = Alert(m + k)]
    PROVE  \E old \in Messages : \A i \in 0..(ALERT_LETTERS - 1) :
              IF i < k + 1 THEN screen'[INTRO_LETTERS + i] = Alert(m + i)
                           ELSE screen'[INTRO_LETTERS + i] \in {Alert(old + i), Blank}
  <1> USE ScreenAssumption DEF ScreenAssumption
  <1>1. PICK old \in Messages : \A i \in 0..(ALERT_LETTERS - 1) :
            IF i < k THEN screen[INTRO_LETTERS + i] = Alert(m + i)
                     ELSE screen[INTRO_LETTERS + i] \in {Alert(old + i), Blank}
    BY DEF Showing
  <1>2. ASSUME NEW i \in 0..(ALERT_LETTERS - 1)
        PROVE  IF i < k + 1 THEN screen'[INTRO_LETTERS + i] = Alert(m + i)
                            ELSE screen'[INTRO_LETTERS + i] \in {Alert(old + i), Blank}
    <2>1. INTRO_LETTERS + i \in Cells /\ INTRO_LETTERS + k \in Cells
      BY DEF Cells
    <2>2. CASE i = k
      BY <2>1, <2>2
    <2>3. CASE i # k
      <3>1. INTRO_LETTERS + i # INTRO_LETTERS + k
        BY <2>3
      <3>2. screen'[INTRO_LETTERS + i] = screen[INTRO_LETTERS + i]
        BY <2>1, <3>1
      <3>3. i < k + 1 <=> i < k
        BY <2>3
      <3> QED BY <1>1, <3>2, <3>3
    <2> QED BY <2>2, <2>3
  <1> QED BY <1>2

LEMMA WriterScreen == ScreenInv /\ WriteLetter => ScreenInv'
  <1> SUFFICES ASSUME ScreenInv, WriteLetter PROVE ScreenInv'
    OBVIOUS
  <1> USE ScreenAssumption DEF ScreenAssumption, LastLetter
  <1>1. ScreenType /\ CountInv /\ LetterInv /\ RomType
    BY DEF ScreenInv
  <1>2. /\ vgaInstruction \in 1..LastLetter /\ vgaInstructionDone # vgaInstruction
        /\ vgaInstructionDone' = vgaInstruction
        /\ vga_textAddr_de1 = vgaInstruction - 1
    BY <1>1 DEF WriteLetter, instructionNum, ScreenType, CountInv
  <1>3. UNCHANGED <<system_state, sys_Count, vgaInstruction, rom_textAddr_de1, rom_alertAddr,
                    rom_alertID, vga_textAddr, vga_textAddr_de1, rom_textVal, rom_alertVal>>
    BY DEF WriteLetter, sequencerVars, introVars, alertVars, addrVars, romVars
  <1>4. /\ vga_textAddr_de1 \in Cells /\ screen \in [Cells -> Letters]
        /\ rom_textVal \in Letters /\ rom_alertVal \in Letters
    BY <1>1 DEF ScreenType, RomType
  <1>5. screen' \in [Cells -> Letters]
    BY <1>4 DEF WriteLetter
  <1>6. ScreenType' /\ RomType'
    BY <1>1, <1>2, <1>3, <1>5 DEF ScreenType, RomType
  <1>7. CountInv'
    BY <1>1, <1>2, <1>3 DEF CountInv, ScreenType
  <1>8. LetterInv'
    <2>1. CASE vgaInstruction <= INTRO_LETTERS
      <3>1. /\ vgaInstructionDone = vgaInstruction - 1
            /\ screen' = [screen EXCEPT ![vgaInstruction - 1] = Intro(vgaInstruction - 1)]
        BY <1>1, <1>2, <2>1 DEF CountInv, LetterInv, WriteLetter, ScreenType
      <3>2. ASSUME NEW c \in 0..(INTRO_LETTERS - 1)
            PROVE  screen'[c] = IF c < vgaInstruction THEN Intro(c) ELSE Blank
        <4>1. c \in Cells /\ vgaInstruction - 1 \in Cells
          BY <1>2 DEF Cells
        <4>2. screen[c] = IF c < vgaInstruction - 1 THEN Intro(c) ELSE Blank
          BY <1>1, <3>1 DEF LetterInv
        <4>3. CASE c = vgaInstruction - 1
          BY <1>2, <1>4, <3>1, <4>1, <4>3
        <4>4. CASE c # vgaInstruction - 1
          <5>1. screen'[c] = screen[c]
            BY <1>4, <3>1, <4>1, <4>4
          <5>2. c < vgaInstruction - 1 <=> c < vgaInstruction
            BY <1>2, <4>4
          <5> QED BY <4>2, <5>1, <5>2
        <4> QED BY <4>3, <4>4
      <3>3. ASSUME NEW i \in 0..(ALERT_LETTERS - 1)
            PROVE  screen'[INTRO_LETTERS + i] = Blank
        <4>1. INTRO_LETTERS + i \in Cells /\ INTRO_LETTERS + i # vgaInstruction - 1
          BY <1>2, <2>1 DEF Cells
        <4>2. screen[INTRO_LETTERS + i] = Blank
          BY <1>1, <2>1 DEF LetterInv
        <4> QED BY <1>4, <3>1, <4>1, <4>2
      <3> QED BY <1>2, <1>3, <2>1, <3>2, <3>3 DEF LetterInv
    <2>2. CASE vgaInstruction > INTRO_LETTERS
      <3>1. PICK m \in Messages :
                /\ vgaInstruction < LastLetter => m = rom_alertID
                /\ Showing(vgaInstruction - INTRO_LETTERS - 1, m)
                /\ rom_alertVal = Alert(m + vgaInstruction - INTRO_LETTERS - 1)
        BY <1>1, <1>2, <2>2 DEF LetterInv
      <3>2. PICK k \in 0..(ALERT_LETTERS - 1) : k = vgaInstruction - INTRO_LETTERS - 1
        BY <1>2, <2>2
      <3>3. m \in Nat
        BY MessageIsNat
      <3>4. rom_alertVal = Alert(m + k)
        <4>1. m + vgaInstruction - INTRO_LETTERS - 1 = m + k
          BY <1>2, <3>2, <3>3
        <4> QED BY <3>1, <4>1
      <3>5. screen' = [screen EXCEPT ![INTRO_LETTERS + k] = Alert(m + k)]
        <4>1. vga_textAddr_de1 = INTRO_LETTERS + k /\ ~(vgaInstruction <= INTRO_LETTERS)
          BY <1>2, <2>2, <3>2
        <4> QED BY <3>4, <4>1 DEF WriteLetter
      <3>6. Showing(vgaInstruction - INTRO_LETTERS, m)'
        <4>1. Showing(k, m)
          BY <3>1, <3>2
        <4>2. k + 1 = vgaInstruction' - INTRO_LETTERS
          BY <1>2, <1>3, <3>2
        <4>3. \E old \in Messages : \A i \in 0..(ALERT_LETTERS - 1) :
                IF i < k + 1 THEN screen'[INTRO_LETTERS + i] = Alert(m + i)
                             ELSE screen'[INTRO_LETTERS + i] \in {Alert(old + i), Blank}
          BY <1>4, <3>5, <4>1, ShowsOneMore
        <4> QED BY <4>2, <4>3 DEF Showing
      <3>7. ASSUME NEW c \in 0..(INTRO_LETTERS - 1)
            PROVE  screen'[c] = IF c < vgaInstruction THEN Intro(c) ELSE Blank
        <4>1. c \in Cells /\ INTRO_LETTERS + k \in Cells /\ c # INTRO_LETTERS + k
          BY DEF Cells
        <4>2. c < vgaInstructionDone /\ c < vgaInstruction
          BY <1>1, <1>2, <2>2 DEF CountInv
        <4>3. screen[c] = Intro(c)
          BY <1>1, <4>2 DEF LetterInv
        <4> QED BY <1>4, <3>5, <4>1, <4>2, <4>3
      <3> QED BY <1>2, <1>3, <2>2, <3>1, <3>6, <3>7 DEF LetterInv
    <2> QED BY <1>2, <2>1, <2>2
  <1> QED BY <1>6, <1>7, <1>8 DEF ScreenInv

LEMMA NextScreen == ScreenInv /\ [ScreenNext]_screenVars => ScreenInv'
  <1> SUFFICES ASSUME ScreenInv, [ScreenNext]_screenVars PROVE ScreenInv'
    OBVIOUS
  <1>1. CASE CpuEdge
    BY <1>1, EdgeScreen
  <1>2. CASE WriteLetter
    BY <1>2, WriterScreen
  <1>3. CASE LoaderMoves \/ ScreenReset \/ UNCHANGED screenVars
    <2>1. /\ UNCHANGED <<vgaInstruction, rom_textAddr_de1, rom_alertAddr, rom_alertID,
                         vga_textAddr, vga_textAddr_de1, vgaInstructionDone, rom_textVal,
                         rom_alertVal, screen>>
          /\ system_state' \in 0..3 /\ sys_Count' \in 0..(Period - 1)
      BY <1>3, ScreenAssumption
         DEF ScreenAssumption, LoaderMoves, ScreenReset, screenVars, sequencerVars, introVars,
             alertVars, addrVars, romVars, ScreenInv, ScreenType
    <2>2. ScreenType' /\ RomType' /\ CountInv'
      BY <2>1 DEF ScreenInv, ScreenType, RomType, CountInv
    <2>3. LetterInv'
      BY <2>1 DEF ScreenInv, LetterInv, Showing
    <2> QED BY <2>2, <2>3 DEF ScreenInv
  <1> QED BY <1>1, <1>2, <1>3 DEF ScreenNext

\* The inductive invariant: the counters of the sequencer, the addresses of both ROMs and
\* the writer's answer keep step, and the letter that waits is the one its cell is for.
THEOREM ScreenInvariant == ScreenSpec => []ScreenInv
  BY InitScreen, NextScreen, PTL DEF ScreenSpec

\* The counters and addresses keep to their ranges.
THEOREM ScreenTypeCorrect == ScreenSpec => []ScreenType
  <1>1. ScreenInv => ScreenType
    BY DEF ScreenInv
  <1> QED BY <1>1, ScreenInvariant, PTL

\* What the line of the message shows at any time.
LEMMA LineShows ==
    ASSUME ScreenInv
    PROVE  \E k \in 0..ALERT_LETTERS, new \in Messages : Showing(k, new)
  <1> USE ScreenAssumption DEF ScreenAssumption, LastLetter
  <1>1. ScreenType /\ CountInv /\ LetterInv
    BY DEF ScreenInv
  <1>2. vgaInstruction \in 0..LastLetter
    BY <1>1 DEF ScreenType
  <1>3. CASE vgaInstruction <= INTRO_LETTERS
    <2>1. \A i \in 0..(ALERT_LETTERS - 1) : screen[INTRO_LETTERS + i] = Blank
      BY <1>1, <1>3 DEF LetterInv
    <2>2. PICK m \in Messages : TRUE
      BY <1>1 DEF ScreenType
    <2>3. Showing(0, m)
      BY <2>1 DEF Showing
    <2> QED BY <2>3
  <1>4. CASE vgaInstruction > INTRO_LETTERS
    <2>1. PICK m \in Messages :
              /\ vgaInstructionDone = vgaInstruction => Showing(vgaInstruction - INTRO_LETTERS, m)
              /\ vgaInstructionDone # vgaInstruction => Showing(vgaInstruction - INTRO_LETTERS - 1, m)
      BY <1>1, <1>4 DEF LetterInv
    <2>2. /\ vgaInstruction - INTRO_LETTERS \in 0..ALERT_LETTERS
          /\ vgaInstruction - INTRO_LETTERS - 1 \in 0..ALERT_LETTERS
      BY <1>2, <1>4
    <2> QED BY <2>1, <2>2
  <1> QED BY <1>2, <1>3, <1>4

\* The introduction stands where the writer has been, and each cell of the line shows its own
\* letter of some message.
THEOREM TextStandsInPlace == ScreenSpec => []TextInPlace
  <1>1. ASSUME ScreenInv PROVE TextInPlace
    <2>1. \A c \in 0..(INTRO_LETTERS - 1) :
            screen[c] = IF c < vgaInstructionDone THEN Intro(c) ELSE Blank
      BY <1>1 DEF ScreenInv, LetterInv
    <2>2. PICK k \in 0..ALERT_LETTERS, new \in Messages : Showing(k, new)
      BY <1>1, LineShows
    <2>3. \A i \in 0..(ALERT_LETTERS - 1) :
            screen[INTRO_LETTERS + i] \in {Blank} \cup {Alert(m + i) : m \in Messages}
      BY <2>2 DEF Showing
    <2> QED BY <2>1, <2>3 DEF TextInPlace
  <1> QED BY <1>1, ScreenInvariant, PTL

\* A message is written over the one before it, never among others.
THEOREM MessagesAreNotMixed == ScreenSpec => []OneMessageAtATime
  <1>1. ASSUME ScreenInv PROVE OneMessageAtATime
    <2>1. PICK k \in 0..ALERT_LETTERS, new \in Messages : Showing(k, new)
      BY <1>1, LineShows
    <2> QED BY <2>1 DEF Showing, OneMessageAtATime
  <1> QED BY <1>1, ScreenInvariant, PTL

=============================================================================
