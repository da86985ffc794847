------------------------------ MODULE Channel1 ------------------------------
(***************************************************************************)
(* Channel 1 as a whole: the HPS main loop, the bridge, the FPGA's loader   *)
(* and player, and the sound requests of the running game.                  *)
(***************************************************************************)
EXTENDS HpsMain, Filer1

CONSTANTS
    Prompt,       \* the FPGA serves a word before the HPS's next bridge access
    MaxStarts,    \* bound: times the HPS program is started
    MaxResets,    \* bound: times the board's reset key is pressed
    MaxOuts       \* bound: times the game changes its sound bits, and resets, together

ASSUME Channel1Assumption ==
    /\ Prompt \in BOOLEAN
    /\ MaxStarts \in Nat /\ MaxResets \in Nat /\ MaxOuts \in Nat

\* Each image fits rom_addr, and the four together the ROM (4 x 2048 of 8192 bytes).
ASSUME ImagesFit ==
    /\ \A f \in RomFiles : RomSize[f] <= AddrSpan
    /\ RomSize[1] + RomSize[2] + RomSize[3] + RomSize[4] <= RomSpan

VARIABLES
    starts, resets, outs,
    announced     \* history: the start of the HPS program was taken after the last reset

countVars == <<starts, resets, outs, announced>>
channel1Vars == <<bridgeVars, hpsVars, filer1Vars, soundVars, countVars>>

Channel1Init ==
    /\ BridgeInit /\ HpsInit /\ SoundInit /\ Filer1Init
    /\ starts = 0 /\ resets = 0 /\ outs = 0 /\ announced = FALSE

\* The bridge runs from clockCPU itself, so that an access of the HPS takes several of
\* its cycles and a word two; nothing in the code waits for it (line 602 says so).
Settled == Prompt => fifo0 = <<>> /\ ~filer_data_ready

Hps ==
    /\ Settled
    /\ HpsStep
    /\ UNCHANGED <<filer1Vars, soundVars, countVars>>

\* The program is stopped at any point, by a signal or by itself, and started again.
Start ==
    /\ starts < MaxStarts
    /\ StartProcess
    /\ starts' = starts + 1
    /\ UNCHANGED <<filer1Vars, soundVars, resets, outs, announced>>

Mount == MountCard /\ UNCHANGED <<filer1Vars, soundVars, countVars>>

Fpga ==
    /\ Filer1Cycle
    /\ announced' = (announced \/ (filer_cmd = 1 /\ filer_data_ready /\ fifo0 = <<>>))
    /\ UNCHANGED <<hpsVars, soundVars, starts, resets, outs>>

Play ==
    /\ PlaySample
    /\ UNCHANGED <<bridgeVars, hpsVars, wordVars, system_state, loadVars, romVars, rom,
                   request_for_audio, headerVars, streamVars, sound1_reqId_sync, soundVars,
                   countVars>>

Sound ==
    /\ TakeBits
    /\ UNCHANGED <<bridgeVars, hpsVars, filer1Vars, countVars>>

\* The CPU runs only when the game is ready.
Game ==
    /\ system_state = 3
    /\ outs + resets < MaxOuts
    /\ \E bits \in SUBSET SoundBits : OutPort3(bits)
    /\ outs' = outs + 1
    /\ UNCHANGED <<bridgeVars, hpsVars, filer1Vars, starts, resets, announced>>

\* rst_n: every block's reset branch at once.  What a branch does not name keeps its value.
Reset ==
    /\ resets < MaxResets /\ outs + resets < MaxOuts
    /\ resets' = resets + 1
    /\ announced' = FALSE
    /\ filer_cmd' = 0 /\ fifo0' = <<>> /\ filer_data' = Blank
    /\ FILE_SIZE' = 0 /\ ROM_SIZE_OFFSET' = 0 /\ file_num' = 1
    /\ fpga_cmd' = 0
    /\ cpu_rom_save1' = FALSE
    /\ system_state' = 0
    /\ sound1_reqId' = 0 /\ sound1_reqId_sync' = 0
    /\ request_for_audio' = FALSE /\ AUDIO_wrreq' = FALSE
    /\ filer_delayed' = FALSE
    /\ UNCHANGED <<fpga_data, hpsVars, filer_data_ready, filer_data_delayed, rom_addr,
                   cpu_rom_wdata1, cpu_rom_waddr1, rom, headerVars, AUDIO_data_size,
                   AUDIO_count, AUDIO_data, samples, cpu_sound1_bits, sound1_prev,
                   sound1_wav, sound1_loop, starts, outs>>

Channel1Next == Hps \/ Start \/ Mount \/ Fpga \/ Play \/ Sound \/ Game \/ Reset

Channel1Spec == Channel1Init /\ [][Channel1Next]_channel1Vars

\* The clocks run, the HPS program runs when started, the audio clock drains the queue.
Channel1Fair ==
    /\ Channel1Spec
    /\ WF_channel1Vars(Hps) /\ WF_channel1Vars(Fpga)
    /\ WF_channel1Vars(Play) /\ WF_channel1Vars(Sound)

----------------------------------------------------------------------------

TypeOK == BridgeType /\ HpsType /\ SoundType /\ Filer1Type

\* The images lie one behind the other.
Base(f) ==
    << 0, RomSize[1], RomSize[1] + RomSize[2], RomSize[1] + RomSize[2] + RomSize[3] >>[f]

Cells == {c \in RomFiles \X (0..(AddrSpan - 1)) : c[2] < RomSize[c[1]]}

\* "3 => ready to play" (SPACE_INVADERS.v:115): when the loader says so, the ROM holds the
\* four images one behind the other.
ReadyToPlay ==
    system_state = 3 => \A c \in Cells : rom[Base(c[1]) + c[2]] = Byte(c[1], c[2])

\* It is so once the HPS program has announced itself to a loader that was not reset since,
\* whatever was loaded, played, interrupted or reset before.
RomLayout == announced => ReadyToPlay

\* At no time does a ROM cell hold a byte of another place: not after a restart in the
\* middle of a load, nor of a sound.  Only a reset without a restart may do that.
NoMisplacedByte ==
    resets = 0 => \A c \in Cells : rom[Base(c[1]) + c[2]] \in {Blank, Byte(c[1], c[2])}

\* Once started, the HPS program never meets a file number it does not know, which would
\* end it ("!!! ALERT"): fpga_cmd and fpga_data are read apart, yet they match.
NoAlert == starts > 0 => pc # "exit"

\* While the board was not reset, every sample in the queue to the speaker is a byte of a sound
\* file: none of a program image, and no number.
OnlySoundsPlayed ==
    resets = 0 => \A i \in DOMAIN samples : samples[i].file \in WavFiles

\* Unless another sound is already waiting, the bytes being played are those of the
\* sound last asked for.
RightSound ==
    Streaming /\ ~sound1_changed /\ filer_data_ready /\ fifo0 = <<>>
        => filer_data.file = sound1_wav

\* The one thing that may keep the game from (re)starting: a program announced while the
\* ufo's sound repeats, which the stopped CPU can no longer end.
Repeating == request_for_audio /\ sound1_loop /\ system_state # 3

\* The board was reset and the program has not announced itself since: the two may be at
\* odds until it is started again.
AtOdds == resets > 0 /\ ~announced

\* A program started with the card in place loads the game, unless the board is reset
\* under it.
LoadCompletes ==
    (mounted /\ starts = MaxStarts /\ (resets = 0 \/ announced))
        ~> (system_state = 3 \/ Repeating \/ AtOdds)

\* A requested sound is taken, whatever is being played.
SoundTaken == sound1_changed ~> (~sound1_changed \/ Repeating \/ AtOdds)

\* A sound that does not repeat comes to its end, unless another interrupts it.
SoundEnds ==
    (request_for_audio /\ ~sound1_loop)
        ~> (~request_for_audio \/ sound1_loop \/ sound1_changed \/ AtOdds)

=============================================================================
