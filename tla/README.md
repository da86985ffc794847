# Verification of the DE10-Nano Space Invaders

The repository builds the Space Invaders arcade machine on a DE10-Nano board. Half of it is
a program on the board's ARM processor (the *HPS*, `HPS_src/SpaceInvaders_controller.cpp`),
which reads the game's files and the gamepad; the other half is logic in the FPGA
(`FPGA_src/*.v`): an Intel 8080, the loader of its ROM, sound, and HDMI picture. This
directory holds TLA+ models of the parts in which these halves, and the FPGA's clock
domains, have to agree; TLC configurations that check them; and proofs that TLAPS checks.

Contents: 1 the system, 2 the modules, 3 the runs, 4 what the runs found, 5 the proofs,
6 what is left out, 7 the plan.

## 1. The system

### Components

| Component | Where | State | Operations |
|---|---|---|---|
| HPS main loop | `SpaceInvaders_controller.cpp` 351-802 | `opNum`, `hData`, `fCmd`, `fArg1`, `fArg1_cur`, `filenameSel` | announces an operation, reads a request, serves it: count the images, select a file, stream it, wait |
| HPS gamepad thread | 131-176 | the event in hand | reads an event, writes one word |
| HPS thread filer2 | 178-349 | as the main loop | sounds of output port 5, one word per operation |
| HPS start and shutdown | 365-476, 778-801 | `keepRunning`, the mapping | maps the bridge, starts threads, unmaps, joins |
| Bridge | `soc_system`, `SPACE_INVADERS.v` 443-487 | parallel ports, three eight-word queues | write and read of a port, push and pop |
| Loader and player, channel 1 | `SPACE_INVADERS.v` 644-656, 691-998 | `system_state`, `file_num`, sizes, ROM write port, header and sample registers | one branch per operation the HPS announces |
| Sound requests of port 3 | 1090-1148 | `sound1_prev`, `sound1_reqId`, `sound1_wav`, `sound1_loop` | turns a rising bit into a request |
| Player, channel 2 | 1153-1380 | the same for port 5 | the same, other protocol |
| Key block | 1016-1086 | `gamepad_key`, `gamepad_evt_read` | decodes a word of the queue |
| Start screen | 524-623, `vgaHdmi.v` 263-274, `framebuffer.v` | alert number, character position | writes texts character by character |
| CPU | `cpu.v` | registers, `cpu_state`, interrupt flip-flops, shift register | fetch, execute, interrupts, IN and OUT |
| Video handshake | `vgaHdmi.v` 286-385, `cpu.v` 281-324 | request number, address, byte, pixel counter | request a byte, answer it, draw its pixels |
| Renderer timing | `vgaHdmi.v` 148-216, 277-300, `gamebuffer.v` | line and column counters | picture timing, CPU interrupts |
| Audio interface | `AUDIO_IF.v` | volume, bit counters | ramps, mixes, shifts samples out |
| HDMI configuration | `I2C_*.v` | table index, bus state | writes a table over I2C |

The HPS is master of the bridge. It writes an operation to a parallel port (`filer_cmd`)
and a word to a queue (`fifo0`); the FPGA serves each word by the operation the port holds
*at that moment*, and answers by overwriting two other ports, `fpga_cmd` and `fpga_data`,
which the HPS reads one after the other. The CPU talks to the loader through the sound bits
and a pair of counters, and to the renderer through a request number and its copy. The
gamepad thread shares nothing with the main loop but `keepRunning` and the mapping of the
bridge. Thread filer2 talks to the second player in the same way, with less to go wrong: one
word carries operation and data, one register request and argument.

### What is hard, and what must hold

* **Channel 1.** No access of the HPS is atomic with another: the FPGA may change both
  request ports between the read of the first and of the second. Words carry no operation,
  ports carry no sequence number, so both sides only infer that the other has moved on.
  The HPS program may be stopped and started at any point, and the board may be reset while
  the HPS is not. *Must hold:* the ROM holds the four images in their places when the game
  starts; a byte never ends in another's place, nor an image in the speaker; the HPS never
  meets a request that kills it; a load comes to its end; a requested sound is taken, and
  ends, although it may interrupt another and the sample queue may be full.
* **Gamepad.** The block keeps the read request up while the queue's read port still shows
  the word before, and so decodes each word again with the next. *Must hold:* events take
  effect in order, each once; when nothing is on its way the game sees what the pad holds.
* **Video.** Three registers cross from a 25 MHz clock to the CPU's and back, under writes
  of the CPU that stop the answer, and the lines of the picture in which the memory is read
  may be over first. *Must hold:* a pixel is drawn where its byte belongs; a reading that
  reaches the end has drawn all; the reading does not stop.
* **CPU.** Each opcode is a branch of its own in `cpu.v`, with steps of its own through two
  memories that answer a cycle late and one write enable; interrupts arrive from another
  clock, are lost while disabled, and the vector is read three edges after the test.
  *Must hold:* seen between instructions it is a machine that does one instruction, or takes
  one interrupt, at a time; what was begun ends; a write ends soon enough for the renderer.
* **Channel 2.** Nothing tells the thread that a request is new but that it differs from the
  one before; the player holds a sample while its queue is full, and the thread polls
  meanwhile; the program may be stopped, killed and started, and the board reset, with the
  request register left as it is. *Must hold:* a sound that was taken is read whole and in
  order; the samples stand in the queue in that order; a request is taken.
* **Start and shutdown.** A signal clears `keepRunning`; the main thread unmaps the bridge,
  then waits for the gamepad thread, which waits for the pad; nobody waits for filer2. *Must
  hold:* the program ends when it is told to, and ends as it says.
* **Start screen.** A sequencer, two ROMs that answer an edge late, and a writer on a faster
  clock count letters, each by itself; the loader's state changes and resets come in between.
  *Must hold:* each letter stands in its cell; a message is not mixed with two others; the
  message of the state that lasts is shown.
* **Audio interface.** Bits are shifted out of a sample and a volume that are replaced meanwhile; the
  volume rises and falls by steps counted here, from marks counted by the player, over samples
  the queue may hold more than once or keep from the last sound. *Must hold:* a word is of one sample
  and one volume; every sample is sent; the volume does not jump.
* **HDMI configuration.** Walker and sender see each other an edge late, and the sender takes
  the bytes of an entry from a register that may change; bytes are not acknowledged, the
  transmitter interrupts. *Must hold:* an entry that is counted is set; the table ends.

`PROJECT.json` lists under `hazards` each place where such a thing can go wrong, with the
properties that watch it or the reason why none does.

## 2. The modules

| Module | Models | Remarks |
|---|---|---|
| `GameFiles` | the files by number, their sizes and marks | used by both channels |
| `Bridge` | ports and queue of channel 1 | a word is a number or *byte p of file f* |
| `HpsMain` | the main loop | one action per bridge access |
| `Sound1Request` | the port 3 block | one action per branch of its chain |
| `Filer1` | loader and player | one action per branch; one step is one `clockCPU` cycle |
| `Channel1` | composes the four; restart, reset, sample output, sound bits | the specification that is checked |
| `Channel1_proof` | type correctness of it; the exchange of requests, `NoAlert`; the loading of the images, `RomLayout`, `NoMisplacedByte`; what is played, `OnlySoundsPlayed` | TLAPS |
| `Gamepad` | pad, thread, queue, key block | |
| `EventOrder` | abstract: events take effect in order, once | `Gamepad` implements it |
| `Gamepad_proof` | its invariant, buttons and axes, and the safety part of the refinement | TLAPS |
| `VideoSync` | renderer and synchronizer | two clocks, interleaved |
| `BytePort` | abstract: a byte is asked for and answered | `VideoSync` implements it |
| `VideoSync_proof` | its invariants, and the safety part of the refinement | TLAPS |
| `Alu8080` | opcodes by what they do, flags, arithmetic, ports | no variables; used by the two below |
| `Cpu8080` | the CPU, one clock edge per step, memories, interrupts, restarts | one action per state or group of opcodes |
| `Isa8080` | abstract: one instruction or interrupt per step | `Cpu8080` implements it |
| `Cpu8080_proof` | types of the CPU, how long its write enable is up, and the refinement of `Isa8080` | TLAPS |
| `HpsProgram` | the life of the HPS program: main, gamepad thread, signal, unmapping, join | as far as they touch the bridge |
| `HpsFiler2` | thread_filer2 | one action per bridge access |
| `Sound2Request` | the port 5 block | |
| `Filer2` | the player of channel 2 and its queue | one action per branch |
| `Channel2` | composes these four; starts, stops, crashes, resets | the specification that is checked |
| `SoundPlayer` | abstract: sounds are read whole, in order, and stored in order | `Channel2` implements it |
| `Channel2_proof` | types of channel 2, and that it implements `SoundPlayer` | TLAPS |
| `StartScreen` | text sequencer, both ROMs, writer | two clocks |
| `StartScreen_proof` | its invariants | TLAPS |
| `AudioIf` | counters, queue's read port, volume, line | one step is one bit; the player is seen from its queue |
| `AudioIf_proof` | its invariants, and what the volume does | TLAPS |
| `HdmiI2C` | table walker, I2C sender, transmitter | one step is one edge of both |
| `HdmiI2C_proof` | its invariants | TLAPS |
| `MC*` | the constants of the runs | |

### Channel 1

The HPS side has a program counter `pc` whose values are the bridge accesses of the loop
(`op` is line 479, `data` 480, `cmd` 484, `arg` 485 with the branch that follows; `byteOp`,
`byte`, `nextCmd`, `nextArg` the loop of lines 600-661). What the program computes between
two accesses is part of the earlier one. Files are numbers, as on the bus. `fArg1` is
compared as soon as it is read, so only `fArg1_cur` is a variable.

The FPGA side is one synchronous block, so its step `Filer1Cycle` is a whole clock cycle:
it takes a word (`TakeWord`), serves one (`ServeWord`, whose disjuncts are the block's
branches, guarded in the order of its tests), or neither; beside that `StoreSample` and
`StoreRom` model the sample queue and the ROM port, which act at every edge on the values
of the registers *before* it. Data are abstracted to their origin: a byte is the record of
its file and position, so that the ROM's content can be compared with the files and a
sample with the sound it belongs to. `"fmt "` and `"data"` are recognised by position.

`Prompt` (TRUE in all runs) says that the FPGA has served a word before the next access of
the HPS. The bridge is clocked by `clockCPU` itself, an access takes it several cycles, and
a word needs two. The code relies on it and says so ("Pas très propre", line 601); nothing
enforces it. Without it two words written back to back would lose the first, and the HPS would
read requests twice.

`Start` stops the process at any point and begins a new one; `Reset` is the reset branch of
all blocks at once, and leaves alone what the branch does not name, `AUDIO_header_flag`
among it. `announced` is a history variable: the loader has taken operation 1 since the last
reset.

### Gamepad

`gamepad_key` is the set of raised bits. `Encode` and `Decode` are the arithmetic of both
ends (nine bits of value under two of kind), so a value that spills into the kind shows.
`ClockEdge` reads `q` as it was before the edge and pops the queue at the same edge. The
mapping to `EventOrder` is `waiting = InFlight`: the word in the read port if it was not
decoded yet (`unread`), the bridge queue, the thread's word, the kernel's events. `steered` is
history: the directions the pad was pushed in since one of its axes last came to its centre.

### Video

`pixel_counter1` is kept as its two fields, byte and bit. The two tests of the renderer
(ask for a byte, draw a pixel) look at the same old registers in one step, because in the
code they are two `if`s in one clocked block. `scan` keeps of the picture what matters: line
256 clears the counter (`top`), 200 lines read, the others do not, and the
reading lines may end at any moment (`CutShort`). `wren` counts cycles in which the CPU
writes the video memory. The mapping to `BytePort` shows the request as pending from the
change of the number to the copy of it.

### CPU

`cpu` is the record of the registers of the clocked block (`func` is `func_state`, `b2` and
`b3` the upper bytes of `OPCODE`), `port` what it drives towards the memories, `q` and
`rom_rdata` what they show; `Memories` is one edge of both, on the values of `port` before
it. The source spells out each opcode; here opcodes that do the same are one set, and
the registers come from the bit fields of the opcode, which all those cases follow. Sets,
not ranges: `cpu.v` decodes only the opcodes the game uses, `Alu8080` the same ones.
Where the cases of a group differ, the difference is kept: LDAX B reads only
the ROM, CNC looks at its condition in its first step only, SBI compares with eight bits.

`Clock` is one edge while `game_ready` is up and drops out when the CPU has stopped
(`opcode_unk`). `Raise` is the renderer's line 96 or 224. In the cycle after it the registers that read
`int_rst` (the test, `int_rst_prev`, `CPU_pc`) may each see any mixture of old and new bits:
nothing synchronizes it. `Restart` puts in one step what `game_ready` going down, the loading
and `game_ready` going up do to the registers, with or without the board's reset.

`arch`, `due` and `wrenRun` are history: the state a program sees, copied when an instruction ends; the
interrupt under way; and the length of a write. `Isa8080` gives each instruction as one step
on `arch`. Both use `Alu8080` for what is computed, so the refinement compares what the
steps do (order, addresses, memory latency, stack, interrupts, which register and when), not
the sums, and the mapping is that of the history variables, with `fresh` for the cycle after a change of
`int_rst`.

### Channel 2 and the HPS program

`HpsFiler2` is laid out as `HpsMain`: `pc2` names the next access. `HpsProgram` keeps of the
other two threads what decides when they run and whether the bridge is mapped: `mainPc` goes
from `start` (operation 1) through `loop` to `join`; `padPc` is at the blocking read, at the
write to the bridge, or done. An access of any thread while the bridge is not mapped is
`Crash`, and so is the first byte of a file that was never opened (`OpenNothing2`: a thread that
begins and finds the request of the process before it). `thread_filer2`'s alert clears `keepRunning` for
all threads.

`Filer2Cycle` is one cycle of the player as `Filer1Cycle` is of the loader, with the request
as one value. `gameReady` stands for `system_state = 3`, which the first channel decides.
`Reset2` leaves what the reset branch leaves: `fpga2_req`, `AUDIO2_wrreq`, the header
registers. `player` is history: the sound being read, its next sample, the sample read last,
whether the program was heard since the last reset (`on`), and a count of the
starts and resets (`breaks`), at which alone `SoundPlayer` lets a sound be cut short.
The mapping to `SoundPlayer` shows a sample in the queue as often as it was stored.

`Prompt2` is the assumption of `Prompt`, for the second queue. Without it a thread that repeats
operation 7 has its answer to a request overtaken: the player sees the repeated operation behind
the request's first answer and puts the idle request back.

### Start screen

A letter is the number of its place in the text it belongs to; the three messages stand one behind
the other in their ROM, as in the code. `CpuEdge` is one edge of `clockCPU`: both ROMs answer for
the address they had before, and every `Period` edges the sequencer takes a step, from the registers
before the edge. `WriteLetter` is an edge of `clock50` at which the instruction
differs from the last one done. `WriterDone` guards `CpuEdge`: `clockCPU` is made from
`clock50` and six times slower, so between two of its edges the writer has had its own. `LoaderMoves` lets
`system_state` be anything next, which covers the loader, the game and the reset.

### Audio interface

`SerialEdge` is one falling edge of `sclk`, at which all blocks of `AUDIO_IF` act on the registers
before it. The samples are read at the rising edge of `lrclk` (`ReadSample`), the volume moves at the
falling one (`Fade`). A sample is its place in the sound counted from both ends (`at`, `rest`) and its two
marks; a bit on the line is the sample, the volume and the bit it comes from. `left`, `right` and `heard` are
history.

`PlayerCycle` is a cycle of `clockCPU` in the player, reduced to what decides which samples its queue gets. As in
`Filer1`, every cycle first stores `AUDIO_data` once more if the write enable is up and the queue not full
(`StoreSample`, on the values before the edge); then a sample is accepted (`AcceptSample`) or made to wait
(`DelaySample`), with its marks (`Mark`) and the sound cut to a fade wherever another is wanted (`Ends`); or the sound
is taken, begins, repeats, ends, or breaks off because the HPS program is started anew (`BreakOff`). So a
sample is stored once, often, or not at all: an accepted one is in the queue only an edge later, and a copy of the one
before may have taken its place. A sample may come in any cycle, also in two that follow each other, when a word
really takes two: the properties hold all the more. `stored` is history, whether the sample in
`AUDIO_data` was stored; so is `torn` in a sample: since the last mark in the queue before it a sample was lost.

### HDMI configuration

`ControlEdge` is an edge of `mI2C_CTRL_CLK`: a step of the walker and one of the sender, each from the
registers before the edge. Entry *e* stands for its register and its value, so that a byte in the
wrong place shows. The transmitter acknowledges or not (`Heard`, `Missed`), and after a byte it did not
acknowledge hears nothing until the next start. Of the three phases of a bit the state numbers
of the code are kept.

## 3. The runs

| Run | Configuration | Bounds | Shows |
|---|---|---|---|
| `channel1` | `MCChannel1.cfg` | images of 2, 1, 2, 1 bytes; two sounds of 2 samples, one repeating; 2 starts, 1 reset, 2 changes of the sound bits and resets together | all eight properties |
| `channel2` | `MCChannel2.cfg` | sounds of 2 and 1 samples, queue of 2; 2 starts and stops together, 1 reset, 2 changes and resets together | requests, ends, refinement, termination |
| `gamepad` | `MCGamepad.cfg` | one button, both axes, queue of 2, three events under way | order, content, delivery |
| `videosync` | `MCVideoSync.cfg` | 4 bytes of 3 bits, numbers 0 to 2, writes of up to 2 cycles | placement, completeness, refinement |
| `cpu` | `MCCpu8080.cfg` | 28 programs, nine of them with interrupts, and 20 that may be loaded anew at any edge; see below | the instruction set, interrupts, termination, short writes |
| `screen` | `MCStartScreen.cfg` | introduction of 4, messages of 3 letters, sequencer at every second edge | letters, messages, delivery |
| `hdmi` | `MCHdmiI2C.cfg` | 4 entries, bytes of 2 bits, 2 lost bytes, 2 interrupts, 1 reset | what is counted is set; the table ends |
| `audio` | `MCAudioIf.cfg` | words of 2 bits, volumes 0 to 2, queue of 2, sounds of 2 and 4 samples, repeated, interrupted or broken off at any sample or not, samples stored often or lost | whole words, every sample, smooth volume |
| `right_sound`, `cpu_restart`, `sample_lost`, `shutdown` | `MCRightSound.cfg`, `MCCpuRestart.cfg`, `MCSampleLost.cfg`, `MCShutdown.cfg` | see section 4 | claims the code does not meet |

Why these bounds are enough to meet the interesting cases:

* images of 1 and of 2 bytes: in the first the first byte is also the last, in the second
  there is a byte in the middle of the exchange. Four images, because the loader counts to four. All places
  of the ROM are distinct, so a displaced byte is seen.
* two starts: the first may be cut at any access, the second runs to the end. A third start
  after an interrupted second meets no register value the second did not meet.
* one reset, at any point of a load, of a sound or between, followed by the second start or not.
* two changes of the sound bits give a request while another is being fetched, while its
  header is read, and the raising and dropping of the repeating sound. `ReqIdSpan = 2` is
  the smallest counter on which pending and served differ, and it wraps at once.
* `AudioDepth = 1` and `Fade = 1`: the queue is full after each sample, so that the delayed
  branch is taken all the time, and a two-sample sound passes the fade mark.
* gamepad queue of 2 with 3 events: the thread meets a full queue with one word in hand.
* three bits and four bytes: first, middle and last pixel of a byte, first, middle and last
  byte; request numbers 0 (never again after the first), 1 and 2 wrap within one reading.

* CPU: the programs between them use every group of opcodes, with carries in and out,
  results 0, negative and wrapped, conditions met and not met, both memories, all ports, and
  the ways to stop. Nine run with interrupts, which may come at any edge, and two
  service routines that save registers and flags, exchange words with the stack and return;
  the others would show the same interruptions again and run without. `MinGap = 8`: the shortest
  distance, in instructions, at which a service routine has ended before the next
  request (the real distance is 128 lines of the picture, some 2000 instructions; a
  nearer one nests the routines without bound). What the CPU itself needs, and the proofs assume, is
  `MinGap >= 3`: with 2 a request may change while the one before it is being taken, between the test and
  the reading of the vector, and TLC shows a jump to a mixture of both; `cpu_restart` runs with 3. `CYCLE_MULTIPLICATOR = 2` instead of 4 shortens
  the waiting between instructions, during which nothing happens.
* programs that are loaded anew: an opcode of each group in front of XTHL, whose seven steps leave
  every value of `func_state`.
* channel 2: one sound has a middle between first and last sample, the other is its own first and last;
  both fit the queue or fill it, according to how long the write enable stays up. Starts and stops share a bound, so
  a program stopped, a program killed by the next, and one that crashes on what the first left
  over all occur. `sample_lost` has a sound of three samples.
* start screen: four and three letters are the shortest texts with a first, a middle and a last letter
  beyond the two the ROM of the introduction runs ahead; `Period = 2` is the shortest at which the
  ROMs' latency is over before the next step (the code has 50000).
* HDMI: four entries are the first, which is not sent, one in the middle, one behind it and the last;
  two lost bytes hit an entry and its repetition; the second interrupt comes while the first is
  being dealt with.
* audio: a ramp is 2 steps. A sound of 2 samples is one ramp, whose first sample is marked twice and whose fade meets
  the rising volume; one of 4 is as long as both its ramps. A shorter sound has no mark at its end, and `VolumeSmooth`
  fails (`SoundsFade`). A fade is as long as the queue of 2, where 255 is longer than 8: what a sound leaves in the queue lies
  behind its mark. With one sample in the queue and its copy on the way, the next one is accepted and lost.

### Properties

Channel 1. `RomLayout`: once the program has announced itself since the last reset, state 3 is entered only with
the images in place, restarts included. `NoMisplacedByte`: while the board was not reset, no ROM cell holds
the byte of another place. `NoAlert`: the torn read of command and argument never yields a file
number that ends the program. `OnlySoundsPlayed`: while the board was not reset, every sample in the queue is of a
sound file. `LoadCompletes`, `SoundTaken`, `SoundEnds`: the three promises of progress.
They except by name two situations. `Repeating`: a program started
while the ufo's sound repeats finds `sound1_loop` up and the CPU, which alone could drop the
bit, stopped; the loader then parses the images as sound. `AtOdds`: the board was reset and the program
has not been started since (section 4); a restart repairs everything a reset has left behind.

Channel 2. `Sound2Taken`, `Sound2Ends`: progress, while the program runs and the FPGA has heard of
it since the last reset. `PlaysSounds`: the refinement of `SoundPlayer`, through every start, stop, crash
and reset. `StopsWhenTold`: a program told to stop ends, once the pad lets go of its thread.

Start screen. `TextInPlace`, `OneMessageAtATime` (what any moment shows), `MessageShown` (what comes to be
shown).

HDMI. `CountedIsSet`: the walker never counts an entry the transmitter has not taken, although
the answer it reads may be that of the entry before. `TableWritten`: in the end all are set, for good.

Audio interface. `WholeWords`, `SampleSent`: what is on the line is what was in the queue, and a sample leaves the read port
only with the last bit of its word. `VolumeSmooth`: the
volume moves by one step at most, through marks, repeated samples, an empty queue, ends, interruptions and
beginnings of sounds, and sounds broken off by a new start of the HPS program. It excepts by name the two jumps the code makes
(section 4): at a mark behind which samples were lost (`torn`), and up, at a fade that begins while the volume still
rises, that of a sound cut short or of one shorter than both its ramps. It supposes that no sound is
shorter than a ramp (`SoundsFade`).

Gamepad. `ButtonsShown`, `DirectionsShown` (state, when nothing is under way), `PressShown` (delivery), `InOrder` (the
refinement, with its fairness). `DirectionsShown` says which directions the game sees when an axis is held and the other
one is let go, and that a pad left alone steers nowhere: the centre of either axis clears the directions of both
(section 4), and a pad that is held may so be shown too few of them, never too many.

Video. `PlacedRight`, `AddressHeld` (safety of the crossing), `FrameDrawn` (a completed
reading has drawn every pixel, with the one exception of the first pixel after a reading that
was cut short, when `reqNewValue` is still up), `ReadingEnds`, `ImplementsPort` (the
refinement, with its fairness).

CPU. `ImplementsIsa` (the refinement, without fairness), `InstructionEnds` (no opcode waits
for a step that does not come, restarts included), `WritesAreShort`, which is the bound
`WrenMax = 2` that the video model takes from the CPU.

Each module also has its type invariant, in which the ranges matter: queues do not overflow,
counters stay in their texts and tables. Every property has at least one mutant in `PROJECT.json`: a definition with a plausible bug
(its name and comment stand next to the definition) under which TLC finds that property
violated.

### Fairness

* `Hps`, `Fpga`, `Play`, `Sound` (weak): the process is scheduled once it runs, `clockCPU`
  ticks, and the audio clock takes samples. `Start`, `Mount`, `Game` and `Reset` need never
  happen. With `Prompt`, `Hps` is enabled again after every word, as the FPGA's cycles are fair.
* `Thread2`, `Fpga2`, `Play2`, `Sound2`, `Main`, `Pad`, `Ready2` of channel 2 (weak): the same, and the
  first channel's main thread announces itself once started. `Key` is not fair: nobody has to touch the
  pad; nor are `Start2`, `Stop2`, `Game2`, `Load2`, `Reset2`.
* `CpuEdge`, `WriteLetter` of the start screen, `ControlEdge` of the HDMI configuration (weak): the clocks tick. How
  many bytes the transmitter loses is the bound `MaxNacks`; that it acknowledges from then on is
  what a bus without an end of its retries needs.
* `Clock` of the CPU (weak): its clock ticks. Interrupts and restarts need never happen.
* `Thread` and `ClockEdge` of the gamepad, `CpuCycle` and `VgaCycle /\ UNCHANGED scan` of the
  video: the same. That the scan moves on to the next line is not assumed: with it, a reading
  that is stuck would end by being cut short, and `ReadingEnds` would say nothing.
* That the CPU does not write for ever is not fairness but the bound `WrenMax` in `CpuCycle`:
  in `cpu.v` the write enable is raised in one state of an instruction and dropped in another,
  and `WritesAreShort` shows that it is up for two cycles at most.

## 4. Where the code differs from what it says

* **The argument left behind for debugging** (`right_sound`). With the request to stop
  reading the FPGA leaves a size on `fpga_data` (line 843, "Pour debuggage"). If the HPS read
  the command before and the argument after, it sends the byte at that position; the word is
  taken for the next sample and answered, and a request made meanwhile is taken at the close of the
  wrong file. The bytes played are then not those of the sound last asked for.
* **A restart within an instruction** (`cpu_restart`). When the game is loaded anew the CPU
  returns to address 0, but `func_state` keeps the step of the instruction cut short. The first opcode
  of several steps begins there: a load, without having set its address.
  The game's ROM begins with calls, which clear `func_state`, and copies bytes with LDAX D
  soon after; `InstructionEnds` shows that at least nothing hangs.
* **A sample that is never heard** (`sample_lost`). `AUDIO2_wrreq` stays up after a sample and the queue
  stores a copy at every edge. When a copy fills the queue at the very edge at which the next sample is
  accepted, that sample is not stored, and the one after it, finding the queue full, overwrites it.
  Channel 1 has the same lines, and in `Filer1` and `AudioIf` loses samples in the same way.
* **The last key** (`shutdown`). After "Press a key on the Gamepad ..." the thread that waits for the key
  writes it to the bridge, which was unmapped before: the program ends by SIGSEGV.

Observations which no run states:

* On channel 1 the sample that is lost may carry bit 16 or 17, which are there "pour le smoothing". The sound then ends
  at full volume, or begins without its ramp, and the next mark that does come through sets the volume to 0 or to 255
  at once. This is the first exception in `VolumeSmooth`, `torn`; without it TLC shows the jump, also when samples
  never come in two cycles that follow each other.
* A reset while the HPS asks for the second image leaves the HPS at its operation while `file_num` goes back to 1: the
  loader puts the second image where the first belongs, asks for it once more, and with the fourth goes to state 3, "3 =>
  ready to play". The game then runs on a wrong ROM until the program is started again: `RomLayout` speaks only while the
  program has announced itself since the last reset. TLC shows such a game when that condition is dropped.
* The centre of one axis of the pad clears all four direction bits (1031, 1036): letting go of one axis of a diagonal
  releases the other as well, although it is still held. `DirectionsShown` says so.
* State 4 of the CPU has an arm for MVI E, but state 3 does not list opcode 1E among those it passes on, and stops the CPU
  as at an unknown opcode. `InstructionEnds` counts that stop as an end. The game does not use MVI E.
* Bits 16 and 17 are there "pour le smoothing", and a sound that is interrupted gets "un lissage anticipé". But
  its mark sets the volume to 255 first, wherever the first ramp is: a sound interrupted within its
  first 255 samples grows loud at once. The same happens at the end of a sound of 255 to 509
  samples, and a shorter one has no mark at its end. This is the second exception in `VolumeSmooth`; without it TLC
  shows the jump.
* The loader writes the images mostly in system_state 1 ("check if disc inserted"), because state
  2 is entered only by operation 7, which comes after the last image; the screen shows the text of
  state 1 meanwhile.
* The reset does not clear `AUDIO_header_flag`. With the flag at 3 the bytes of the first image satisfy
  `sound1_inProgress` and go to the sample queue, which nobody drains; the load stands still until
  the program is started again. A reset while a byte is on its way loses the word, and the inner loop of
  the HPS takes `fpga_cmd` 0 for more of the same; that too ends with a restart. Both are in `AtOdds`.
* In channel 2 a reset leaves `fpga2_req` and the header registers, so a sound may be read on that nobody asked for;
  a thread that begins with request 31 left over crashes. The last samples of a sound may stay in
  `fifo_audio2` until the next sound.
* With volume 0 the line has the level of sample 0 (`AUDIO_IF.v` 381: -128 shifted), not the middle; while both
  sounds are off it keeps the last bit, which is the middle. So a ramp ends at one level and silence begins
  at another, until the first sound of port 5 raises `sound2_on`, which nothing clears.
* The text of the start screen is right only because the ROMs answer within a period and the writer's
  clock is the faster one; nothing in the code says so.
* The first entry of the HDMI table is never sent: `END_OK` is up after a reset, and the walker takes it for
  the answer. Entry 16 has the same register and value. After the table the sender repeats the last
  entry for ever, and an interrupt of the transmitter comes into the middle of it: register 0xFA
  gets the value 0x03 of the first entry, until the table is written again.

## 5. The proofs

`tlapm` checks the proof modules from nothing. Each theorem holds for every value of the
constants that satisfies the named assumptions of the modules (`BridgeAssumption`,
`SoundAssumption`, `Filer1Assumption`, `Channel1Assumption`, `VideoAssumption`,
`GamepadAssumption`, `Filer2DepthAssumption`, `Sound2Assumption`, `Filer2Assumption`, `FilesAssumption`, `ScreenAssumption`,
`HdmiAssumption`, `AudioAssumption`, `CpuAssumption`); these say
that sizes and depths are positive, that the request numbers 1 and 2 exist
(`INSTRUCTION_MAX >= 2`), that the files the sound block asks for exist, and that buttons and
axes have the codes of the code's tables, that a message has two letters at least, a byte two bits, (`SoundsFade`) that no sound is shorter than a ramp of the volume, and (`ImagesFit`) that an image is no longer than
what `rom_addr` can count and the four together no longer than the ROM, as 4 times 2048 bytes in 8192 are.

* `Channel1TypeCorrect`: `Channel1Spec => []TypeOK`. TypeOK is inductive as it stands; the
  proof has one lemma per action of each component (each branch of the block has its own),
  and includes restarts and resets. It is not empty: it says that `cpu_rom_waddr1` stays in
  the ROM, that `file_num` never passes 5, that the sample queue never overflows, that only
  known requests are ever on `fpga_cmd`, that a selected file exists.
* `NoAlertHolds`: the HPS reads a request and its argument in two accesses. `RequestInv` says where either side is
  in the exchange: which operation the port holds at each access of the HPS (`Exchange`: at "arg" the
  FPGA is idle, so what was read at "cmd" still stands), that the number of files is asked for only while an image
  is missing (`ImageMissing`: the loader never asks for a fifth), and that a file asked for exists
  (`FileKnown`). `NoAlert` by itself says nothing of the request that is about to be read.
* `RomLayoutHolds`, `NoMisplacedByteHolds`: `LoadInv`. `Turn` says whose turn it is; `Loader`, how far the
  loading is (the image in work, its offset as the sum of the sizes before it, the cells already right, the byte
  in the write port); `WordAnswers` and `Answering`, that a word on its way, or the one the HPS is about to
  send, answers the request that stands: the byte at the position asked for, of the file whose
  size was asked for. `RomClean` says of a run without resets that no cell is wrong, however many starts cut a load
  short; `Loader` alone is void until the program has announced itself.
  Both have their limit in the property: `RomLayout` speaks while the program has announced itself since the board's last
  reset (`announced`), `NoMisplacedByte` as long as there was no reset. After a reset without a start the
  ROM may be wrong (section 4).
* `OnlySoundsPlayedHolds`: every sample in the queue is of a sound file, as long as the board was never reset. `PlayInv`, that while the game runs what the HPS has open is a sound, and that what
  is on its way to the speaker (`SoundBuffered`) is of a sound, until the board is reset.

Of these five, all but the first assume `Prompt`: the FPGA serves a word before the next access of the HPS. The
block needs some ten nanoseconds for that, an access over the bridge some hundred; without it an operation may be
overwritten before its word is served. The runs of channel 1 assume it, too. Their invariants were
first checked by TLC on the instance of the run `channel1`.

* `Channel2TypeCorrect`: `Channel2Spec => []Channel2Type`; it does not need `Prompt2`.
* `PlaysSoundsHolds`: under `Prompt2` (as `Prompt`, for the second bridge port) `Channel2Spec => PlaysSounds`:
  the detailed specification implements `SoundPlayer`, for all files, depths and bounds and through every
  start, stop, crash and reset. `SoundPlayer` states no fairness, so this is the whole refinement. The invariant
  is `Play2Inv`: `Turn2`, that one word at most is on its way, and where the thread is meanwhile; and, as long as
  the FPGA has heard of the program since the last reset (`Heard2`), `PlayPoint`, how far the player
  is by the request that stands (the header's marks, the count of samples); `AnswersRequest`, that the
  word on its way, or in the thread's hand, is the answer to it (`ThreadAgrees`, one part per place of the
  thread); and `DelayedRight`, that a refused sample is the one asked for, which only the first word of a new
  program can overtake. Each branch of the block has its lemma, and the steps of the player (Take, Read,
  Finish) follow from what these lemmas say of the sample in hand; `LineFacts` carries the queue over to
  the player's line.

* `VideoInvariant`: the type invariant with `SyncInv`, the strengthening that PlacedRight
  needs: the place to be drawn is the address last put on `cpu_mem_rdaddr`; at the
  synchronizer's second step the request is still open and the memory's port shows the byte
  of its address; when the two numbers agree the value is that of the address; and nothing is
  drawn before the first request. `PlacedRight` alone is not inductive: it says nothing of the
  registers the next pixel comes from.
* `VideoTypeCorrect`, `PixelsPlacedRight`, `AddressIsHeld`: consequences.
* `HandshakeIsPort`: every behaviour of `VideoSpec` satisfies `BytePort`'s initial predicate and
  next-state relation under the mapping of section 2, so the renderer may be read against a
  port.
* `FramesAreDrawn`: `FrameDrawn`, from `VideoInv` and `FrameInv`. The latter says that the
  pixels the counter has passed are drawn, and follows the one pixel that may not be: the place
  of a pixel is the counter's byte, except at the counter's start with a request left
  over from a reading that was cut short.
* `CpuTypesInvariant`: for every set of programs and any interrupts and restarts, every field of the clocked block keeps
  to its width, the memory port to its own, the memories hold bytes, and the requests are vectors. `TypeInv` is
  inductive as it stands. The argument has three layers. What the operators of `Alu8080` return is in range
  (`LogicType` to `PlainType`: the bit operations by their sum of eight terms). Each action is given by
  the registers it sets and how its step ends: `Only(F)`, all others are as every edge leaves them, and `NextStep`,
  `OneStep`, `LastStep` or `JumpStep` (one lemma per action, `...Effect`). From there each action keeps the types
  (`...Regs`), and so do the port and the memories. It is not empty: that `func_state` never passes 7, its
  three bits, needs the longest opcode's last step, and that no address passes 65535 each sum of the code.
* `CpuTypeCorrect`: `CpuType`, a consequence.
* `WritesAreShortHolds`: for every program and any interrupts and restarts, the CPU's write enable is up for two
  cycles at most, unless a restart cut a write short. `WritesAreShort` is the bound the synchronizer of the
  renderer counts on, and not inductive; `WriteInv` adds where the CPU may be while the enable is up
  (`Writing`: which opcode, in which of its steps, how long the enable has been up); that
  the registers keep their fields is from `TypeInv`. It uses that the groups of opcodes are disjoint (`WriteGroups`,
  `OtherGroups`) and that C4 and CC look at their condition again in each step but nothing changes the flags in between.
* `ImplementsIsaHolds`: `CpuSpec => ImplementsIsa`. For every program in the ROM (self-modifying ones cannot be: the ROM
  is not written), every state of the memory, all keys, and interrupts and restarts at any edge, the CPU does, edge by
  edge, one instruction or interrupt of `Isa8080` after the other. `Isa8080` states no fairness, so this is the whole
  refinement. It needs `TypeInv` and `IsaInvariant`, whose `IsaInv` says what holds at each edge in terms of
  `arch`, what the instruction in work began with:
  - `CycleInv` has one part per place of the instruction cycle: in state 0 nothing was begun (`Untouched`); in states 1
    and 2 the ROM's port holds the address of the opcode and of the byte behind it, so that each byte is there in the state
    that takes it; in state 3 an opcode of state 2 waits for its flags (`EarlyDone`); further on `Ready`, in front of the
    first step of an opcode with its bytes (`Decoded`), or `Between`, one `Mid...` per group of
    opcodes, that says after each step which registers differ from `arch` and by what, which address the memories
    were asked for, what they show, and which bytes are on their way to the RAM (`Wet`). `Agrees(F)` says that
    all registers but those of F are as they were.
  - `RequestInv` and `Taking`: a request that is due is the one the renderer's line holds; from the second instruction
    after it was raised on the CPU has seen it, or does not look (`Deaf`, interrupts disabled); an interrupt is
    being taken only if one is due and the line has settled, hence the vector read three edges after the test is its own.
    That the line stays settled is where `MinGap >= 3` is used.
  The steps: each opcode's step leads to the next `Mid...` (`GoodStay`) or ends it (`GoodEnd`), when
  the copy of the registers to `arch` is the instruction of `Isa8080` by the lemmas `Isa...`, one per group. The
  operators of `Alu8080` that `Isa8080` has through its instance are shown to be those of the CPU (`Same...`), so the
  sums are compared as in section 2: by name. `ClockGood` puts the edges together, `RaiseGood` and
  `RestartGood` add requests and restarts, `NextMaps` is the mapping of a step.
* `GamepadInvariant`: types; `DecodeInv`, that the word in the read port, once decoded, has no
  effect left (this is why decoding it again is harmless; it rests on `DecodeTwice`); and
  `ButtonsAgree`, that each button is as the last event under way will leave it, or as the game sees it
  when there is none. `ButtonsShown` speaks of the moments when nothing is under way, so it
  cannot be inductive. `DirectionsAgree` says the same of each direction: the last word under way that turns it,
  its own or the centre of either axis, decides whether it is in `steered`. `RestAgrees` adds that `steered` is empty while both
  axes are at their centre.
* `GamepadTypeCorrect`, `ButtonsAreShown`, `DirectionsAreShown`, `EventsInOrder`: consequences. The refinement is
  shown on sequences (`FlightSplits`, `PadAppends`, `ThreadKeeps`, `ClockTakes`), and the argument about
  buttons and directions uses only what it yields: append at one end, take effect at the other.

* `ScreenInvariant`: types; `CountInv`, where counters and ROM addresses stand when the instruction is *v*
  (the introduction's ROM one letter ahead, the cell two); `LetterInv`, what the screen shows and that the
  letter which waits to be written is in the ROM's register. `TextInPlace` and `OneMessageAtATime`
  speak of the screen alone and say nothing of the letter to come.
* `ScreenTypeCorrect`, `TextStandsInPlace`, `MessagesAreNotMixed`: consequences.
* `HdmiInvariant`: types and the phases of both machines (`SenderInv`, `WalkerInv`); `StepInv`, where the
  sender is when the walker moves on; `OneEntry`, that past the first entry the bytes under way are those
  of one entry; and that an entry sent and not refused is set. `CountedIsSet` is not inductive: it is
  an answer read an edge late that lets the walker count.
* `HdmiTypeCorrect`, `CountedEntriesAreSet`: consequences.
* `AudioInvariant`: types; `QueueInv` and `PlayerInv`, what a sample says of the one before it in the queue, from the port to
  the player (`Follows`): it is its copy, or it is the next of its sound or the first of a sound behind the last of
  another (`Succeeds`), or it is `torn`, and then nothing is known until the next mark (`Intact`). A sample in the
  player's hand joins the last one *stored*, not the last one accepted, and `stored`
  says whether these are the same: where they are not, `Torn` marks the next. `VolumeInv`, what the volume is after the period
  in which a sample was looked at (`Settled`: rising with the place in the sound, falling with what is left of it, and nothing
  behind a loss until the next mark); `LeftInv` and `RightInv`, what the bits under way are taken from. `VolumeSmooth` is
  about one step and needs to know how the volume came to be what it is: a sound's first sample finds it at 0 or 1 because the
  sound before it had as many samples after its mark as the volume has steps (`SoundsFade`), none of which was lost unless the
  mark says so.
* `AudioTypeCorrect`, `WordsAreWhole`, `SamplesAreSent`, `VolumeIsSmooth`: consequences.

All invariants and action properties the passing runs check are proved. Out of the prover's reach, and left to TLC:
everything under fairness (`LoadCompletes`, `SoundTaken`, `SoundEnds`, `PressShown`,
`ReadingEnds`, `InstructionEnds`, `Sound2Taken`, `Sound2Ends`, `StopsWhenTold`, `MessageShown`, `TableWritten`, the fairness of the
refinements).

## 6. What is not modelled, and why

* Requests 2, 3, 34 and 9 of the HPS and the operations 4, 5, 10 that answer them: the FPGA
  never issues them. The guards of the FPGA that name them are kept.
* Sounds of two channels, the debug port, texts printed, pauses (`usleep`): the game's
  sounds are mono, the others change no state of the protocol.
* `queue_t` in the HPS program: dead code.
* What a file holds: bytes are their origin. So a sample stored twice by a write enable that
  stays up is seen as twice the same sample, and not as a click.
* The analogue side of clock crossing (metastability): a register read from another clock is
  its old or its new value.
* CPU: the digits drawn after an unknown opcode (they use the memory's port until the next
  loading), the writing of the ROM while the game is loaded (in `Filer1`), counters for
  debugging, and what the arm of MVI E in state 4 does, which state 3 never reaches. That the results of
  the arithmetic are those of an Intel 8080 is not stated: `Alu8080` has them as the code has
  them, with `CPU_ac` set from the low digit of the result.
* The board's reset in the gamepad's, the renderer's, the CPU's and the audio interface's models, except as a restart of the CPU.
* A file of the list that is missing on the card: the run of channel 1 has all of them or, before the card is mounted, none.
* `AUDIO_IF.v`: the arithmetic on sample values (a sample is its place and its marks), the divider of the clock, the
  loss of the PLL's lock.
* The renderer's timing (`vgaHdmi.v` 148-216, `gamebuffer.v`) and its colours: free-running counters. What they do to
  others is in `Cpu8080` (interrupts) and `VideoSync` (reading lines).
* In `HpsProgram`: devices that cannot be opened, which end the program before a thread runs.
* Generated and vendored code: `soc_system`, PLLs, memory and queue wrappers, `hps_isw_handoff`. Of the C and C++ files of
  the repository, 97 % of the lines are two copies of the vendor's preloader (`sequencer.c`, `tclrpt.c` and their
  headers: the calibration of the SDRAM), which no code of this project calls. The project's own code is
  `SpaceInvaders_controller.cpp` and the Verilog of `FPGA_src`, and these models cover the state machines of both; a
  share of the lines of *all* files stays small however much of them is modelled.

## 7. What is left

1. The arithmetic of `Alu8080` against the 8080's own (DAA and the half carry, SBI).
2. The sound block of port 3 as a component of its own: which of two rising bits may be lost.
3. What the operators of `Alu8080` compute, as theorems (that a rotation loses no bit, that DAD is the sum of two words, that
   PUSH PSW and POP PSW are inverse): so far their ranges are proved, and the refinement compares them by name.
