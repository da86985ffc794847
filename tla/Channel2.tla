------------------------------ MODULE Channel2 -------------------------------
(***************************************************************************)
(* The second channel as a whole: thread_filer2 within the life of the HPS  *)
(* program, its queue, the FPGA's player, and the requests of the running   *)
(* game.  The first channel appears only as what it means here: whether     *)
(* system_state is 3.                                                       *)
(***************************************************************************)
EXTENDS Filer2

CONSTANTS
    Prompt2,      \* the FPGA serves a word before the HPS's next access, as in Channel1
    MaxTurns2,   \* bound: times the HPS program is started or told to stop
    MaxResets2,   \* bound: times the board's reset key is pressed
    MaxOuts2      \* bound: times the game changes its sound bits, and resets, together

ASSUME Channel2Assumption ==
    /\ Prompt2 \in BOOLEAN
    /\ MaxTurns2 \in Nat /\ MaxResets2 \in Nat /\ MaxOuts2 \in Nat

VARIABLES gameReady, turns2, resets2, outs2

count2Vars == <<turns2, resets2, outs2>>
bridge2Vars == <<fifo2, fpga2_req>>
channel2Vars == <<programVars, pc2, threadVars, bridge2Vars, filer2Vars, sound2Vars,
                  gameReady, count2Vars>>

Channel2Init ==
    /\ ProgramInit /\ ThreadInit /\ Sound2Init /\ Filer2Init
    /\ gameReady = FALSE
    /\ turns2 = 0 /\ resets2 = 0 /\ outs2 = 0

Settled2 == Prompt2 => fifo2 = <<>> /\ ~filer2_data_ready

Thread2 ==
    /\ Settled2
    /\ Filer2Step
    /\ UNCHANGED <<filer2Vars, sound2Vars, gameReady, count2Vars>>

Fpga2 ==
    /\ Filer2Cycle(gameReady)
    /\ UNCHANGED <<programVars, pc2, threadVars, sound2Vars, gameReady, count2Vars>>

Play2 ==
    /\ PlaySample2
    /\ UNCHANGED <<programVars, pc2, threadVars, bridge2Vars, word2Vars, header2Vars,
                   stream2Vars, delay2Vars, sound2_inProgress, sound2_reqId_sync, player,
                   sound2Vars, gameReady, count2Vars>>

Sound2 ==
    /\ TakeBits2
    /\ UNCHANGED <<programVars, pc2, threadVars, bridge2Vars, filer2Vars, gameReady, count2Vars>>

Game2 ==
    /\ gameReady
    /\ outs2 + resets2 < MaxOuts2 /\ outs2' = outs2 + 1
    /\ \E bits \in SUBSET Sound2Bits : OutPort5(bits)
    /\ UNCHANGED <<programVars, pc2, threadVars, bridge2Vars, filer2Vars, gameReady,
                   turns2, resets2>>

\* system_state: "SD ready" stops the game, and the main loop loads it.
Ready2 ==
    /\ Announce /\ gameReady' = FALSE
    /\ UNCHANGED <<threadVars, bridge2Vars, filer2Vars, sound2Vars, count2Vars>>

Load2 ==
    /\ mainPc = "loop" /\ gameReady' = TRUE
    /\ UNCHANGED <<programVars, pc2, threadVars, bridge2Vars, filer2Vars, sound2Vars, count2Vars>>

Others2 == <<bridge2Vars, filer2Vars, sound2Vars, gameReady, resets2, outs2>>

Start2 ==
    /\ turns2 < MaxTurns2 /\ turns2' = turns2 + 1
    /\ StartProgram /\ BeginThread
    /\ UNCHANGED Others2

Main == MainStep /\ UNCHANGED <<Others2, threadVars, turns2>>
Pad == PadStep /\ UNCHANGED <<Others2, threadVars, turns2>>
Key == PadEvent /\ UNCHANGED <<Others2, threadVars, turns2>>
Stop2 ==
    /\ turns2 < MaxTurns2 /\ turns2' = turns2 + 1
    /\ Signal /\ UNCHANGED <<Others2, threadVars>>

\* rst_n: what no reset branch names keeps its value, fpga2_req and AUDIO2_wrreq among it.
Reset2 ==
    /\ resets2 < MaxResets2 /\ outs2 + resets2 < MaxOuts2 /\ resets2' = resets2 + 1
    /\ fifo2' = <<>> /\ filer2_data' = NoWord
    /\ filer2_data_ready' = FALSE
    /\ filer2_delayed' = FALSE
    /\ sound2_inProgress' = FALSE
    /\ sound2_reqId' = 0 /\ sound2_reqId_sync' = 0
    /\ gameReady' = FALSE
    /\ player' = [player EXCEPT !.sound = 0, !.breaks = @ + 1, !.on = FALSE]
    /\ UNCHANGED <<programVars, pc2, threadVars, fpga2_req, filer2_read, filer2_data_delayed,
                   header2Vars, stream2Vars, samples2, cpu_sound2_bits, sound2_prev,
                   sound2_wav, turns2, outs2>>

Channel2Next ==
    \/ Thread2 \/ Fpga2 \/ Play2 \/ Sound2 \/ Game2 \/ Ready2 \/ Load2
    \/ Start2 \/ Stop2 \/ Main \/ Pad \/ Key \/ Reset2

Channel2Spec == Channel2Init /\ [][Channel2Next]_channel2Vars

\* The clocks run and the threads are scheduled; nobody has to touch anything.
Channel2Fair ==
    /\ Channel2Spec
    /\ WF_channel2Vars(Thread2) /\ WF_channel2Vars(Fpga2)
    /\ WF_channel2Vars(Play2) /\ WF_channel2Vars(Sound2)
    /\ WF_channel2Vars(Ready2) /\ WF_channel2Vars(Main) /\ WF_channel2Vars(Pad)

----------------------------------------------------------------------------

Channel2Type == ProgramType /\ ThreadType /\ Sound2Type /\ Filer2Type

\* What the program serves: it runs, and the FPGA heard of it after the last reset.
Served2 == player.on /\ pc2 # "exit" /\ keepRunning

\* A request of the game is taken, whatever is being played.
Sound2Taken ==
    (sound2_changed /\ Served2 /\ gameReady) ~> (~sound2_changed \/ ~Served2 \/ ~gameReady)

\* A sound that was taken comes to its end, although its samples meet a full queue.
Sound2Ends == (player.sound # 0 /\ Served2) ~> (player.sound = 0 \/ ~Served2)

\* Every sound that was taken is read whole and in order, and what stands in the queue is
\* what was read, in order: thread, bridge and block implement a player of sounds.
SampleOf(w) == <<w.file, w.at - FirstSample>>
WhenOn(now, off) == IF player.on THEN now ELSE off
Player == INSTANCE SoundPlayer WITH
              Sounds <- WavFiles,
              Length <- WavSize,
              sound <- WhenOn(player.sound, 0),
              next <- WhenOn(player.next, 0),
              hand <- WhenOn(SampleOf(player.hand), <<>>),
              line <- WhenOn([i \in DOMAIN samples2 |-> SampleOf(samples2[i])], <<>>),
              breaks <- player.breaks

PlaysSounds == Player!PlayerSpec

\* "Permet de stoquer les samples dans la FIFO pour l'audio" (SPACE_INVADERS.v:1209): a
\* sample that was read is stored before the next takes its place.
NoSampleLost ==
    [][AUDIO2_wrreq /\ AUDIO2_data' # AUDIO2_data
         => samples2' # samples2 \/ (samples2 # <<>> /\ samples2[Len(samples2)] = AUDIO2_data)
      ]_channel2Vars

=============================================================================
