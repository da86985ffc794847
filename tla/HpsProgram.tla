----------------------------- MODULE HpsProgram ------------------------------
(***************************************************************************)
(* The life of the HPS program: main maps the bridge and starts the threads *)
(* of the gamepad and of the second channel; a signal ends its loop, and it *)
(* unmaps the bridge and waits for the gamepad thread, which waits for the  *)
(* pad.  Nobody waits for the other thread (HpsFiler2), which goes down     *)
(* with the process.  What the main loop and the gamepad thread exchange    *)
(* with the FPGA is in HpsMain and Gamepad; here it only matters when they  *)
(* run, and whether the bridge is mapped then.                              *)
(***************************************************************************)

VARIABLES
    mainPc,       \* "start", "loop", "join" (470-793), "exit" when there is no process
    padPc,        \* "read", "write" (154-170), "done"
    pc2,          \* of HpsFiler2
    keepRunning, mapped,
    fault         \* the process ended by touching memory that is not mapped

programVars == <<mainPc, padPc, keepRunning, mapped, fault>>

ProgramInit ==
    /\ mainPc = "exit" /\ padPc = "done" /\ pc2 = "exit"
    /\ keepRunning = FALSE /\ mapped = FALSE /\ fault = FALSE

ProgramType ==
    /\ mainPc \in {"start", "loop", "join", "exit"}
    /\ padPc \in {"read", "write", "done"}
    /\ pc2 \in {"word", "req", "byte", "next", "exit"}
    /\ keepRunning \in BOOLEAN /\ mapped \in BOOLEAN /\ fault \in BOOLEAN
    /\ mainPc \in {"start", "loop"} => mapped
    /\ mainPc = "exit" => padPc = "done" /\ pc2 = "exit"

\* A process started by hand, in the place of one that ended or was killed.  The gamepad
\* thread ends at once when there is no pad.
StartProgram ==
    /\ mainPc' = "start"
    /\ padPc' \in {"read", "done"}
    /\ pc2' = "word"
    /\ keepRunning' = TRUE /\ mapped' = TRUE /\ fault' = FALSE

\* Ctrl + C
Signal ==
    /\ mainPc # "exit" /\ keepRunning
    /\ keepRunning' = FALSE
    /\ UNCHANGED <<mainPc, padPc, pc2, mapped, fault>>

\* The loop's first operation: "SD ready".
Announce ==
    /\ mainPc = "start" /\ mainPc' = "loop"
    /\ UNCHANGED <<padPc, pc2, keepRunning, mapped, fault>>

\* munmap(bridge_map, BRIDGE_SPAN)
LeaveLoop ==
    /\ mainPc = "loop" /\ ~keepRunning
    /\ mapped' = FALSE
    /\ mainPc' = "join"
    /\ UNCHANGED <<padPc, pc2, keepRunning, fault>>

\* pthread_join(tid1), and the end of main, which ends the process with all its threads.
Join ==
    /\ mainPc = "join" /\ padPc = "done"
    /\ mainPc' = "exit" /\ pc2' = "exit"
    /\ UNCHANGED <<padPc, keepRunning, mapped, fault>>

\* SIGSEGV
Crash ==
    /\ mainPc' = "exit" /\ padPc' = "done" /\ pc2' = "exit"
    /\ fault' = TRUE
    /\ UNCHANGED <<keepRunning, mapped>>

----------------------------------------------------------------------------
(* The gamepad thread.  keepRunning is tested as the access before it ends. *)

\* Mutant of NextEvent: the thread does not look at keepRunning.
AnyEvent == padPc' = "read"

NextEvent == padPc' = IF keepRunning THEN "read" ELSE "done"

\* read returns an event: a key or an axis, which is written to the bridge, or another.
PadEvent ==
    /\ padPc = "read"
    /\ padPc' = "write" \/ NextEvent
    /\ UNCHANGED <<mainPc, pc2, keepRunning, mapped, fault>>

PadWrite ==
    /\ padPc = "write" /\ mapped
    /\ NextEvent
    /\ UNCHANGED <<mainPc, pc2, keepRunning, mapped, fault>>

PadFault == padPc = "write" /\ ~mapped /\ Crash

MainStep == LeaveLoop \/ Join
PadStep == PadWrite \/ PadFault

\* "Press a key on the Gamepad ..." (line 792): a program that was told to stop ends with
\* the next key, or by itself when no thread waits for one.
StopsWhenTold == (~keepRunning /\ padPc # "read") ~> (mainPc = "exit" \/ keepRunning)

\* "Main: Union du premier thread", "The End ;-)" (796-798): it ends by itself.
NoFault == ~fault

=============================================================================
