------------------------------ MODULE HpsFiler2 ------------------------------
(***************************************************************************)
(* thread_filer2 of SpaceInvaders_controller.cpp, which serves the second   *)
(* channel.  A word carries its operation, and one register the command     *)
(* with its argument, so that each is one access.                           *)
(*                                                                          *)
(* pc2: "word"  write the operation and its data       (line 216)           *)
(*      "req"   read the request, and serve it         (218-340)            *)
(*      "byte"  write a byte of the open file          (292)                *)
(*      "next"  read the next request of the open file (295-297, 308-310)   *)
(*      "exit"  the thread is not running                                   *)
(* keepRunning is tested as the step before the next access ends; a test    *)
(* any later would give the same accesses.                                  *)
(***************************************************************************)
EXTENDS GameFiles, HpsProgram, Sequences

CONSTANT Fifo2Depth     \* words the queue of the bridge holds (8 in soc_system)

ASSUME Filer2DepthAssumption == Fifo2Depth \in Nat \ {0}

Word2 == [op : {0, 1, 6, 7, 8, 9}, file : {0} \cup Files, at : Nat]
OpWord(op, n) == [op |-> op, file |-> 0, at |-> n]
ByteWord(f, p) == [op |-> 9, file |-> f, at |-> p]

VARIABLES
    fifo2, fpga2_req,           \* the bridge: HPS2_DATA and FPGA2_REQ
    opNum2, opData2,            \* opNum, opData
    fArg1_cur2, filenameSel2    \* fArg1_cur, filenameSel (0: not set)

threadVars == <<opNum2, opData2, fArg1_cur2, filenameSel2>>

Request2 == [cmd : {0, 4, 5, 6, 31}, arg : Nat]

ThreadInit ==
    /\ fifo2 = <<>>
    /\ fpga2_req = [cmd |-> 0, arg |-> 0]
    /\ opNum2 = 0 /\ opData2 = 0
    /\ fArg1_cur2 = 0 /\ filenameSel2 = 0

ThreadType ==
    /\ fifo2 \in Seq(Word2) /\ Len(fifo2) <= Fifo2Depth
    /\ fpga2_req \in Request2
    /\ opNum2 \in {0, 1, 6, 7, 8, 9} /\ opData2 \in Nat
    /\ fArg1_cur2 \in Nat /\ filenameSel2 \in {0} \cup Files
    /\ pc2 \in {"byte", "next"} => filenameSel2 \in Files

\* The thread begins (pc2 is set by StartProgram).
BeginThread ==
    /\ opNum2' = 1 /\ opData2' = 0
    /\ filenameSel2' = 0
    /\ UNCHANGED fArg1_cur2

\* *((uint32_t *)hps2_map) = w : the write waits while the queue is full.
Push2(w) ==
    /\ Len(fifo2) < Fifo2Depth
    /\ fifo2' = Append(fifo2, w)

----------------------------------------------------------------------------

\* An access of the bridge: the process ends there if it is not mapped any more.
Faults == pc2 # "exit" /\ ~mapped /\ Crash /\ UNCHANGED <<fifo2, fpga2_req, threadVars>>

Access(pc) == pc2 = pc /\ mapped /\ UNCHANGED <<programVars, fpga2_req>>

\* while(keepRunning)
Loop(pc) == pc2' = IF keepRunning THEN pc ELSE "exit"

SendOp2 ==
    /\ Access("word")
    /\ Push2(OpWord(opNum2, opData2))
    /\ pc2' = "req"
    /\ UNCHANGED threadVars

\* One action per request, taken as it is read.
Requested(cmd) == Access("req") /\ fpga2_req.cmd = cmd /\ UNCHANGED fifo2

SelectFile2 ==
    /\ Requested(6) /\ fpga2_req.arg \in Files
    /\ filenameSel2' = fpga2_req.arg
    /\ opNum2' = 8
    /\ opData2' = FileSize(fpga2_req.arg)
    /\ Loop("word")
    /\ UNCHANGED fArg1_cur2

\* "!!! (FILER2)  ALERT: not file num %d existing" clears keepRunning, for all threads.
UnknownFile2 ==
    /\ pc2 = "req" /\ mapped /\ fpga2_req.cmd = 6 /\ fpga2_req.arg \notin Files
    /\ keepRunning' = FALSE
    /\ pc2' = "exit"
    /\ UNCHANGED <<mainPc, padPc, mapped, fault, fifo2, fpga2_req, threadVars>>

\* fArg1_cur = -1: the first byte is always sent.
OpenFile2 ==
    /\ Requested(31) /\ filenameSel2 # 0
    /\ opNum2' = 9
    /\ fArg1_cur2' = fpga2_req.arg
    /\ Loop("byte")
    /\ UNCHANGED <<opData2, filenameSel2>>

\* A thread that begins with a request left over has no file name: neither open nor mmap
\* succeeds, and the first byte is read from nowhere.
OpenNothing2 ==
    /\ pc2 = "req" /\ mapped /\ fpga2_req.cmd = 31 /\ filenameSel2 = 0
    /\ Crash
    /\ UNCHANGED <<fifo2, fpga2_req, threadVars>>

WaitForRequest2 ==
    /\ Requested(5)
    /\ opNum2' = 7 /\ opData2' = 0
    /\ Loop("word")
    /\ UNCHANGED <<fArg1_cur2, filenameSel2>>

\* Any other request is not served: the same operation is announced again.
RepeatOp2 ==
    /\ Access("req") /\ fpga2_req.cmd \notin {5, 6, 31}
    /\ Loop("word")
    /\ UNCHANGED <<fifo2, threadVars>>

----------------------------------------------------------------------------
(* The loop that serves an open file.  A request that did not change is read again. *)

SendByte2 ==
    /\ Access("byte")
    /\ Push2(ByteWord(filenameSel2, fArg1_cur2))
    /\ pc2' = "next"
    /\ UNCHANGED threadVars

NextRequest == Access("next") /\ UNCHANGED <<fifo2, opData2, filenameSel2>>

SendNext2 ==
    /\ NextRequest /\ fpga2_req.cmd # 4 /\ keepRunning
    /\ fpga2_req.arg # fArg1_cur2
    /\ fArg1_cur2' = fpga2_req.arg
    /\ pc2' = "byte"
    /\ UNCHANGED opNum2

\* Mutant of CloseFile2: the end of the file is not announced.
CloseFileSilently2 ==
    /\ NextRequest /\ (fpga2_req.cmd = 4 \/ ~keepRunning)
    /\ opNum2' = 7
    /\ Loop("word")
    /\ UNCHANGED fArg1_cur2

CloseFile2 ==
    /\ NextRequest /\ (fpga2_req.cmd = 4 \/ ~keepRunning)
    /\ opNum2' = 6
    /\ Loop("word")
    /\ UNCHANGED fArg1_cur2

Filer2Step ==
    \/ SendOp2 \/ SelectFile2 \/ UnknownFile2 \/ OpenFile2 \/ OpenNothing2 \/ WaitForRequest2
    \/ RepeatOp2 \/ SendByte2 \/ SendNext2 \/ CloseFile2 \/ Faults

=============================================================================
