------------------------------ MODULE HpsMain -------------------------------
(***************************************************************************)
(* The main loop of SpaceInvaders_controller.cpp: it answers the requests   *)
(* it reads from fpga_cmd and fpga_data.  Every access to the bridge is a   *)
(* step of its own, because the FPGA runs between any two of them; what     *)
(* the program computes between two accesses belongs to the earlier one.    *)
(*                                                                          *)
(* fArg1 is compared as it is read, so only fArg1_cur is kept.              *)
(*                                                                          *)
(* pc:  "op"    write the operation number   (line 479)                     *)
(*      "data"  queue the operation's data   (480)                          *)
(*      "cmd"   read the request             (484)                          *)
(*      "arg"   read its argument, and serve it (485, 495-775)              *)
(*      "byteOp", "byte"   send the byte the FPGA asks for (611-613)        *)
(*      "nextCmd", "nextArg"  read the next request of an open file         *)
(*              (616-617, 635-636)                                          *)
(*      "exit"  the process is not running                                  *)
(***************************************************************************)
EXTENDS Bridge

VARIABLES pc, opNum, hData, fCmd, fArg1_cur, filenameSel, mounted

hpsVars == <<pc, opNum, hData, fCmd, fArg1_cur, filenameSel, mounted>>

HpsInit ==
    /\ pc = "exit"
    /\ opNum = 0
    /\ hData = 0
    /\ fCmd = 0
    /\ fArg1_cur = 0
    /\ filenameSel = 0
    /\ mounted = FALSE

HpsType ==
    /\ pc \in {"op", "data", "cmd", "arg", "byteOp", "byte", "nextCmd", "nextArg", "exit"}
    /\ opNum \in {0, 1, 2, 6, 7, 8, 9}
    /\ hData \in Nat
    /\ fCmd \in {0, 1, 4, 5, 6, 31}
    /\ fArg1_cur \in Nat
    /\ filenameSel \in {0} \cup Files
    /\ mounted \in BOOLEAN

\* The program images are in ROM_DIR.  They are all there or none is.
MountCard ==
    /\ ~mounted
    /\ mounted' = TRUE
    /\ UNCHANGED <<bridgeVars, pc, opNum, hData, fCmd, fArg1_cur, filenameSel>>

\* A process started by hand, the first time or after one that ended.
StartProcess ==
    /\ pc' = "op"
    /\ opNum' = 1
    /\ hData' = 0
    /\ filenameSel' = 0
    /\ UNCHANGED <<bridgeVars, fCmd, fArg1_cur, mounted>>

WriteOp ==
    /\ pc = "op"
    /\ filer_cmd' = opNum
    /\ pc' = "data"
    /\ UNCHANGED <<fifo0, fpga_cmd, fpga_data, opNum, hData, fCmd, fArg1_cur,
                   filenameSel, mounted>>

WriteData ==
    /\ pc = "data"
    /\ Push(Number(IF opNum = 1 THEN 670 ELSE hData))
    /\ pc' = "cmd"
    /\ UNCHANGED <<filer_cmd, fpga_cmd, fpga_data, opNum, hData, fCmd, fArg1_cur,
                   filenameSel, mounted>>

ReadCmd ==
    /\ \/ pc = "cmd" /\ pc' = "arg"
       \/ pc = "nextCmd" /\ pc' = "nextArg"
    /\ fCmd' = fpga_cmd
    /\ UNCHANGED <<bridgeVars, opNum, hData, fArg1_cur, filenameSel, mounted>>

----------------------------------------------------------------------------
(* One action per request, taken as the argument is read. *)

ReadArg ==
    /\ pc = "arg"
    /\ UNCHANGED <<bridgeVars, fCmd, mounted>>

CountFiles ==
    /\ ReadArg /\ fCmd = 1
    /\ opNum' = 2
    /\ hData' = IF mounted THEN 4 ELSE 0
    /\ pc' = "op"
    /\ UNCHANGED <<fArg1_cur, filenameSel>>

\* The numbers this loop has a name for; the sounds 5 to 8 are channel 2's.  A listed file that
\* is missing on the card is left out: the loop is stuck there.
Listed == RomFiles \cup (9..14)

SelectFile ==
    /\ ReadArg /\ fCmd = 6 /\ fpga_data \in Listed \cap Files
    /\ filenameSel' = fpga_data
    /\ opNum' = 8
    /\ hData' = FileSize(fpga_data)
    /\ pc' = "op"
    /\ UNCHANGED fArg1_cur

\* "!!! ALERT: not file num %d existing" clears keepRunning, and the process ends.
UnknownFile ==
    /\ ReadArg /\ fCmd = 6 /\ fpga_data \notin Listed
    /\ pc' = "exit"
    /\ UNCHANGED <<opNum, hData, fArg1_cur, filenameSel>>

\* fArg1_cur = -1: the first byte is always sent.
OpenFile ==
    /\ ReadArg /\ fCmd = 31
    /\ opNum' = 9
    /\ fArg1_cur' = fpga_data
    /\ pc' = "byteOp"
    /\ UNCHANGED <<hData, filenameSel>>

WaitForRequest ==
    /\ ReadArg /\ fCmd = 5
    /\ opNum' = 7
    /\ pc' = "op"
    /\ UNCHANGED <<hData, fArg1_cur, filenameSel>>

\* Any other request is not served: the same operation is announced again.
RepeatOp ==
    /\ ReadArg /\ fCmd \notin {1, 5, 6, 31}
    /\ pc' = "op"
    /\ UNCHANGED <<opNum, hData, fArg1_cur, filenameSel>>

----------------------------------------------------------------------------
(* The loop that serves an open file. *)

WriteByteOp ==
    /\ pc = "byteOp"
    /\ filer_cmd' = 9
    /\ pc' = "byte"
    /\ UNCHANGED <<fifo0, fpga_cmd, fpga_data, opNum, hData, fCmd, fArg1_cur,
                   filenameSel, mounted>>

WriteByte ==
    /\ pc = "byte"
    /\ Push(Byte(filenameSel, fArg1_cur))
    /\ pc' = "nextCmd"
    /\ UNCHANGED <<filer_cmd, fpga_cmd, fpga_data, opNum, hData, fCmd, fArg1_cur,
                   filenameSel, mounted>>

NextArg ==
    /\ pc = "nextArg"
    /\ UNCHANGED <<bridgeVars, hData, fCmd, filenameSel, mounted>>

SendNext ==
    /\ NextArg /\ fCmd # 4 /\ fpga_data # fArg1_cur
    /\ opNum' = 9
    /\ fArg1_cur' = fpga_data
    /\ pc' = "byteOp"

Poll ==
    /\ NextArg /\ fCmd # 4 /\ fpga_data = fArg1_cur
    /\ opNum' = 9
    /\ pc' = "nextCmd"
    /\ UNCHANGED fArg1_cur

CloseFile ==
    /\ NextArg /\ fCmd = 4
    /\ opNum' = 6
    /\ pc' = "op"
    /\ UNCHANGED fArg1_cur

HpsStep ==
    \/ WriteOp \/ WriteData \/ ReadCmd
    \/ CountFiles \/ SelectFile \/ UnknownFile \/ OpenFile \/ WaitForRequest \/ RepeatOp
    \/ WriteByteOp \/ WriteByte \/ SendNext \/ Poll \/ CloseFile

=============================================================================
