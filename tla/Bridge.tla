------------------------------- MODULE Bridge -------------------------------
(***************************************************************************)
(* The lightweight HPS-to-FPGA bridge, as far as channel 1 uses it: three   *)
(* parallel ports, which hold their last value and say nothing of when it   *)
(* was written, and one first-in first-out queue of words.  The HPS writes  *)
(* filer_cmd (HPS_CMD) and fifo0 (HPS_DATA) and reads fpga_cmd (FPGA_CMD)   *)
(* and fpga_data (FPGA_ARG1); the FPGA does the opposite.                   *)
(*                                                                          *)
(* A word is either a number or one byte of a file.                         *)
(***************************************************************************)
EXTENDS GameFiles, Sequences

CONSTANT FifoDepth      \* words the bridge queue holds (8 in soc_system)

ASSUME BridgeAssumption == FifoDepth \in Nat \ {0}

Word == [file : {0} \cup Files, at : Nat]
Number(n) == [file |-> 0, at |-> n]
Byte(f, p) == [file |-> f, at |-> p]

VARIABLES filer_cmd, fifo0, fpga_cmd, fpga_data

bridgeVars == <<filer_cmd, fifo0, fpga_cmd, fpga_data>>

BridgeInit ==
    /\ filer_cmd = 0
    /\ fifo0 = <<>>
    /\ fpga_cmd = 0
    /\ fpga_data = 0

BridgeType ==
    /\ filer_cmd \in 0..10
    /\ fifo0 \in Seq(Word)
    /\ fpga_cmd \in {0, 1, 4, 5, 6, 31}
    /\ fpga_data \in Nat

\* *((uint32_t *)(bridge + HPS_DATA)) = w : the write waits while the queue is full
Push(w) ==
    /\ Len(fifo0) < FifoDepth
    /\ fifo0' = Append(fifo0, w)

=============================================================================
