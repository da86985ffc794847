------------------------------- MODULE HdmiI2C -------------------------------
(***************************************************************************)
(* The configuration of the HDMI transmitter: I2C_HDMI_Config.v walks       *)
(* through a table and hands each entry to I2C_WRITE_WDATA.v, which sends   *)
(* it as three bytes.  Both run at the edges of mI2C_CTRL_CLK and exchange  *)
(* mI2C_GO and END_OK, and each sees the other as it was before the edge.   *)
(* The sender waits for GO to be down before it begins, and takes the bytes *)
(* of the entry from mI2C_DATA one after the other as it comes to them.     *)
(*                                                                          *)
(* The transmitter is external: it acknowledges a byte or does not, takes   *)
(* the third byte for the register the second one names, and hears nothing  *)
(* after a byte it has not acknowledged.  Entry e of the table is the       *)
(* number e: as the second byte its register, as the third its value.  The  *)
(* lines themselves and READY, a copy of where LUT_INDEX is, are left out.  *)
(***************************************************************************)
EXTENDS Integers

CONSTANTS
    LUT_SIZE,       \* entries of the table (31)
    Bits,           \* clock pulses of a byte and its acknowledge (9)
    MaxNacks,       \* bound: bytes that are not acknowledged
    MaxInts,        \* bound: interrupts of the transmitter
    MaxHdmiResets   \* bound: presses of the reset key

ASSUME HdmiAssumption ==
    /\ LUT_SIZE \in Nat \ {0, 1} /\ Bits \in Nat \ {0, 1}
    /\ MaxNacks \in Nat /\ MaxInts \in Nat /\ MaxHdmiResets \in Nat

VARIABLES
    LUT_INDEX, mSetup_ST, mI2C_GO, mI2C_DATA,   \* the table's walker
    ST, CNT, BYTE, A, END_OK, ACK_OK,           \* the sender; A: the byte it sends
    hears,          \* the transmitter: bytes it has acknowledged since the start, or Deaf
    named,          \* the register it was given
    regs,           \* the value of each register
    nacks, ints, hdmiResets

walkerVars == <<LUT_INDEX, mSetup_ST, mI2C_GO, mI2C_DATA>>
senderVars == <<ST, CNT, BYTE, A, END_OK, ACK_OK>>
chipVars == <<hears, named, regs>>
hdmiVars == <<walkerVars, senderVars, chipVars, nacks, ints, hdmiResets>>

Entries == 0..(LUT_SIZE - 1)
Unset == LUT_SIZE
Deaf == 4

HdmiInit ==
    /\ LUT_INDEX = 0 /\ mSetup_ST = 0 /\ mI2C_GO = FALSE /\ mI2C_DATA = 0
    /\ ST = 0 /\ CNT = 0 /\ BYTE = 0 /\ A = 0 /\ END_OK = FALSE /\ ACK_OK = FALSE
    /\ hears = 0 /\ named = 0 /\ regs = [e \in Entries |-> Unset]
    /\ nacks = 0 /\ ints = 0 /\ hdmiResets = 0

----------------------------------------------------------------------------
(* The walker. *)

Offer ==
    /\ LUT_INDEX < LUT_SIZE /\ mSetup_ST = 0
    /\ mI2C_DATA' = LUT_INDEX
    /\ mI2C_GO' = TRUE
    /\ mSetup_ST' = 1
    /\ UNCHANGED <<LUT_INDEX, ints>>

\* Mutant of Await: an entry counts as sent whether it was acknowledged or not.
AwaitEnd ==
    /\ LUT_INDEX < LUT_SIZE /\ mSetup_ST = 1
    /\ \/ END_OK /\ mSetup_ST' = 2 /\ mI2C_GO' = FALSE
       \/ ~END_OK /\ UNCHANGED <<mSetup_ST, mI2C_GO>>
    /\ UNCHANGED <<LUT_INDEX, mI2C_DATA, ints>>

\* An entry that was not acknowledged is offered again, without limit.
Await ==
    /\ LUT_INDEX < LUT_SIZE /\ mSetup_ST = 1
    /\ \/ END_OK /\ mSetup_ST' = (IF ACK_OK THEN 0 ELSE 2) /\ mI2C_GO' = FALSE
       \/ ~END_OK /\ UNCHANGED <<mSetup_ST, mI2C_GO>>
    /\ UNCHANGED <<LUT_INDEX, mI2C_DATA, ints>>

Advance ==
    /\ LUT_INDEX < LUT_SIZE /\ mSetup_ST = 2
    /\ LUT_INDEX' = LUT_INDEX + 1
    /\ mSetup_ST' = 0
    /\ UNCHANGED <<mI2C_GO, mI2C_DATA, ints>>

\* At the end of the table; an interrupt of the transmitter has it sent again.
Finished ==
    /\ LUT_INDEX = LUT_SIZE
    /\ \/ ints < MaxInts /\ ints' = ints + 1 /\ LUT_INDEX' = 0
       \/ UNCHANGED <<ints, LUT_INDEX>>
    /\ UNCHANGED <<mSetup_ST, mI2C_GO, mI2C_DATA>>

Walk == Offer \/ Await \/ Advance \/ Finished

----------------------------------------------------------------------------
(* The sender. *)

SenderIdle ==
    /\ ST = 0
    /\ ST' = IF mI2C_GO THEN 30 ELSE 0
    /\ ACK_OK' = FALSE /\ END_OK' = TRUE
    /\ CNT' = 0 /\ BYTE' = 0
    /\ UNCHANGED <<A, chipVars, nacks>>

\* It goes on when GO is down: also when nothing is offered any more, so that after the end
\* of the table the last entry is sent again and again.
SenderReady ==
    /\ ST = 30
    /\ ST' = IF mI2C_GO THEN 30 ELSE 31
    /\ UNCHANGED <<CNT, BYTE, A, END_OK, ACK_OK, chipVars, nacks>>

\* Mutant of SenderBegins: the refusal of an entry stays.
SenderBeginsRefused ==
    /\ ST = 31 /\ ST' = 1
    /\ END_OK' = FALSE
    /\ UNCHANGED <<CNT, BYTE, A, ACK_OK, chipVars, nacks>>

SenderBegins ==
    /\ ST = 31 /\ ST' = 1
    /\ END_OK' = FALSE /\ ACK_OK' = FALSE
    /\ UNCHANGED <<CNT, BYTE, A, chipVars, nacks>>

\* The start: the address of the transmitter, which is the same in every entry.
SendStart ==
    /\ ST = 1 /\ ST' = 2
    /\ hears' = 0
    /\ UNCHANGED <<CNT, BYTE, A, END_OK, ACK_OK, named, regs, nacks>>

\* States 2 to 4: a bit is put on the line and clocked.
SendBit ==
    /\ ST \in 2..4 /\ ST' = ST + 1
    /\ CNT' = IF ST = 4 THEN CNT + 1 ELSE CNT
    /\ UNCHANGED <<BYTE, A, END_OK, ACK_OK, chipVars, nacks>>

BitEnds ==
    /\ ST = 5 /\ CNT # Bits
    /\ ST' = 2
    /\ UNCHANGED <<CNT, BYTE, A, END_OK, ACK_OK, chipVars, nacks>>

\* The transmitter takes the byte, or leaves the line alone.
Heard ==
    /\ hears # Deaf /\ hears' = hears + 1
    /\ named' = IF hears = 1 THEN A ELSE named
    /\ regs' = IF hears = 2 THEN [regs EXCEPT ![named] = A] ELSE regs
    /\ UNCHANGED <<ACK_OK, nacks>>

Missed ==
    /\ \/ hears = Deaf /\ UNCHANGED nacks
       \/ hears # Deaf /\ nacks < MaxNacks /\ nacks' = nacks + 1
    /\ hears' = Deaf
    /\ ACK_OK' = TRUE
    /\ UNCHANGED <<named, regs>>

\* Mutant of ByteEnds: the bits are not counted anew.
ByteEndsCounting ==
    /\ ST = 5 /\ CNT = Bits
    /\ \/ BYTE = 2 /\ ST' = 6 /\ UNCHANGED <<BYTE, A>>
       \/ BYTE < 2 /\ ST' = 2 /\ BYTE' = BYTE + 1 /\ A' = mI2C_DATA
    /\ Heard \/ Missed
    /\ UNCHANGED <<CNT, END_OK>>

ByteEnds ==
    /\ ST = 5 /\ CNT = Bits
    /\ \/ BYTE = 2 /\ ST' = 6 /\ UNCHANGED <<CNT, BYTE, A>>
       \/ BYTE < 2 /\ ST' = 2 /\ CNT' = 0 /\ BYTE' = BYTE + 1 /\ A' = mI2C_DATA
    /\ Heard \/ Missed
    /\ UNCHANGED END_OK

SendStop ==
    /\ ST \in 6..8 /\ ST' = ST + 1
    /\ UNCHANGED <<CNT, BYTE, A, END_OK, ACK_OK, chipVars, nacks>>

SenderEnds ==
    /\ ST = 9 /\ ST' = 30
    /\ END_OK' = TRUE /\ CNT' = 0 /\ BYTE' = 0
    /\ UNCHANGED <<A, ACK_OK, chipVars, nacks>>

Send ==
    \/ SenderIdle \/ SenderReady \/ SenderBegins \/ SendStart \/ SendBit \/ BitEnds
    \/ ByteEnds \/ SendStop \/ SenderEnds

----------------------------------------------------------------------------

ControlEdge == Walk /\ Send /\ UNCHANGED hdmiResets

\* iRST_N; of the sender only ST.
HdmiReset ==
    /\ hdmiResets < MaxHdmiResets /\ hdmiResets' = hdmiResets + 1
    /\ LUT_INDEX' = 0 /\ mSetup_ST' = 0 /\ mI2C_GO' = FALSE /\ ST' = 0
    /\ UNCHANGED <<mI2C_DATA, CNT, BYTE, A, END_OK, ACK_OK, chipVars, nacks, ints>>

HdmiNext == ControlEdge \/ HdmiReset
HdmiSpec == HdmiInit /\ [][HdmiNext]_hdmiVars

\* The clock runs.
HdmiFair == HdmiSpec /\ WF_hdmiVars(ControlEdge)

----------------------------------------------------------------------------

\* The state machines keep to their states, and the transmitter hears no more than three
\* bytes from one start to the next.
HdmiType ==
    /\ LUT_INDEX \in 0..LUT_SIZE /\ mSetup_ST \in 0..2 /\ mI2C_GO \in BOOLEAN
    /\ mI2C_DATA \in Entries
    /\ ST \in 0..9 \cup {30, 31} /\ CNT \in 0..Bits /\ BYTE \in 0..2
    /\ A \in Entries /\ END_OK \in BOOLEAN /\ ACK_OK \in BOOLEAN
    /\ hears \in 0..4 /\ named \in Entries
    /\ regs \in [Entries -> Entries \cup {Unset}]

\* What the walker has counted the transmitter has, each register its own value, although
\* an answer may be that of the entry before, bytes are lost, and the walker is thrown back
\* by interrupts and resets.  The first entry alone may be counted without having been
\* sent: END_OK is up before anything was sent.
CountedIsSet == \A e \in 1..(LUT_INDEX - 1) : regs[e] = e

\* The table comes to its end, and the transmitter is left as the table says, also after an
\* interrupt, in which the entry being sent is mixed with the first.
TableWritten == <>[](LUT_INDEX = LUT_SIZE /\ \A e \in 1..(LUT_SIZE - 1) : regs[e] = e)

=============================================================================
