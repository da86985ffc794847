---------------------------- MODULE HdmiI2C_proof ----------------------------
(***************************************************************************)
(* The configuration of the HDMI transmitter for every size of the table,   *)
(* every number of bytes that are not acknowledged, interrupts and resets.  *)
(***************************************************************************)
EXTENDS HdmiI2C, TLAPS

\* The sender by itself: END_OK is down while it sends; it has counted fewer pulses than a
\* byte has, until the last one; the transmitter has heard the bytes before the one being
\* sent, or has gone deaf, which the sender knows.
SenderInv ==
    /\ ST \in 1..9 => ~END_OK
    /\ ST \in {30, 31} => END_OK
    /\ ST \in {30, 31, 1} => CNT = 0 /\ BYTE = 0
    /\ ST \in 2..4 => CNT < Bits
    /\ ST = 5 => CNT \in 1..Bits
    /\ ST \in 2..5 => hears = BYTE \/ (hears = Deaf /\ ACK_OK)
    /\ ST \in 6..9 => hears = 3 \/ (hears = Deaf /\ ACK_OK)

\* The walker by itself.
WalkerInv ==
    /\ mI2C_GO <=> mSetup_ST = 1
    /\ mSetup_ST \in {1, 2} => LUT_INDEX < LUT_SIZE
    /\ mSetup_ST = 1 => mI2C_DATA = LUT_INDEX

\* Where the sender can be when the walker has taken an answer: at its start, so that the
\* next entry is there before its first byte is.  Behind the first entry, the sender is at
\* the entry that is offered, or the answer that stands is a refusal.
StepInv ==
    /\ mSetup_ST = 2 => ST \in {30, 1}
    /\ mSetup_ST = 0 /\ LUT_INDEX \in 1..(LUT_SIZE - 1) =>
          /\ ST \in {31, 1, 2} \/ (ST = 30 /\ ACK_OK)
          /\ BYTE = 0
    /\ mSetup_ST = 1 /\ LUT_INDEX > 0 => ST # 0 /\ (ST = 31 => ACK_OK)

\* Past the first entry, the bytes under way are those of one entry: after an interrupt
\* they may not be.
OneEntry ==
    LUT_INDEX > 0 =>
        /\ ST \in 2..9 /\ BYTE > 0 => A = mI2C_DATA
        /\ ST \in 2..5 /\ BYTE = 2 => hears = Deaf \/ named = A

\* An entry that was sent and not refused is set.
SentIsSet ==
    (mSetup_ST = 1 /\ LUT_INDEX > 0 /\ ST \in (6..9) \cup {30}) =>
        ACK_OK \/ regs[LUT_INDEX] = LUT_INDEX

TakenIsSet ==
    mSetup_ST = 2 /\ LUT_INDEX > 0 => regs[LUT_INDEX] = LUT_INDEX

HdmiInv ==
    /\ HdmiType /\ SenderInv /\ WalkerInv /\ StepInv /\ OneEntry
    /\ SentIsSet /\ TakenIsSet /\ CountedIsSet


----------------------------------------------------------------------------

SenderType ==
    /\ ST \in 0..9 \cup {30, 31} /\ CNT \in 0..Bits /\ BYTE \in 0..2
    /\ A \in Entries /\ END_OK \in BOOLEAN /\ ACK_OK \in BOOLEAN
    /\ hears \in 0..4 /\ named \in Entries
    /\ regs \in [Entries -> Entries \cup {Unset}]

WalkerType ==
    /\ LUT_INDEX \in 0..LUT_SIZE /\ mSetup_ST \in 0..2 /\ mI2C_GO \in BOOLEAN
    /\ mI2C_DATA \in Entries

LEMMA TypeSplits == HdmiType <=> WalkerType /\ SenderType
  BY DEF HdmiType, WalkerType, SenderType

LEMMA HdmiInitHolds == HdmiInit => HdmiInv
  <1> SUFFICES ASSUME HdmiInit PROVE HdmiInv
    OBVIOUS
  <1> USE HdmiAssumption DEF HdmiAssumption, HdmiInit
  <1>1. HdmiType
    <2>1. mI2C_GO \in BOOLEAN /\ END_OK \in BOOLEAN /\ ACK_OK \in BOOLEAN
      BY Zenon
    <2>2. regs \in [Entries -> Entries \cup {Unset}]
      BY DEF Entries, Unset
    <2> QED BY <2>1, <2>2 DEF HdmiType, Entries
  <1>2. SenderInv /\ WalkerInv /\ StepInv
    BY DEF SenderInv, WalkerInv, StepInv
  <1>3. OneEntry /\ SentIsSet /\ TakenIsSet /\ CountedIsSet
    BY DEF OneEntry, SentIsSet, TakenIsSet, CountedIsSet
  <1> QED BY <1>1, <1>2, <1>3 DEF HdmiInv

LEMMA WalkKeeps ==
    ASSUME WalkerType, WalkerInv, Walk
    PROVE  WalkerType' /\ WalkerInv'
  <1> USE HdmiAssumption DEF HdmiAssumption, WalkerType, WalkerInv, Entries
  <1>1. CASE Offer
    <2>1. mI2C_GO'
      BY <1>1, Zenon DEF Offer
    <2>2. /\ LUT_INDEX < LUT_SIZE /\ mSetup_ST' = 1
          /\ mI2C_DATA' = LUT_INDEX /\ LUT_INDEX' = LUT_INDEX
      BY <1>1 DEF Offer
    <2>3. mI2C_GO' \in BOOLEAN
      BY <1>1, Zenon DEF Offer
    <2> QED BY <2>1, <2>2, <2>3
  <1>2. CASE Await
    <2>1. LUT_INDEX < LUT_SIZE /\ LUT_INDEX' = LUT_INDEX /\ mI2C_DATA' = mI2C_DATA
      BY <1>2 DEF Await
    <2>2. CASE END_OK
      <3>1. mI2C_GO' = FALSE
        BY <1>2, <2>2, Zenon DEF Await
      <3>2. mSetup_ST' \in {0, 2}
        BY <1>2, <2>2 DEF Await
      <3>3. ~mI2C_GO' /\ mI2C_GO' \in BOOLEAN
        BY <3>1, Zenon
      <3> QED BY <2>1, <3>2, <3>3
    <2>3. CASE ~END_OK
      <3>1. mSetup_ST' = mSetup_ST /\ mI2C_GO' = mI2C_GO
        BY <1>2, <2>3 DEF Await
      <3> QED BY <2>1, <3>1
    <2> QED BY <2>2, <2>3
  <1>3. CASE Advance
    BY <1>3 DEF Advance
  <1>4. CASE Finished
    BY <1>4 DEF Finished
  <1> QED BY <1>1, <1>2, <1>3, <1>4 DEF Walk

LEMMA ByteEndsKeeps ==
    ASSUME SenderType, SenderInv, ByteEnds, mI2C_DATA \in Entries
    PROVE  SenderType' /\ SenderInv'
  <1> USE HdmiAssumption DEF HdmiAssumption, SenderType, SenderInv, Entries, Deaf, Unset
  <1>1. ST = 5 /\ ST' \in {2, 6}
    BY DEF ByteEnds
  <1>2. ST' \in 0..9 \cup {30, 31} /\ CNT' \in 0..Bits /\ BYTE' \in 0..2 /\ A' \in Entries
    BY DEF ByteEnds
  <1>3. END_OK' = END_OK /\ ~END_OK
    BY <1>1 DEF ByteEnds
  <1>4. CASE Heard
    <2>1. hears \in 0..2 /\ hears = BYTE /\ hears' = BYTE + 1
      BY <1>1, <1>4 DEF Heard
    <2>2. named' \in Entries /\ regs' \in [Entries -> Entries \cup {Unset}]
      BY <1>4 DEF Heard
    <2>3. ACK_OK' = ACK_OK
      BY <1>4 DEF Heard
    <2> QED BY <1>1, <1>2, <1>3, <2>1, <2>2, <2>3 DEF ByteEnds
  <1>5. CASE Missed
    <2>1. hears' = Deaf /\ named' = named /\ regs' = regs
      BY <1>5 DEF Missed
    <2>2. ACK_OK'
      BY <1>5 DEF Missed
    <2> QED BY <1>1, <1>2, <1>3, <2>1, <2>2 DEF ByteEnds
  <1> QED BY <1>4, <1>5 DEF ByteEnds

LEMMA SendKeeps ==
    ASSUME SenderType, SenderInv, Send, mI2C_DATA \in Entries
    PROVE  SenderType' /\ SenderInv'
  <1> USE HdmiAssumption DEF HdmiAssumption, SenderType, SenderInv, chipVars
  <1>1. CASE SenderIdle
    <2>1. END_OK' /\ END_OK' \in BOOLEAN /\ ACK_OK' \in BOOLEAN
      BY <1>1, Zenon DEF SenderIdle
    <2>2. ST' \in {0, 30} /\ CNT' = 0 /\ BYTE' = 0
      BY <1>1 DEF SenderIdle
    <2> QED BY <1>1, <2>1, <2>2 DEF SenderIdle
  <1>2. CASE SenderReady
    BY <1>2 DEF SenderReady
  <1>3. CASE SenderBegins
    <2>1. ~END_OK' /\ END_OK' \in BOOLEAN /\ ACK_OK' \in BOOLEAN
      BY <1>3, Zenon DEF SenderBegins
    <2>2. ST = 31 /\ ST' = 1 /\ CNT' = 0 /\ BYTE' = 0
      BY <1>3 DEF SenderBegins
    <2> QED BY <1>3, <2>1, <2>2 DEF SenderBegins
  <1>4. CASE SendStart
    BY <1>4 DEF SendStart
  <1>5. CASE SendBit
    BY <1>5 DEF SendBit
  <1>6. CASE BitEnds
    BY <1>6 DEF BitEnds
  <1>7. CASE ByteEnds
    BY <1>7, ByteEndsKeeps
  <1>8. CASE SendStop
    BY <1>8 DEF SendStop
  <1>9. CASE SenderEnds
    BY <1>9 DEF SenderEnds
  <1> QED BY <1>1, <1>2, <1>3, <1>4, <1>5, <1>6, <1>7, <1>8, <1>9 DEF Send

\* The steps of the sender, from one state to the next.
LEMMA SenderMoves ==
    ASSUME Send
    PROVE  /\ ST = 0 => ST' = (IF mI2C_GO THEN 30 ELSE 0) /\ BYTE' = 0
           /\ ST = 30 => ST' = (IF mI2C_GO THEN 30 ELSE 31) /\ BYTE' = BYTE /\ ACK_OK' = ACK_OK
           /\ ST = 31 => ST' = 1 /\ BYTE' = BYTE
           /\ ST = 1 => ST' = 2 /\ BYTE' = BYTE
           /\ ST \in (2..4) \cup (6..8) =>
                 ST' = ST + 1 /\ BYTE' = BYTE /\ A' = A /\ hears' = hears /\ ACK_OK' = ACK_OK
           /\ ST = 5 => ST' \in {2, 6}
           /\ ST = 9 => ST' = 30 /\ BYTE' = 0 /\ ACK_OK' = ACK_OK
           /\ ST # 5 => named' = named /\ regs' = regs
  <1> USE DEF chipVars
  <1>1. CASE SenderIdle
    BY <1>1 DEF SenderIdle
  <1>2. CASE SenderReady
    BY <1>2 DEF SenderReady
  <1>3. CASE SenderBegins
    BY <1>3 DEF SenderBegins
  <1>4. CASE SendStart
    BY <1>4 DEF SendStart
  <1>5. CASE SendBit
    BY <1>5 DEF SendBit
  <1>6. CASE BitEnds
    BY <1>6 DEF BitEnds
  <1>7. CASE ByteEnds
    BY <1>7 DEF ByteEnds
  <1>8. CASE SendStop
    BY <1>8 DEF SendStop
  <1>9. CASE SenderEnds
    BY <1>9 DEF SenderEnds
  <1> QED BY <1>1, <1>2, <1>3, <1>4, <1>5, <1>6, <1>7, <1>8, <1>9 DEF Send

\* The end of a byte: what the sender and the transmitter have then.
LEMMA ByteMoves ==
    ASSUME SenderType, SenderInv, Send, ST = 5
    PROVE  \/ /\ ST' = 2 /\ BYTE' = BYTE /\ A' = A /\ hears' = hears
              /\ named' = named /\ regs' = regs
           \/ /\ ST' = IF BYTE = 2 THEN 6 ELSE 2
              /\ BYTE < 2 => BYTE' = BYTE + 1 /\ A' = mI2C_DATA
              /\ BYTE = 2 => BYTE' = BYTE /\ A' = A
              /\ \/ /\ hears = BYTE
                    /\ named' = IF BYTE = 1 THEN A ELSE named
                    /\ regs' = IF BYTE = 2 THEN [regs EXCEPT ![named] = A] ELSE regs
                 \/ hears' = Deaf /\ ACK_OK' /\ named' = named /\ regs' = regs
  <1> USE DEF chipVars
  <1>1. BitEnds \/ ByteEnds
    BY DEF Send, SenderIdle, SenderReady, SenderBegins, SendStart, SendBit, SendStop, SenderEnds
  <1>2. CASE BitEnds
    BY <1>2 DEF BitEnds
  <1>3. CASE ByteEnds
    <2>1. /\ ST' = IF BYTE = 2 THEN 6 ELSE 2
          /\ BYTE < 2 => BYTE' = BYTE + 1 /\ A' = mI2C_DATA
          /\ BYTE = 2 => BYTE' = BYTE /\ A' = A
      BY <1>3 DEF ByteEnds, SenderType
    <2>2. CASE Heard
      <3>1. hears = BYTE
        BY <2>2 DEF Heard, SenderInv, SenderType
      <3> QED BY <2>1, <2>2, <3>1 DEF Heard
    <2>3. CASE Missed
      <3>1. ACK_OK'
        BY <2>3, Zenon DEF Missed
      <3> QED BY <2>1, <2>3, <3>1 DEF Missed
    <2> QED BY <1>3, <2>2, <2>3 DEF ByteEnds
  <1> QED BY <1>1, <1>2, <1>3

LEMMA StepInvKept ==
    ASSUME HdmiType, SenderInv, WalkerInv, StepInv, Walk, Send
    PROVE  StepInv'
  <1> USE HdmiAssumption, SenderMoves DEF HdmiAssumption, HdmiType, WalkerInv
  <1>1. CASE Offer
    <2>1. mSetup_ST' = 1 /\ LUT_INDEX' = LUT_INDEX /\ mSetup_ST = 0 /\ LUT_INDEX < LUT_SIZE
      BY <1>1 DEF Offer
    <2>2. LUT_INDEX > 0 => ST' # 0 /\ (ST' = 31 => ACK_OK')
      BY <2>1 DEF StepInv
    <2> QED BY <2>1, <2>2 DEF StepInv
  <1>2. CASE Await
    <2>1. mSetup_ST = 1 /\ mI2C_GO /\ LUT_INDEX' = LUT_INDEX
      BY <1>2 DEF Await
    <2>2. CASE END_OK
      <3>1. ST \in {0, 30, 31}
        BY <2>2 DEF SenderInv
      <3>2. ST' \in {30, 1}
        BY <2>1, <3>1
      <3>3. mSetup_ST' \in {0, 2} /\ (mSetup_ST' = 0 => ACK_OK)
        BY <1>2, <2>2 DEF Await
      <3>4. LUT_INDEX > 0 => BYTE' = 0 /\ (ST' = 30 => ACK_OK' = ACK_OK)
        BY <2>1, <3>1 DEF StepInv, SenderInv
      <3> QED BY <2>1, <3>2, <3>3, <3>4 DEF StepInv
    <2>3. CASE ~END_OK
      <3>1. mSetup_ST' = 1
        BY <1>2, <2>3 DEF Await
      <3>2. ST \in 0..9
        BY <2>3 DEF SenderInv
      <3>3. LUT_INDEX > 0 => ST' \in 1..9 \cup {30}
        BY <2>1, <3>2 DEF StepInv
      <3> QED BY <2>1, <3>1, <3>3 DEF StepInv
    <2> QED BY <2>2, <2>3
  <1>3. CASE Advance
    <2>1. mSetup_ST = 2 /\ mSetup_ST' = 0 /\ ST \in {30, 1} /\ BYTE = 0
      BY <1>3 DEF Advance, StepInv, SenderInv
    <2>2. ST' \in {31, 2} /\ BYTE' = 0
      BY <2>1
    <2> QED BY <2>1, <2>2 DEF StepInv
  <1>4. CASE Finished
    <2>1. mSetup_ST = 0 /\ mSetup_ST' = 0 /\ LUT_INDEX' \in {0, LUT_SIZE}
      BY <1>4 DEF Finished
    <2> QED BY <2>1 DEF StepInv
  <1> QED BY <1>1, <1>2, <1>3, <1>4 DEF Walk

\* When the walker offers an entry behind the first, or has just counted one, no byte of an
\* entry is under way.
LEMMA NothingUnderWay ==
    ASSUME HdmiType, SenderInv, WalkerInv, StepInv, Send,
           Advance \/ (Offer /\ LUT_INDEX > 0)
    PROVE  ST' \in {31, 1, 2, 3} /\ BYTE' = 0 /\ regs' = regs
  <1> USE HdmiAssumption, SenderMoves DEF HdmiAssumption, HdmiType, WalkerInv
  <1>1. ~mI2C_GO /\ ST \in {31, 1, 2, 30} /\ BYTE = 0
    BY DEF Advance, Offer, StepInv, SenderInv
  <1> QED BY <1>1

LEMMA OneEntryKept ==
    ASSUME HdmiType, SenderInv, WalkerInv, StepInv, OneEntry, Walk, Send
    PROVE  OneEntry'
  <1> USE HdmiAssumption DEF HdmiAssumption, HdmiType
  <1>1. CASE Advance \/ (Offer /\ LUT_INDEX > 0)
    BY <1>1, NothingUnderWay DEF OneEntry
  <1>2. CASE LUT_INDEX' = 0
    BY <1>2 DEF OneEntry
  <1>3. CASE /\ ~Advance /\ ~(Offer /\ LUT_INDEX > 0)
             /\ LUT_INDEX' # 0
    <2>1. LUT_INDEX > 0 /\ mI2C_DATA' = mI2C_DATA
      BY <1>3 DEF Walk, Offer, Await, Finished
    <2>2. CASE ST = 5
      <3>1. SenderType
        BY DEF SenderType
      <3>2. /\ BYTE > 0 => A = mI2C_DATA
            /\ BYTE = 2 => hears = Deaf \/ named = A
        BY <2>1, <2>2 DEF OneEntry
      <3>3. ST' \in 2..9 /\ BYTE' > 0 => A' = mI2C_DATA
        BY <2>1, <2>2, <3>1, <3>2, ByteMoves
      <3>4. ST' \in 2..5 /\ BYTE' = 2 => hears' = Deaf \/ named' = A'
        BY <2>1, <2>2, <3>1, <3>2, ByteMoves
      <3> QED BY <2>1, <3>3, <3>4 DEF OneEntry
    <2>3. CASE ST # 5
      <3>1. BYTE' = 0 \/ ST' \in {0, 30, 31, 1} \/ ST \in (2..4) \cup (6..8)
        BY <2>3, SenderMoves DEF SenderInv
      <3>2. CASE BYTE' = 0 \/ ST' \in {0, 30, 31, 1}
        BY <3>2 DEF OneEntry
      <3>3. CASE ST \in (2..4) \cup (6..8)
        <4>1. /\ ST' = ST + 1 /\ BYTE' = BYTE /\ A' = A /\ hears' = hears /\ named' = named
          BY <2>3, <3>3, SenderMoves
        <4> QED BY <2>1, <3>3, <4>1 DEF OneEntry
      <3> QED BY <3>1, <3>2, <3>3
    <2> QED BY <2>2, <2>3
  <1> QED BY <1>1, <1>2, <1>3

LEMMA SentIsSetKept ==
    ASSUME HdmiType, SenderInv, WalkerInv, StepInv, OneEntry, SentIsSet, Walk, Send
    PROVE  SentIsSet'
  <1> USE HdmiAssumption DEF HdmiAssumption, HdmiType
  <1> SUFFICES ASSUME mSetup_ST' = 1, LUT_INDEX' > 0, ST' \in (6..9) \cup {30}
               PROVE  ACK_OK' \/ regs'[LUT_INDEX'] = LUT_INDEX'
    BY DEF SentIsSet
  <1>1. ~(Advance \/ (Offer /\ LUT_INDEX > 0))
    BY NothingUnderWay
  <1>2. /\ mSetup_ST = 1 /\ ~END_OK /\ LUT_INDEX' = LUT_INDEX
        /\ LUT_INDEX > 0 /\ mI2C_DATA = LUT_INDEX
    BY <1>1 DEF Walk, Offer, Await, Finished, WalkerInv
  <1>3. ST \in 1..9
    BY <1>2 DEF SenderInv, StepInv
  <1>4. CASE ST = 5
    <2>1. SenderType
      BY DEF SenderType
    <2>2. BYTE = 2
      BY <1>4, <2>1, ByteMoves
    <2>3. A = LUT_INDEX /\ (hears = Deaf \/ named = LUT_INDEX)
      BY <1>2, <1>4, <2>2 DEF OneEntry
    <2>4. ACK_OK' \/ (hears = 2 /\ regs' = [regs EXCEPT ![named] = A])
      BY <1>4, <2>1, <2>2, ByteMoves
    <2>5. named = LUT_INDEX /\ A = LUT_INDEX /\ named \in Entries
             => [regs EXCEPT ![named] = A][LUT_INDEX] = LUT_INDEX
      OBVIOUS
    <2> QED BY <1>2, <2>3, <2>4, <2>5 DEF Deaf
  <1>5. CASE ST # 5
    <2>1. ST \in 6..9
      BY <1>3, <1>5, SenderMoves
    <2>2. ACK_OK' = ACK_OK /\ regs' = regs
      BY <1>5, <2>1, SenderMoves
    <2> QED BY <1>2, <2>1, <2>2 DEF SentIsSet
  <1> QED BY <1>4, <1>5

LEMMA TakenIsSetKept ==
    ASSUME HdmiType, SenderInv, WalkerInv, StepInv, SentIsSet, TakenIsSet, Walk, Send
    PROVE  TakenIsSet'
  <1> USE HdmiAssumption DEF HdmiAssumption, HdmiType
  <1> SUFFICES ASSUME mSetup_ST' = 2, LUT_INDEX' > 0
               PROVE  regs'[LUT_INDEX'] = LUT_INDEX'
    BY DEF TakenIsSet
  <1>1. mSetup_ST = 1 /\ END_OK /\ ~ACK_OK /\ LUT_INDEX' = LUT_INDEX
    BY DEF Walk, Offer, Await, Advance, Finished, WalkerInv
  <1>2. ST = 30
    BY <1>1 DEF SenderInv, StepInv
  <1>3. regs' = regs
    BY <1>2, SenderMoves
  <1> QED BY <1>1, <1>2, <1>3 DEF SentIsSet

LEMMA CountedIsSetKept ==
    ASSUME HdmiType, SenderInv, WalkerInv, StepInv, OneEntry, TakenIsSet, CountedIsSet,
           Walk, Send
    PROVE  CountedIsSet'
  <1> USE HdmiAssumption DEF HdmiAssumption, HdmiType
  <1>1. CASE Advance
    <2>1. LUT_INDEX' = LUT_INDEX + 1 /\ mSetup_ST = 2
      BY <1>1 DEF Advance
    <2>2. regs' = regs
      BY <1>1, NothingUnderWay
    <2>3. SUFFICES ASSUME NEW e \in 1..LUT_INDEX PROVE regs[e] = e
      BY <2>1, <2>2 DEF CountedIsSet
    <2> QED BY <2>1 DEF TakenIsSet, CountedIsSet
  <1>2. CASE ~Advance
    <2>1. LUT_INDEX' \in {0, LUT_INDEX}
      BY <1>2 DEF Walk, Offer, Await, Finished
    <2>2. CASE LUT_INDEX' = 0
      BY <2>2 DEF CountedIsSet
    <2>3. CASE LUT_INDEX' = LUT_INDEX /\ LUT_INDEX > 0
      <3>1. regs' = regs \/ (regs' = [regs EXCEPT ![named] = A] /\ named = A)
        <4>1. CASE ST = 5
          <5>1. SenderType
            BY DEF SenderType
          <5>2. regs' = regs \/ (BYTE = 2 /\ hears = BYTE /\ regs' = [regs EXCEPT ![named] = A])
            BY <4>1, <5>1, ByteMoves
          <5>3. BYTE = 2 /\ hears = BYTE => named = A
            BY <2>3, <4>1 DEF OneEntry, Deaf
          <5> QED BY <5>2, <5>3, Zenon
        <4>2. ST # 5 => regs' = regs
          BY SenderMoves
        <4> QED BY <4>1, <4>2, Zenon
      <3>2. SUFFICES ASSUME NEW e \in 1..(LUT_INDEX - 1) PROVE regs'[e] = e
        BY <2>3 DEF CountedIsSet
      <3>3. e \in Entries /\ regs[e] = e
        BY DEF CountedIsSet, Entries
      <3> QED BY <3>1, <3>3
    <2> QED BY <2>1, <2>2, <2>3
  <1> QED BY <1>1, <1>2

----------------------------------------------------------------------------

LEMMA EdgeKeeps == HdmiInv /\ ControlEdge => HdmiInv'
  <1> SUFFICES ASSUME HdmiInv, ControlEdge PROVE HdmiInv'
    OBVIOUS
  <1> USE DEF HdmiInv
  <1>1. Walk /\ Send
    BY DEF ControlEdge
  <1>2. WalkerType /\ SenderType /\ mI2C_DATA \in Entries
    BY TypeSplits DEF HdmiType
  <1>3. WalkerType' /\ WalkerInv'
    BY <1>1, <1>2, WalkKeeps
  <1>4. SenderType' /\ SenderInv'
    BY <1>1, <1>2, SendKeeps
  <1>5. HdmiType'
    BY <1>3, <1>4 DEF HdmiType, WalkerType, SenderType
  <1>6. StepInv' /\ OneEntry'
    BY <1>1, StepInvKept, OneEntryKept
  <1>7. SentIsSet' /\ TakenIsSet' /\ CountedIsSet'
    BY <1>1, SentIsSetKept, TakenIsSetKept, CountedIsSetKept
  <1> QED BY <1>3, <1>4, <1>5, <1>6, <1>7

LEMMA ResetKeeps == HdmiInv /\ HdmiReset => HdmiInv'
  <1> SUFFICES ASSUME HdmiInv, HdmiReset PROVE HdmiInv'
    OBVIOUS
  <1> USE HdmiAssumption DEF HdmiAssumption, HdmiInv, chipVars
  <1>1. LUT_INDEX' = 0 /\ mSetup_ST' = 0 /\ ST' = 0
    BY DEF HdmiReset
  <1>2. ~mI2C_GO' /\ mI2C_GO' \in BOOLEAN
    BY Zenon DEF HdmiReset
  <1>3. WalkerType'
    BY <1>1, <1>2 DEF HdmiReset, HdmiType, WalkerType
  <1>4. SenderType'
    BY <1>1 DEF HdmiReset, HdmiType, SenderType
  <1>5. HdmiType'
    BY <1>3, <1>4 DEF HdmiType, WalkerType, SenderType
  <1>6. SenderInv' /\ WalkerInv' /\ StepInv'
    BY <1>1, <1>2 DEF SenderInv, WalkerInv, StepInv
  <1>7. OneEntry' /\ SentIsSet' /\ TakenIsSet' /\ CountedIsSet'
    BY <1>1 DEF OneEntry, SentIsSet, TakenIsSet, CountedIsSet
  <1> QED BY <1>5, <1>6, <1>7

LEMMA StutterKeepsHdmi == HdmiInv /\ UNCHANGED hdmiVars => HdmiInv'
  BY DEF HdmiInv, HdmiType, SenderInv, WalkerInv, StepInv, OneEntry, SentIsSet, TakenIsSet,
         CountedIsSet, hdmiVars, walkerVars, senderVars, chipVars

\* The inductive invariant: the state machines' states, where the sender is while the walker
\* moves on, and that past the first entry the bytes under way are of one entry.
THEOREM HdmiInvariant == HdmiSpec => []HdmiInv
  <1>1. HdmiInv /\ [HdmiNext]_hdmiVars => HdmiInv'
    BY EdgeKeeps, ResetKeeps, StutterKeepsHdmi DEF HdmiNext
  <1> QED BY HdmiInitHolds, <1>1, PTL DEF HdmiSpec

\* The walker never leaves its table, the sender never counts past a byte, and the
\* transmitter never hears a fourth byte.
THEOREM HdmiTypeCorrect == HdmiSpec => []HdmiType
  <1>1. HdmiInv => HdmiType
    BY DEF HdmiInv
  <1> QED BY HdmiInvariant, <1>1, PTL

\* An entry that was counted, but for the first, stands in its register: whatever the size
\* of the table, the number of lost bytes, and the moments of interrupts and resets.
THEOREM CountedEntriesAreSet == HdmiSpec => []CountedIsSet
  <1>1. HdmiInv => CountedIsSet
    BY DEF HdmiInv
  <1> QED BY HdmiInvariant, <1>1, PTL

=============================================================================
