------------------------------ MODULE BytePort -------------------------------
(***************************************************************************)
(* What the renderer may rely on when it reads the video memory through the *)
(* CPU: one request at a time, answered by the byte that was asked for, and  *)
(* the answer stays until the next request.                                 *)
(***************************************************************************)
EXTENDS Naturals

CONSTANT Bytes          \* number of bytes of the screen

NoByte == Bytes

VARIABLES
    asked,      \* the byte of the request in hand, NoByte when there is none
    answer      \* the byte last answered, NoByte before the first

portVars == <<asked, answer>>

PortInit == asked = NoByte /\ answer = NoByte

Ask(b) == asked = NoByte /\ asked' = b /\ UNCHANGED answer

Answer == asked # NoByte /\ answer' = asked /\ asked' = NoByte

PortNext == Answer \/ \E b \in 0..(Bytes - 1) : Ask(b)

PortSpec == PortInit /\ [][PortNext]_portVars /\ WF_portVars(Answer)

=============================================================================
