----------------------------- MODULE MCCpu8080 ------------------------------
(* Short programs that between them use every group of opcodes, between two *)
(* service routines that save, change and restore registers, flags and stack. *)
EXTENDS Cpu8080, Sequences, TLC

\* 0: LXI SP; EI; JMP 24.  8: PUSH PSW; INR A; POP PSW; EI; RET.
\* 16: PUSH H; XTHL; POP H; EI; RET.
Prologue == <<\h31, \h00, \h21, \hFB, \hC3, 24, 0, 0,
              \hF5, \h3C, \hF1, \hFB, \hC9, 0, 0, 0,
              \hE5, \hE3, \hE1, \hFB, \hC9, 0, 0, 0>>
Image(s) == [a \in 0..(Len(s) - 1) |-> s[a + 1]]
\* A loop, with interrupts enabled or not; the subroutine of some bodies is at 48.
Loop(prologue, body, subroutine) ==
    Image(prologue \o body \o <<\hC3, 24, 0>>
            \o [i \in 1..(21 - Len(body)) |-> 0] \o subroutine)
Interrupted(body, subroutine) == Loop(Prologue, body, subroutine)
Undisturbed(body, subroutine) == Loop([Prologue EXCEPT ![4] = 0], body, subroutine)

\* What an interrupt may come between: work on memory, stack, ports, and calls.
Disturbed == {
    <<\h21, \h20, \h20, \h36, \h7F, \h34, \h7E>>,
    <<\h21, \h20, \h20, \h36, \h80, \h35, \hA6, \h77>>,
    <<\h21, \h30, \h20, \h11, \h19, \h00, \h1A, \h12>>,
    <<\h2A, \h01, \h00, \h22, \h30, \h20, \h2A, \h30, \h20>>,
    <<\h3A, \h19, \h00, \h32, \h30, \h20, \h3A, \h30, \h20>>,
    <<\h01, \h34, \h12, \hC5, \hD1>>,
    <<\h3E, \hB5, \hD3, 4, \h3D>>,
    <<\h3E, \h9C, \h06, \h64, \h80, \h27>> }
DisturbedCalls == { <<<<\hAF, \hCD, 48, 0>>, <<\hC8>>>> }

Straight == {
    (* additions, with the decimal adjustment *)
    <<\h3E, \h9C, \h06, \h64, \h80, \h27, \h0E, \h05, \h81, \h16, \hFF, \h82, \h8A>>,
    (* logic, increments and decrements *)
    <<\h3E, \h6B, \h01, \h10, \hFF, \h16, \h01, \hA0, \hB0, \hA8, \h0C, \h04, \h15, \h3D>>,
    (* rotations, complement, comparison *)
    <<\h3E, \h81, \h07, \h0F, \h1F, \h2F, \h37, \h1F, \h78, \hB8, \h97>>,
    (* immediate arithmetic *)
    <<\hD6, \h01, \hDE, \h10, \hC6, \h90, \hE6, \h7E, \hF6, \h80, \hFE, \h81, \hAF>>,
    (* memory through HL, where it may be in the ROM *)
    <<\h21, \h20, \h20, \h36, \h7F, \h34, \h7E, \h86, \h35, \hBE, \hA6, \hB6, \h77>>,
    <<\h21, \h31, \h20, \h11, \h19, \h00, \h1A, \h12, \hEB, \h4E, \hBE, \h19, \h66>>,
    (* through BC; 16-bit arithmetic; PUSH and POP *)
    <<\h01, \h31, \h20, \h02, \h0A, \h0B, \h03, \h21, \hF0, \hFF, \h09, \h23, \h2B>>,
    <<\h01, \h34, \h12, \h11, \h78, \h56, \hC5, \hD5, \hC1, \hD1>>,
    (* conditional jumps *)
    <<\hAF, \hC2, 0, 0, \hCA, 33, 0, 0, 0, \hD2, 36, 0, \hDA, 0, 0, \hFA, 0, 0>>,
    (* the ports *)
    <<\h3E, \hB5, \hD3, 4, \h3E, \h03, \hD3, 2, \hDB, 3, \hD3, 3, \hD3, 5>>,
    <<\hD3, 6, \hDB, 2, \hDB, 1>> }
\* Calls and returns, each taken and not; PCHL to 24.
Calls == {
    <<<<\hAF, \hCD, 48, 0, \hC4, 0, 0, \h21, 24, 0, \hE9>>, <<\hC0, \hC8>>>>,
    <<<<\h37, \hD4, 0, 0, \h97, \hCC, 48, 0>>, <<\h37, \hD0, \hD8>>>>,
    <<<<\hAF, \hD4, 48, 0, \hCC, 51, 0>>, <<\hD8, \hC9, 0, \hD0>>>>,
    <<<<\h3E, 1, \hCC, 0, 0, \h3D, \h3C, \hC4, 48, 0>>, <<\hC8, \hC0>>>> }
\* Ways to stop: an opcode that is not decoded (MVI E), two ports, and RZ at stack 4.
Stops == {Image(<<0, \h1E, 5>>), Image(<<\hDB, 7>>), Image(<<\hD3, 7>>),
          Image(<<\h31, 4, 0, \hAF, \hC8>>)}

MCKeys == {{}, {4, 5, 6, 13, 14, 15}}
\* An opcode of several steps in front of one of seven, which a restart cuts short: the
\* opcode is then begun at the step that was left. What follows undoes what would grow;
\* RET is met only the second time.
Home == [i \in 0..29 |-> IF i % 3 = 0 THEN \hC3 ELSE 0]
\* Two service routines that only return.
MCService == Image(<<\h31, 0, \h20, \hFB, \hC3, 0, 0, 0, \hC9, 0, 0, 0, 0, 0, 0, 0, \hC9>>)
MCReloaded ==
    {Image(first \o <<\hE3, \h70, \hAF, \h31, 0, \h20>>) @@ Home : first \in {
        <<\h3D>>, <<\hC6, 5>>, <<\hFE, 5>>, <<\h77>>, <<\h36, 5>>, <<\h0A>>, <<\h1A>>,
        <<\h3A, 1, 0>>, <<\h86>>, <<\hBE>>, <<\h34>>, <<\hC5>>, <<\hC1>>, <<\hF1>>,
        <<\hD8>>, <<\hC4, 3, 0>>, <<\h22, 0, \h20>>, <<\h2A, 1, 0>> }}
      \cup {Image(<<\h31, 0, \h20, \hDA, 11, 0, \h37, \hE3, \hC3, 0, 0, \hC9>>) @@ Home}
      \cup {MCService}
MCAsked == {Interrupted(body, <<>>) : body \in Disturbed}
             \cup {Interrupted(c[1], c[2]) : c \in DisturbedCalls}
             \cup {MCService, Undisturbed(<<\h3E, \h9C, \h06, \h64, \h80, \h27>>, <<>>)}
MCPrograms ==
    MCAsked
      \cup {Undisturbed(body, <<>>) : body \in Straight}
      \cup {Undisturbed(c[1], c[2]) : c \in Calls}
      \cup Stops \cup MCReloaded
\* A byte of the ROM copied to the RAM, as the game begins.
MCCopy == {Undisturbed(<<\h11, \h19, \h00, \h21, 0, \h20, \h1A, \h77>>, <<>>)}
=============================================================================
