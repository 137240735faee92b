---------------------------- MODULE ConsoleClaims ----------------------------
(***************************************************************************)
(* What the comments say of console input and the code does not do; the    *)
(* README gives the constants and the behaviour that refute each.          *)
(***************************************************************************)
EXTENDS Console

\* syscalls.c: "console input is non-blocking".  With one character typed a
\* longer read() waits, inside the kernel, for the rest of the line.
ConsoleNeverWaits == InGets /\ gets.size > 1 => cio_input_queue >= 1

\* The same comment: nobody who reads the console blocks.  A read() that gets no
\* character (of length 1, or of a bare end of file) waits for the serial line.
ConsoleNeverBlocks == [][cio_gets_return => proc' = proc]_consVars

\* cio.c: "Ignore undefined scan codes."
UndefinedIgnored == \A i \in 1 .. Len(typed) : typed[i].key \in Keys
=============================================================================
