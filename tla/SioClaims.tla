------------------------------ MODULE SioClaims ------------------------------
(***************************************************************************)
(* Statements that the documentation and the comments make about the       *)
(* serial line and that the code does not keep; the README gives the       *)
(* constants and the behaviour that refute each.                           *)
(***************************************************************************)
EXTENDS Sio

\* sio.c: a character goes into the buffer "if there is room, otherwise just
\* ignore it".  Room is counted, but _inlast only returns to the start of the
\* buffer when the buffer is empty.
InputInBounds == inlast <= BUF_SIZE

\* sio.c: "wrap around if necessary", of the output buffer.  _sio_writec does not
\* wrap, and _sio_write stores before it looks.
OutputInBounds == ~overrun

\* sio.c: "Must do LF -> CRLF mapping": a line that begins with a line feed goes
\* out as CR, LF and the rest.  The line feed goes out last.
NewlineFirst == OutputInOrder

\* man/write.txt: "On success, the number of bytes written is returned."  The
\* result is the length asked for, whatever fitted.
WriteAnswer == [][answer' # answer => answer'.ret = answer'.taken]_vars

\* sio.c: "If there is a waiting process, this must be the first input
\* character".  A read() of length 0 waits beside a full buffer.
WaitsForFirst == NoWaitWithData

\* sio.c: "the first waiting process is awakened and it gets the character".  A
\* killed one that is first in the queue takes the character with it.
WaiterGetsCharacter ==
  [][sio_isr_rx /\ (\E p \in Procs : proc[p] = "blocked") => lost' = lost]_vars
=============================================================================
