--------------------------------- MODULE Sio ---------------------------------
(***************************************************************************)
(* The serial line (sio.c) and the read() and write() calls on it          *)
(* (syscalls.c): the two character buffers, the queue of readers, the      *)
(* transmit sequence, and the interrupt handler.                           *)
(*                                                                         *)
(* The UART is external: a receive FIFO, a transmit holding register, and  *)
(* an interrupt for either while it is enabled.  The handler loops until   *)
(* the UART has nothing pending, one event an action; receiving comes      *)
(* before transmitting; line and modem status, which are only printed, are *)
(* left out.  A write outside of a buffer is undefined: it sets            *)
(* overrun, and the model follows the program no further.                  *)
(*                                                                         *)
(* Scheduling is Kernel's; here any process that is not blocked may call.  *)
(***************************************************************************)
EXTENDS Integers, Sequences, SequencesExt

CONSTANTS
  Procs,        \* the processes that use the line
  BUF_SIZE,     \* capacity of each buffer
  ReadLengths,  \* lengths programs pass to read()
  Writes,       \* what programs pass to write(): records [buf, length]
  FifoSize,     \* the UART's receive FIFO
  MaxIn,        \* BOUND: characters that arrive in a run
  MaxOut        \* BOUND: characters that programs write in a run

NL == "\n"
CR == "\r"

ASSUME BufferAssumption == BUF_SIZE \in Nat /\ BUF_SIZE >= 1
ASSUME LengthsAssumption == ReadLengths \subseteq Nat
ASSUME WritesAssumption ==
  \A w \in Writes : w.buf \in Seq(STRING) \ {<<>>} /\ w.length \in 0 .. Len(w.buf)

VARIABLES
  inbuffer, inlast, innext, incount,      \* the pointers are indices
  outbuffer, outlast, outnext, outcount,
  sending,    \* _sending
  tx_enabled, \* the transmitter's bit of _ier (the receiver's is always set)
  proc,       \* each process: in "user" code, "blocked", "killed", "gone"
  reading,    \* _reading
  overrun,    \* has a buffer been written out of bounds?
  cpu,        \* "user" or the handler "_sio_isr"
  rx_fifo, thr,   \* the UART
  arrived,    \* how many characters the line has delivered, numbered from 1
  got,        \* those given to processes, in that order
  lost,       \* those nobody will get
  written,    \* what write() took from programs
  wire,       \* what the UART has sent
  answer      \* RET of the latest write(), and how much of it was taken

inVars   == <<inbuffer, inlast, innext, incount>>
outVars  == <<outbuffer, outlast, outnext, outcount, sending, tx_enabled>>
procVars == <<proc, reading>>
inLog    == <<arrived, got, lost>>
outLog   == <<written, answer>>
vars     == <<inVars, outVars, procVars, inLog, outLog, overrun, cpu, rx_fifo,
              thr, wire>>

BufCells == 0 .. BUF_SIZE - 1

Init ==
  /\ inbuffer = [i \in BufCells |-> 0] /\ inlast = 0 /\ innext = 0 /\ incount = 0
  /\ outbuffer = [i \in BufCells |-> ""] /\ outlast = 0 /\ outnext = 0 /\ outcount = 0
  /\ sending = FALSE /\ tx_enabled = FALSE
  /\ proc = [p \in Procs |-> "user"] /\ reading = <<>>
  /\ overrun = FALSE /\ cpu = "user"
  /\ rx_fifo = <<>> /\ thr = <<>> /\ wire = <<>>
  /\ arrived = 0 /\ got = <<>> /\ lost = {}
  /\ written = <<>> /\ answer = [ret |-> 0, taken |-> 0]

InUser == cpu = "user" /\ ~overrun

-----------------------------------------------------------------------------
(***************************************************************************)
(* Input                                                                   *)
(***************************************************************************)

\* What the input buffer holds, oldest first.
Buffered == [i \in 1 .. incount |-> inbuffer[innext + i - 1]]

\* Defect: of an empty buffer only the reader's pointer is reset.
sio_reads_HalfReset(n) ==
  /\ incount' = incount - n
  /\ IF incount' = 0 THEN innext' = 0 ELSE innext' = innext + n
  /\ UNCHANGED <<inbuffer, inlast>>

\* _sio_reads takes n characters, and resets an empty buffer.
sio_reads(n) ==
  /\ incount' = incount - n
  /\ IF incount' = 0 THEN innext' = 0 /\ inlast' = 0
                     ELSE innext' = innext + n /\ inlast' = inlast
  /\ UNCHANGED inbuffer

\* read() with characters in the buffer gets as many as it has room for ...
sys_read_data(p, length) ==
  /\ incount > 0 /\ length > 0
  /\ LET n == IF length < incount THEN length ELSE incount IN
       /\ got' = got \o SubSeq(Buffered, 1, n)
       /\ sio_reads(n)
  /\ UNCHANGED procVars

\* ... and blocks when _sio_reads copied none.
sys_read_block(p, length) ==
  /\ incount = 0 \/ length = 0
  /\ proc' = [proc EXCEPT ![p] = "blocked"]
  /\ reading' = Append(reading, p)
  /\ UNCHANGED inVars /\ UNCHANGED got

sys_read(p, length) ==
  /\ InUser /\ proc[p] = "user"
  /\ sys_read_data(p, length) \/ sys_read_block(p, length)
  /\ UNCHANGED <<outVars, outLog, arrived, lost, overrun, cpu, rx_fifo, thr, wire>>

\* A blocked reader is only marked by kill() (Kernel!sys_kill_mark).
sys_kill(p) ==
  /\ InUser /\ proc[p] = "blocked"
  /\ proc' = [proc EXCEPT ![p] = "killed"]
  /\ UNCHANGED <<inVars, outVars, reading, inLog, outLog, overrun, cpu, rx_fifo,
                 thr, wire>>

-----------------------------------------------------------------------------
(***************************************************************************)
(* Output                                                                  *)
(***************************************************************************)

\* How many of the characters of w, from the first-th on, fit in the buffer.
Fitting(w, first) ==
  LET want == w.length - first + 1
      room == BUF_SIZE - outcount
  IN  IF want < 0 \/ room < 0 THEN 0 ELSE IF want < room THEN want ELSE room

\* Defect: the index of the last character is not wrapped.
Filled_NoWrap(w, first, n) ==
  [i \in BufCells |-> IF i >= outlast /\ i < outlast + n THEN w.buf[first + i - outlast]
                                                      ELSE outbuffer[i]]

\* The output buffer with n characters of w added, from the first-th on.
Filled(w, first, n) ==
  [i \in BufCells |-> LET k == (i - outlast + BUF_SIZE) % BUF_SIZE
                   IN  IF k < n THEN w.buf[first + k] ELSE outbuffer[i]]

\* write() during a transmission adds what fits.
sio_write_queue(w) ==
  LET n == Fitting(w, 1) IN
    /\ sending
    /\ IF n > 0 /\ outlast >= BUF_SIZE
       THEN overrun' = TRUE /\ UNCHANGED <<outbuffer, outlast>>
       ELSE /\ outbuffer' = Filled(w, 1, n)
            /\ outlast' = IF n = 0 THEN outlast ELSE (outlast + n) % BUF_SIZE
            /\ UNCHANGED overrun
    /\ outcount' = outcount + n
    /\ written' = written \o SubSeq(w.buf, 1, n)
    /\ answer' = [ret |-> w.length, taken |-> n]
    /\ UNCHANGED <<outnext, sending, tx_enabled, thr>>

\* write() on an idle line adds all but the first character and sends that one
\* through _sio_writec, which starts the transmit sequence.
sio_write_first(w) ==
  LET n == Fitting(w, 2) IN
    /\ ~sending
    /\ w.buf[1] # NL
    /\ outbuffer' = Filled(w, 2, n)
    /\ outlast' = (outlast + n) % BUF_SIZE
    /\ outcount' = outcount + n
    /\ thr' = <<w.buf[1]>>
    /\ sending' = TRUE /\ tx_enabled' = TRUE
    /\ written' = written \o SubSeq(w.buf, 1, n + 1)
    /\ answer' = [ret |-> w.length, taken |-> n + 1]
    /\ UNCHANGED <<outnext, overrun>>

\* When that character is a line feed, _sio_writec sends a carriage return, is
\* transmitting by then, and puts the line feed behind the others.
sio_write_newline(w) ==
  LET n    == Fitting(w, 2)
      last == (outlast + n) % BUF_SIZE
  IN
    /\ ~sending
    /\ w.buf[1] = NL
    /\ outbuffer' = [Filled(w, 2, n) EXCEPT ![last] = NL]
    /\ outlast' = last + 1
    /\ outcount' = outcount + n + 1
    /\ thr' = <<CR>>
    /\ sending' = TRUE /\ tx_enabled' = TRUE
    /\ written' = written \o <<CR>> \o SubSeq(w.buf, 1, n + 1)
    /\ answer' = [ret |-> w.length, taken |-> n + 1]
    /\ UNCHANGED <<outnext, overrun>>

sys_write(p, w) ==
  /\ InUser /\ proc[p] = "user"
  /\ Len(written) + w.length <= MaxOut
  /\ sio_write_queue(w) \/ sio_write_first(w) \/ sio_write_newline(w)
  /\ UNCHANGED <<inVars, procVars, inLog, cpu, rx_fifo, wire>>

-----------------------------------------------------------------------------
(***************************************************************************)
(* The UART                                                                *)
(***************************************************************************)

\* A character arrives; a full FIFO loses it.
Arrive ==
  /\ ~overrun
  /\ arrived < MaxIn
  /\ arrived' = arrived + 1
  /\ IF Len(rx_fifo) < FifoSize
     THEN rx_fifo' = Append(rx_fifo, arrived') /\ UNCHANGED lost
     ELSE lost' = lost \cup {arrived'} /\ UNCHANGED rx_fifo
  /\ UNCHANGED <<inVars, outVars, procVars, got, outLog, overrun, cpu, thr, wire>>

\* The character in the holding register goes out.
Transmit ==
  /\ ~overrun
  /\ thr # <<>>
  /\ wire' = wire \o thr
  /\ thr' = <<>>
  /\ UNCHANGED <<inVars, outVars, procVars, inLog, outLog, overrun, cpu, rx_fifo>>

RxPending == rx_fifo # <<>>
TxPending == tx_enabled /\ thr = <<>>

-----------------------------------------------------------------------------
(***************************************************************************)
(* _sio_isr                                                                *)
(***************************************************************************)
InIsr == cpu = "_sio_isr" /\ ~overrun

sio_isr_enter ==
  /\ InUser
  /\ RxPending \/ TxPending
  /\ cpu' = "_sio_isr"
  /\ UNCHANGED <<inVars, outVars, procVars, inLog, outLog, overrun, rx_fifo, thr,
                 wire>>

\* A waiting process gets the character, unless it was killed: then _schedule
\* ends it, and the character with it.
isr_rx_wake ==
  /\ reading # <<>>
  /\ LET p == Head(reading) IN
       /\ reading' = Tail(reading)
       /\ IF proc[p] = "killed"
          THEN /\ proc' = [proc EXCEPT ![p] = "gone"]
               /\ lost' = lost \cup {Head(rx_fifo)} /\ UNCHANGED got
          ELSE /\ proc' = [proc EXCEPT ![p] = "user"]
               /\ got' = Append(got, Head(rx_fifo)) /\ UNCHANGED lost
  /\ UNCHANGED <<inVars, overrun>>

\* Defect: the buffer is used although a process waits.
isr_rx_store_Waiting ==
  /\ incount < BUF_SIZE
  /\ IF inlast < BUF_SIZE
     THEN /\ inbuffer' = [inbuffer EXCEPT ![inlast] = Head(rx_fifo)]
          /\ UNCHANGED overrun
     ELSE overrun' = TRUE /\ UNCHANGED inbuffer
  /\ inlast' = inlast + 1
  /\ incount' = incount + 1
  /\ UNCHANGED <<innext, procVars, got, lost>>

\* Nobody waits: the character is put in the buffer, where _inlast points.
isr_rx_store ==
  /\ reading = <<>>
  /\ incount < BUF_SIZE
  /\ IF inlast < BUF_SIZE
     THEN /\ inbuffer' = [inbuffer EXCEPT ![inlast] = Head(rx_fifo)]
          /\ UNCHANGED overrun
     ELSE overrun' = TRUE /\ UNCHANGED inbuffer
  /\ inlast' = inlast + 1
  /\ incount' = incount + 1
  /\ UNCHANGED <<innext, procVars, got, lost>>

\* Nobody waits and the buffer is full: the character is ignored.
isr_rx_ignore ==
  /\ reading = <<>>
  /\ incount >= BUF_SIZE
  /\ lost' = lost \cup {Head(rx_fifo)}
  /\ UNCHANGED <<inVars, procVars, got, overrun>>

sio_isr_rx ==
  /\ InIsr /\ RxPending
  /\ rx_fifo' = Tail(rx_fifo)
  /\ isr_rx_wake \/ isr_rx_store \/ isr_rx_ignore
  /\ UNCHANGED <<outVars, arrived, outLog, cpu, thr, wire>>

\* The UART may signal a character by a timeout of its FIFO instead: that branch
\* reads the character and drops it, whoever waits.
sio_isr_timeout ==
  /\ InIsr /\ RxPending
  /\ rx_fifo' = Tail(rx_fifo)
  /\ lost' = lost \cup {Head(rx_fifo)}
  /\ UNCHANGED <<inVars, outVars, procVars, arrived, got, outLog, overrun, cpu, thr, wire>>

\* The next character of the buffer follows ...
isr_tx_send ==
  /\ sending /\ outcount > 0
  /\ thr' = <<outbuffer[outnext]>>
  /\ outnext' = IF outnext + 1 >= BUF_SIZE THEN 0 ELSE outnext + 1
  /\ outcount' = outcount - 1
  /\ UNCHANGED <<outbuffer, outlast, sending, tx_enabled>>

\* Defect: the sequence ends with the interrupt off and _sending still set.
isr_tx_end_Sending ==
  /\ ~(sending /\ outcount > 0)
  /\ outcount' = 0 /\ outlast' = 0 /\ outnext' = 0
  /\ tx_enabled' = FALSE
  /\ UNCHANGED <<outbuffer, sending, thr>>

\* ... or the transmit sequence ends.
isr_tx_end ==
  /\ ~(sending /\ outcount > 0)
  /\ outcount' = 0 /\ outlast' = 0 /\ outnext' = 0
  /\ sending' = FALSE /\ tx_enabled' = FALSE
  /\ UNCHANGED <<outbuffer, thr>>

sio_isr_tx ==
  /\ InIsr /\ ~RxPending /\ TxPending
  /\ isr_tx_send \/ isr_tx_end
  /\ UNCHANGED <<inVars, procVars, inLog, outLog, overrun, cpu, rx_fifo, wire>>

sio_isr_exit ==
  /\ InIsr /\ ~RxPending /\ ~TxPending
  /\ cpu' = "user"
  /\ UNCHANGED <<inVars, outVars, procVars, inLog, outLog, overrun, rx_fifo, thr,
                 wire>>

-----------------------------------------------------------------------------
Isr == sio_isr_rx \/ sio_isr_timeout \/ sio_isr_tx \/ sio_isr_exit

Next ==
  \/ \E p \in Procs, n \in ReadLengths : sys_read(p, n)
  \/ \E p \in Procs : sys_kill(p)
  \/ \E p \in Procs, w \in Writes : sys_write(p, w)
  \/ Arrive
  \/ Transmit
  \/ sio_isr_enter
  \/ Isr

Spec == Init /\ [][Next]_vars

(***************************************************************************)
(* Fairness: the UART sends what it holds and its interrupts are taken     *)
(* (strong: interrupts are on again whenever user code runs), and the      *)
(* handler runs on.  Programs and the far end owe nothing.                 *)
(***************************************************************************)
Fairness == WF_vars(Transmit) /\ SF_vars(sio_isr_enter) /\ WF_vars(Isr)

FairSpec == Spec /\ Fairness

-----------------------------------------------------------------------------
Increasing(s) == \A i \in 1 .. Len(s) - 1 : s[i] < s[i + 1]

\* Characters reach processes in the order they arrived, each once: those given
\* out, those in the buffer and those in the UART follow each other, and with
\* the lost ones they are all (sio.c:11 "Input").
InputInOrder ==
  ~overrun => LET all == got \o Buffered \o rx_fifo IN
    /\ Increasing(all)
    /\ lost \cap ToSet(all) = {}
    /\ lost \cup ToSet(all) = 1 .. arrived

\* A process blocks only while there is nothing to read (sio.c:147 "If there is
\* a waiting process, this must be the first input character").
NoWaitWithData == reading # <<>> => incount = 0

\* Input is served: in order, and nobody waits while there is some.
InputServed == InputInOrder /\ NoWaitWithData

\* The output buffer, oldest first.
Pending == [i \in 1 .. outcount |-> outbuffer[(outnext + i - 1) % BUF_SIZE]]

\* What write() took goes out in order, each character once: sent, in the UART
\* and in the buffer, one after the other (sio.c:33 "Output").
OutputInOrder == ~overrun => wire \o thr \o Pending = written

\* A transmit sequence cannot get stuck: characters are buffered only during
\* one, and during one the interrupt that continues it is on.
TransmitterArmed ==
  /\ sending <=> tx_enabled
  /\ outcount > 0 \/ thr # <<>> => sending

\* The buffer drains: every transmit sequence comes to its end.
OutputDrains == sending ~> ~sending \/ overrun
=============================================================================
