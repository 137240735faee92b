------------------------------- MODULE Console -------------------------------
(***************************************************************************)
(* The console keyboard (cio.c) and read() on it, beside the serial line   *)
(* of Sio, whose queue of readers it shares (syscalls.c, _sys_read).       *)
(*                                                                         *)
(* The kernel reads a line with interrupts off: __cio_gets runs, and polls *)
(* the keyboard when the buffer is empty, while nothing else can.  It is   *)
(* the loop cpu = "__cio_gets", one character or one scan code an action.  *)
(* A character is the record of the key and of the modifiers that were     *)
(* down; the two shift keys, which share one flag, are one key here.       *)
(***************************************************************************)
EXTENDS Sio

CONSTANTS
  C_BUFSIZE,    \* cells of the circular buffer
  Keys,         \* keys that produce a character
  Undefined,    \* keys the scan code table has no character for
  ConsLengths,  \* lengths programs pass to read(CHAN_CONS)
  MaxKeys       \* BOUND: scan codes stored in a run

ASSUME ConsBufferAssumption == C_BUFSIZE \in Nat /\ C_BUFSIZE >= 2

VARIABLES
  c_input_buffer, c_next_char, c_next_space,
  shift, ctrl,   \* modifier keys that are down
  gets,          \* the call of __cio_gets under way: by whom, room left, count
  typed,         \* the characters stored, in order
  taken          \* those __cio_getchar took, in order

keyVars  == <<c_input_buffer, c_next_char, c_next_space, shift, ctrl, typed>>
consVars == <<vars, keyVars, gets, taken>>

Spaces == 0 .. C_BUFSIZE - 1

NoGets == [by |-> {}, size |-> 0, count |-> 0]

ConsInit ==
  /\ Init
  /\ c_input_buffer = [i \in Spaces |-> [key |-> "", shift |-> FALSE, ctrl |-> FALSE]]
  /\ c_next_char = 0 /\ c_next_space = 0
  /\ shift = FALSE /\ ctrl = FALSE
  /\ gets = NoGets
  /\ typed = <<>> /\ taken = <<>>

-----------------------------------------------------------------------------
(***************************************************************************)
(* The circular buffer                                                     *)
(***************************************************************************)
c_increment(i) == (i + 1) % C_BUFSIZE

cio_input_queue == (c_next_space - c_next_char + C_BUFSIZE) % C_BUFSIZE

\* Defect: the last free cell is used too, which makes a full buffer empty.
c_store_Full(c) ==
  /\ c_input_buffer' = [c_input_buffer EXCEPT ![c_next_space] = c]
  /\ c_next_space' = c_increment(c_next_space)
  /\ typed' = Append(typed, c)

\* A character is stored only if there is room.
c_store(c) ==
  IF c_increment(c_next_space) # c_next_char
  THEN /\ c_input_buffer' = [c_input_buffer EXCEPT ![c_next_space] = c]
       /\ c_next_space' = c_increment(c_next_space)
       /\ typed' = Append(typed, c)
  ELSE UNCHANGED <<c_input_buffer, c_next_space, typed>>

\* A modifier key goes down or up.
c_modifier ==
  /\ \/ shift' = ~shift /\ UNCHANGED ctrl
     \/ ctrl' = ~ctrl /\ UNCHANGED shift
  /\ UNCHANGED <<c_input_buffer, c_next_space, typed>>

\* Another key goes down.  The table is unsigned and the code for "no character"
\* is compared as a signed one, so a key without a character counts as well.
c_press ==
  /\ Len(typed) < MaxKeys
  /\ \E k \in Keys \cup Undefined : c_store([key |-> k, shift |-> shift, ctrl |-> ctrl])
  /\ UNCHANGED <<shift, ctrl>>

\* __c_input_scan_code; a key that goes up changes nothing.
c_input_scan_code == (c_modifier \/ c_press) /\ UNCHANGED c_next_char

c_keyboard_isr ==
  /\ InUser
  /\ c_input_scan_code
  /\ UNCHANGED <<vars, gets, taken>>

-----------------------------------------------------------------------------
(***************************************************************************)
(* read() on the console                                                   *)
(***************************************************************************)

\* Nothing typed: E_NO_DATA.
sys_read_cons_none(p) ==
  /\ InUser /\ proc[p] = "user"
  /\ cio_input_queue < 1
  /\ UNCHANGED consVars

sys_read_cons(p, length) ==
  /\ InUser /\ proc[p] = "user"
  /\ cio_input_queue >= 1
  /\ gets' = [by |-> {p}, size |-> length, count |-> 0]
  /\ cpu' = "__cio_gets"
  /\ UNCHANGED <<inVars, outVars, procVars, inLog, outLog, overrun, rx_fifo, thr,
                 wire, keyVars, taken>>

IsEOT(c) == c.key = "d" /\ c.ctrl
IsNL(c)  == c.key = "enter"

InGets == cpu = "__cio_gets" /\ ~overrun
Typed  == c_input_buffer[c_next_char]

\* __cio_getchar with a character in the buffer.
cio_getchar ==
  /\ InGets /\ gets.size > 1
  /\ cio_input_queue >= 1
  /\ c_next_char' = c_increment(c_next_char)
  /\ taken' = Append(taken, Typed)
  /\ gets' = [gets EXCEPT !.size  = IF IsEOT(Typed) \/ IsNL(Typed) THEN 0 ELSE @ - 1,
                          !.count = IF IsEOT(Typed) THEN @ ELSE @ + 1]
  /\ UNCHANGED <<vars, c_input_buffer, c_next_space, shift, ctrl, typed>>

\* __cio_getchar with an empty buffer and interrupts off: it waits for a code.
cio_getchar_poll ==
  /\ InGets /\ gets.size > 1
  /\ cio_input_queue < 1
  /\ c_input_scan_code
  /\ UNCHANGED <<vars, gets, taken>>

\* Defect: the caller is queued but its state stays what it was.
cio_gets_return_Unmarked ==
  /\ InGets /\ gets.size <= 1
  /\ cpu' = "user"
  /\ IF gets.count > 0
     THEN UNCHANGED procVars
     ELSE \E p \in gets.by : reading' = Append(reading, p) /\ UNCHANGED proc
  /\ gets' = NoGets
  /\ UNCHANGED <<inVars, outVars, inLog, outLog, overrun, rx_fifo, thr, wire,
                 keyVars, taken>>

\* The line ends.  Without a character the caller blocks, on the serial line.
cio_gets_return ==
  /\ InGets /\ gets.size <= 1
  /\ cpu' = "user"
  /\ IF gets.count > 0
     THEN UNCHANGED procVars
     ELSE \E p \in gets.by : /\ proc' = [proc EXCEPT ![p] = "blocked"]
                             /\ reading' = Append(reading, p)
  /\ gets' = NoGets
  /\ UNCHANGED <<inVars, outVars, inLog, outLog, overrun, rx_fifo, thr, wire,
                 keyVars, taken>>

-----------------------------------------------------------------------------
SerialLine == Next /\ UNCHANGED <<keyVars, gets, taken>>

ConsNext ==
  \/ SerialLine
  \/ c_keyboard_isr
  \/ \E p \in Procs : sys_read_cons_none(p)
  \/ \E p \in Procs, n \in ConsLengths : sys_read_cons(p, n)
  \/ cio_getchar
  \/ cio_getchar_poll
  \/ cio_gets_return

ConsSpec == ConsInit /\ [][ConsNext]_consVars

-----------------------------------------------------------------------------
\* What was stored is what was taken and what the buffer holds, in order: the
\* buffer never mistakes full for empty (cio.c:486 "Circular buffer").
KeysInOrder ==
  taken \o [i \in 1 .. cio_input_queue |->
              c_input_buffer[(c_next_char + i - 1) % C_BUFSIZE]] = typed

\* Sharing the queue of readers does not put a process on it that is running a
\* call, nor one twice: the serial interrupt answers only those it may.
SharedReaders ==
  /\ \A p \in Procs : proc[p] \in {"blocked", "killed"} <=> p \in ToSet(reading)
  /\ IsInjective(reading)
  /\ InGets => \A p \in gets.by : proc[p] = "user"

\* Keys stay in order while their readers share the queue with the serial line's.
KeysShared == KeysInOrder /\ SharedReaders
=============================================================================
