-------------------------------- MODULE Pic --------------------------------
(***************************************************************************)
(* The two 8259 interrupt controllers as init_pic (support.c) sets them    *)
(* up: fixed priorities, no line masked, the secondary controller on line  *)
(* 2 of the primary, ended by non-specific end-of-interrupt commands.  The *)
(* controllers are external; the requests of the devices are actions of    *)
(* the environment.                                                        *)
(***************************************************************************)
EXTENDS Naturals

CONSTANT EthLine   \* the network card's line, int_line of its PCI header

ASSUME EthLineAssumption == EthLine \in 8 .. 15

VARIABLES
  devices,   \* the lines on which there is a device
  irr,       \* lines that request an interrupt
  withdrawn, \* was a request taken back before it was acknowledged?
  isr1,      \* interrupts in service: lines of the primary controller
  isr2,      \* and of the secondary one
  asked      \* lines that have requested in this burst of interrupts

picVars == <<devices, irr, withdrawn, isr1, isr2, asked>>

Timer     == 0
Keyboard  == 1
Secondary == 2
Serial    == 4
Mystery   == 7
Lines     == {Timer, Keyboard, Serial, EthLine}

PicTypeOK ==
  /\ devices \in SUBSET Lines
  /\ irr \subseteq Lines /\ asked \subseteq Lines /\ withdrawn \in BOOLEAN
  /\ isr1 \subseteq 0 .. 7 /\ isr2 \subseteq 8 .. 15

PicInit ==
  /\ devices \in SUBSET Lines
  /\ irr = {} /\ withdrawn = FALSE /\ isr1 = {} /\ isr2 = {} /\ asked = {}

\* The line of the primary controller on which a request arrives.
PrimaryLine(line) == IF line >= 8 THEN Secondary ELSE line

\* A controller passes on what has priority over all it has in service.
Passed(line) ==
  /\ line \in irr
  /\ \A s \in isr1 : PrimaryLine(line) < s
  /\ line >= 8 => \A s \in isr2 : line < s

\* The request that the processor is given.
Delivered(line) ==
  /\ Passed(line)
  /\ \A other \in irr : Passed(other) => PrimaryLine(line) <= PrimaryLine(other)

Pending == withdrawn \/ \E line \in irr : Passed(line)

\* A device requests an interrupt.  It does not do so twice in one burst, that
\* is before the processor is done with what is pending: devices are slow.
Request(line) ==
  /\ line \in devices \ (irr \cup asked)
  /\ irr' = irr \cup {line}
  /\ asked' = asked \cup {line}
  /\ UNCHANGED <<devices, withdrawn, isr1, isr2>>

\* The processor acknowledges a request.
Acknowledge(line) ==
  /\ ~withdrawn
  /\ Delivered(line)
  /\ irr' = irr \ {line}
  /\ isr1' = isr1 \cup {PrimaryLine(line)}
  /\ isr2' = IF line >= 8 THEN isr2 \cup {line} ELSE isr2
  /\ UNCHANGED <<devices, withdrawn, asked>>

\* It acknowledges one that is gone: the controller answers with its lowest
\* line and puts nothing in service.
AcknowledgeNone ==
  /\ withdrawn
  /\ withdrawn' = FALSE
  /\ UNCHANGED <<devices, irr, isr1, isr2, asked>>

\* A non-specific end-of-interrupt ends the highest interrupt in service.
Ended(inService) == {s \in inService : \E t \in inService : t < s}

\* The data that the keyboard asks to have read are read before it is acknowledged.
Withdraw ==
  /\ irr' = irr \ {Keyboard}
  /\ withdrawn' = (withdrawn \/ Keyboard \in irr)

\* The processor executes an instruction of a program; when nothing is pending
\* that ends the burst.
Executed ==
  /\ asked' = IF Pending THEN asked ELSE {}
  /\ UNCHANGED <<devices, irr, withdrawn, isr1, isr2>>
=============================================================================
