-------------------------------- MODULE Boot --------------------------------
(***************************************************************************)
(* From the files of the build to the jump into the kernel: BuildImage.c   *)
(* puts the bootstrap program and the programs into one image and a table  *)
(* of where they belong at the end of the bootstrap; bootstrap.S reads     *)
(* them back sector by sector through the BIOS and then asks the BIOS for  *)
(* the map of the memory.                                                  *)
(*                                                                         *)
(* Sizes are constants, so that a model can be scaled down: a word has W   *)
(* values, a segment begins every PARA bytes.  A byte of a file is the     *)
(* file's number and its place there.                                      *)
(***************************************************************************)
EXTENDS Integers, Sequences, SequencesExt

CONSTANTS
  W, PARA, SECTOR_SIZE,  \* 65536, 16 and 512
  BYTE,                  \* 256, for the head number
  LIMIT,                 \* 0x9ffff, the last address that BuildImage accepts
  N_INFO, Zeros,         \* words of info, and of zeros at the bootstrap's end
  Cylinders,             \* 80
  START,                 \* where the second half of the bootstrap goes
  MMAP_MAX_ENTRIES,
  CommandLines,          \* BOUND: the lists of programs to be put into the image
  Geometries,            \* BOUND: the disks: sectors per track and heads
  MaxReported            \* BOUND: regions that the BIOS reports

ASSUME SizeAssumption ==
  /\ {W, PARA, SECTOR_SIZE, BYTE, Cylinders, MMAP_MAX_ENTRIES, MaxReported} \subseteq Nat \ {0}
  /\ {LIMIT, N_INFO, Zeros, START} \subseteq Nat
  /\ W % SECTOR_SIZE = 0 /\ W % PARA = 0

Addresses ==
  [form : {"flat"}, address : Nat] \cup
  [form : {"pair"}, segment : 0 .. W - 1, offset : 0 .. W - 1]

\* The second half of the bootstrap is sector 2 of the first track.
ASSUME InputAssumption ==
  /\ \A line \in CommandLines : line \in Seq([bytes : Nat, at : Addresses])
  /\ \A g \in Geometries : g.sectors \in Nat \ {0, 1} /\ g.heads \in 1 .. BYTE

VARIABLES
  phase,      \* "build", "refused", "load", "map", "switch" or "frozen"
  programs,   \* the command line
  image,      \* the sectors of the image, each the sequence of its bytes
  info,       \* the words of the table, the last one of the image first
  disk,       \* the geometry
  di,         \* the next word of the table
  count,      \* sectors of this block still to be read
  es, bx,     \* where the next one goes
  cyl, head, sec, tries,
  mem,
  bp,         \* regions kept
  table,      \* their entries: which report of the BIOS each holds
  reported,   \* history: what the BIOS reported
  more,       \* the BIOS has more to report
  entries     \* the number left for the kernel, -1 for none

buildVars == <<programs, image, info>>
loadVars  == <<disk, di, count, es, bx, cyl, head, sec, tries, mem>>
mapVars   == <<bp, table, reported, more, entries>>
vars      == <<phase, buildVars, loadVars, mapVars>>

-----------------------------------------------------------------------------
(***************************************************************************)
(* BuildImage                                                              *)
(***************************************************************************)

Ceil(a, b) == (a + b - 1) \div b

\* A sector of a file, which is padded.  The bootstrap is file 0.
Sector(file, bytes, n) ==
  [i \in 1 .. SECTOR_SIZE |->
     LET at == n * SECTOR_SIZE + i - 1 IN IF at < bytes THEN <<file, at>> ELSE <<>>]

copy_file(file, bytes) ==
  [n \in 1 .. Ceil(bytes, SECTOR_SIZE) |-> Sector(file, bytes, n - 1)]

\* A word held in a short.
Short(word) == IF 2 * word >= W THEN word - W ELSE word

\* The words of an address and the value that is checked.
Decoded(at) ==
  IF at.form = "pair"
    THEN [segment |-> at.segment, offset |-> at.offset,
          address |-> Short(at.segment) * PARA + Short(at.offset)]
    ELSE [segment |-> (at.address \div PARA) % W, offset |-> at.address % PARA,
          address |-> at.address]

Fits(program) ==
  Decoded(program.at).address + Len(copy_file(1, program.bytes)) * SECTOR_SIZE <= LIMIT

Processed == Len(info) \div 3

\* The three words of a program, in the order in which they are read.
Words(program) ==
  <<Len(copy_file(1, program.bytes)), Decoded(program.at).segment, Decoded(program.at).offset>>

process_file ==
  /\ phase = "build" /\ Processed < Len(programs)
  /\ LET program == programs[Processed + 1] IN
       IF Fits(program) /\ Len(info) + 3 <= N_INFO
         THEN /\ image' = image \o copy_file(Processed + 1, program.bytes)
              /\ info' = info \o Words(program)
              /\ UNCHANGED phase
         ELSE phase' = "refused" /\ UNCHANGED <<image, info>>
  /\ UNCHANGED <<programs, loadVars, mapVars>>

\* The table goes over zeros only.
main ==
  /\ phase = "build" /\ Processed = Len(programs)
  /\ phase' = IF Len(info) <= Zeros THEN "load" ELSE "refused"
  /\ UNCHANGED <<buildVars, loadVars, mapVars>>

\* What the bootstrap finds n words below the end of its second sector.
TableWord(n) ==
  IF n < Len(info) THEN info[n + 1] ELSE IF n < Zeros THEN 0 ELSE 1

-----------------------------------------------------------------------------
(***************************************************************************)
(* Loading                                                                 *)
(***************************************************************************)

max_sec  == disk.sectors + 1
max_head == disk.heads % BYTE

\* nextblock: the next program, or the end of the table.
nextblock ==
  /\ phase = "load" /\ count = 0
  /\ IF TableWord(di) = 0
       THEN phase' = "map" /\ UNCHANGED <<di, count, es, bx>>
       ELSE /\ count' = TableWord(di) /\ es' = TableWord(di + 1) /\ bx' = TableWord(di + 2)
            /\ di' = di + 3
            /\ UNCHANGED phase
  /\ UNCHANGED <<buildVars, disk, cyl, head, sec, tries, mem, mapVars>>

OnDisk(c, h, s) == (c * disk.heads + h) * disk.sectors + s

Linear(segment, offset) == segment * PARA + offset

\* The BIOS reads a sector into memory.
Read(c, h, s, to) ==
  mem' = [a \in DOMAIN mem |->
            IF a \in to .. to + SECTOR_SIZE - 1 /\ OnDisk(c, h, s) <= Len(image)
              THEN image[OnDisk(c, h, s)][a - to + 1] ELSE mem[a]]

\* Defect: the segment is not advanced at the end of 64K.
adjust_Missing == es' = es /\ bx' = (bx + SECTOR_SIZE) % W

\* The place of the next sector: at the end of 64K the segment is advanced.
adjust ==
  IF bx = W - SECTOR_SIZE
    THEN bx' = 0 /\ es' = (es + W \div PARA) % W
    ELSE bx' = (bx + SECTOR_SIZE) % W /\ es' = es

LastOfTrack    == sec + 1 = max_sec
LastOfCylinder == LastOfTrack /\ (head + 1) % BYTE = max_head
LastOfDisk     == LastOfCylinder /\ cyl + 1 = Cylinders

readcont ==
  /\ phase = "load" /\ count > 0
  /\ Read(cyl, head, sec, Linear(es, bx))
  /\ adjust
  /\ IF LastOfDisk
       THEN phase' = "frozen" /\ UNCHANGED <<cyl, head, sec, tries, count>>
       ELSE /\ sec' = IF LastOfTrack THEN 1 ELSE sec + 1
            /\ head' = IF LastOfCylinder THEN 0
                       ELSE IF LastOfTrack THEN (head + 1) % BYTE ELSE head
            /\ cyl' = IF LastOfCylinder THEN cyl + 1 ELSE cyl
            /\ tries' = 3
            /\ count' = count - 1
            /\ UNCHANGED phase
  /\ UNCHANGED <<buildVars, disk, di, mapVars>>

\* A read fails; the third failure is the last.
retry ==
  /\ phase = "load" /\ count > 0
  /\ tries' = tries - 1
  /\ phase' = IF tries' = 0 THEN "frozen" ELSE phase
  /\ UNCHANGED <<buildVars, disk, di, count, es, bx, cyl, head, sec, mem, mapVars>>

-----------------------------------------------------------------------------
(***************************************************************************)
(* The map of the memory                                                   *)
(***************************************************************************)

\* What a region reported by the BIOS can be: 24 bytes, 20 bytes, nothing, one
\* to be ignored, one of length 0.
Reports == {"long", "short", "none", "ignore", "empty"}
Valid(report) == report \in {"long", "short"}

\* Defect: after a region that is not kept the next one is not asked for.
Ends_AtSkip(report, others) == ~others \/ ~Valid(report) \/ bp + 1 >= MMAP_MAX_ENTRIES

\* Is this region the last that is asked for?
Ends(report, others) == ~others \/ (Valid(report) /\ bp + 1 >= MMAP_MAX_ENTRIES)

\* The BIOS writes behind the regions that are kept; a valid one is kept.
Report(report, others) ==
  /\ reported' = Append(reported, report)
  /\ more' = others
  /\ table' = IF report = "none" THEN table ELSE [table EXCEPT ![bp + 1] = Len(reported')]
  /\ bp' = IF Valid(report) THEN bp + 1 ELSE bp
  /\ IF Ends(report, others)
       THEN phase' = "switch" /\ entries' = bp'
       ELSE UNCHANGED <<phase, entries>>

\* The first call: nothing is believed of a BIOS that has only one region.
check_memory ==
  /\ phase = "map" /\ reported = <<>>
  /\ \E report \in Reports : Report(report, TRUE)
  /\ UNCHANGED <<buildVars, loadVars>>

cm_failed ==
  /\ phase = "map" /\ reported = <<>>
  /\ phase' = "switch" /\ entries' = -1
  /\ UNCHANGED <<buildVars, loadVars, bp, table, reported, more>>

cm_loop ==
  /\ phase = "map" /\ reported # <<>> /\ Len(reported) < MaxReported
  /\ \E report \in Reports, others \in BOOLEAN : Report(report, others)
  /\ UNCHANGED <<buildVars, loadVars>>

\* Carry instead of a region: the list has ended.
cm_end_of_list ==
  /\ phase = "map" /\ reported # <<>>
  /\ phase' = "switch" /\ entries' = bp /\ more' = FALSE
  /\ UNCHANGED <<buildVars, loadVars, bp, table, reported>>

-----------------------------------------------------------------------------
Init ==
  /\ phase = "build"
  /\ programs \in CommandLines
  /\ image = copy_file(0, 2 * SECTOR_SIZE) /\ info = <<>>
  /\ disk \in Geometries
  /\ di = 0 /\ count = 1 /\ es = 0 /\ bx = START
  /\ cyl = 0 /\ head = 0 /\ sec = 2 /\ tries = 3
  /\ mem = [a \in 0 .. W * PARA + W - 1 |-> <<>>]
  /\ bp = 0 /\ table = [i \in 1 .. MMAP_MAX_ENTRIES |-> 0]
  /\ reported = <<>> /\ more = TRUE /\ entries = 0

Next == \/ process_file \/ main
        \/ nextblock \/ readcont \/ retry
        \/ check_memory \/ cm_failed \/ cm_loop \/ cm_end_of_list

Spec == Init /\ [][Next]_vars

-----------------------------------------------------------------------------
(***************************************************************************)
(* Properties                                                              *)
(***************************************************************************)

\* Where the command line asks for a program.
Target(at) == IF at.form = "pair" THEN Linear(at.segment, at.offset) ELSE at.address

Capacity == Cylinders * disk.heads * disk.sectors

\* When loading ends every program is in memory where the command line asked for it,
\* whatever the geometry of the disk, across tracks, cylinders and 64K of memory,
\* with reads that were retried; and it only freezes when a sector cannot be read
\* or the image fills the disk.
LoadedAsBuilt ==
  /\ phase \in {"map", "switch"} =>
       \A p \in 1 .. Len(programs) : \A i \in 0 .. programs[p].bytes - 1 :
         mem[Target(programs[p].at) + i] = <<p, i>>
  /\ phase = "frozen" /\ tries > 0 => Len(image) >= Capacity

\* What the command line must be for that: the table does not fill the zeros to the
\* last, no file is empty, a program that is accepted lies in memory, none lies in
\* another's place, and one that crosses the end of 64K begins at a multiple of a sector.
Sectors(p) == Ceil(p.bytes, SECTOR_SIZE)
EndOf(p)   == Target(p.at) + Sectors(p) * SECTOR_SIZE

Straight(p) ==
  \/ Decoded(p.at).offset % SECTOR_SIZE = 0
  \/ Decoded(p.at).offset + Sectors(p) * SECTOR_SIZE <= W

Apart(p, r) == EndOf(p) <= Target(r.at) \/ EndOf(r) <= Target(p.at)

RegularLines ==
  \A line \in CommandLines :
    /\ 3 * Len(line) # Zeros
    /\ \A p \in 1 .. Len(line) :
         /\ line[p].bytes > 0 /\ Straight(line[p])
         /\ Fits(line[p]) => EndOf(line[p]) <= W * PARA
         /\ \A r \in 1 .. Len(line) : r # p => Apart(line[p], line[r])

\* The table that the kernel finds has the valid regions that the BIOS reported,
\* in their order, all of them or as many as it has room for.
MapAsReported ==
  phase = "switch" /\ entries # -1 =>
    /\ {table[i] : i \in 1 .. entries} = {n \in 1 .. Len(reported) : Valid(reported[n])}
    /\ \A i, j \in 1 .. entries : i < j => table[i] < table[j]
    /\ ~more \/ entries = MMAP_MAX_ENTRIES
=============================================================================
