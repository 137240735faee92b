----------------------------- MODULE BootProofs -----------------------------
(***************************************************************************)
(* Proofs about Boot, for files, disks and memories of every size: the     *)
(* programs are loaded to where the command line put them, and the memory  *)
(* map is what the BIOS reported.                                          *)
(***************************************************************************)
EXTENDS Boot, ListFacts

-----------------------------------------------------------------------------
(***************************************************************************)
(* The map of the memory                                                   *)
(***************************************************************************)

Kept == {n \in 1 .. Len(reported) : Valid(reported[n])}

\* The first n entries of the table are the regions kept.
Tabled(n) == Values(table, n) = Kept /\ \A i, j \in 1 .. n : i < j => table[i] < table[j]

MapInv ==
  /\ bp \in Nat /\ entries \in Int /\ more \in BOOLEAN
  /\ reported \in Seq(Reports) /\ table \in [1 .. MMAP_MAX_ENTRIES -> Nat]
  /\ bp <= MMAP_MAX_ENTRIES /\ Tabled(bp)
  /\ phase # "switch" => bp < MMAP_MAX_ENTRIES
  /\ phase = "switch" /\ entries # -1 => entries = bp /\ (~more \/ bp = MMAP_MAX_ENTRIES)

LEMMA MapStarts == Init => MapInv
<1> SUFFICES ASSUME Init PROVE MapInv
  OBVIOUS
<1>1. MMAP_MAX_ENTRIES \in Nat /\ MMAP_MAX_ENTRIES > 0
  BY SizeAssumption
<1>2. /\ bp = 0 /\ entries = 0 /\ more = TRUE /\ reported = <<>> /\ phase = "build"
      /\ table \in [1 .. MMAP_MAX_ENTRIES -> Nat]
  BY DEF Init
<1>3. Tabled(0)
  BY <1>2 DEF Tabled, Kept, Values
<1>4. reported \in Seq(Reports)
  BY <1>2
<1> QED BY <1>1, <1>2, <1>3, <1>4 DEF MapInv

\* A report that is kept is behind all the others.
LEMMA ReportKeeps ==
  ASSUME MapInv, phase = "map",
         NEW report \in Reports, NEW others \in BOOLEAN, Report(report, others)
  PROVE  MapInv'
<1> DEFINE r == Append(reported, report)
<1>1. PICK n \in Nat : n = Len(reported)
  BY DEF MapInv
<1>2. /\ r \in Seq(Reports) /\ Len(r) = n + 1 /\ r[n + 1] = report
      /\ \A i \in 1 .. n : r[i] = reported[i]
  BY <1>1 DEF MapInv
<1>3. /\ reported' = r /\ more' = others
      /\ table' = IF report = "none" THEN table ELSE [table EXCEPT ![bp + 1] = n + 1]
      /\ bp' = IF Valid(report) THEN bp + 1 ELSE bp
  BY <1>2 DEF Report
<1> HIDE DEF r
<1>4. /\ bp \in Nat /\ MMAP_MAX_ENTRIES \in Nat /\ bp + 1 \in 1 .. MMAP_MAX_ENTRIES
      /\ table \in [1 .. MMAP_MAX_ENTRIES -> Nat] /\ entries \in Int
      /\ Tabled(bp) /\ reported \in Seq(Reports)
  BY SizeAssumption DEF MapInv
<1>5. table' \in [1 .. MMAP_MAX_ENTRIES -> Nat] /\ \A i \in 1 .. bp : table'[i] = table[i]
  BY <1>3, <1>4
<1>6. Kept' = IF Valid(report) THEN Kept \cup {n + 1} ELSE Kept
  <2>1. \A i : i \in 1 .. n + 1 <=> i \in 1 .. n \/ i = n + 1
    BY <1>1
  <2>2. Kept' = {i \in 1 .. n + 1 : Valid(r[i])} /\ Kept = {i \in 1 .. n : Valid(reported[i])}
    BY <1>1, <1>2, <1>3 DEF Kept
  <2>3. n + 1 \notin 1 .. n
    BY <1>1
  <2> QED BY <1>2, <2>1, <2>2, <2>3
<1>7. \A i \in 1 .. bp : table[i] \in 1 .. n
  BY <1>1, <1>4 DEF Tabled, Kept, Values
<1>8. Values(table', bp) = Values(table, bp)
  BY <1>5 DEF Values
<1>9. Tabled(bp)'
  <2>1. CASE Valid(report)
    <3>1. bp' = bp + 1 /\ report # "none" /\ table'[bp + 1] = n + 1
      BY <1>3, <1>4, <2>1 DEF Valid
    <3>2. Values(table', bp + 1) = Kept'
      <4>1. Values(table', bp + 1) = Values(table, bp) \cup {n + 1}
        <5>1. bp \in Nat /\ \A i \in 1 .. bp : table'[i] = table[i]
          BY <1>4, <1>5
        <5>2. Values(table', bp + 1) = Values(table, bp) \cup {table'[bp + 1]}
          BY <5>1, ValuesMore
        <5> QED BY <3>1, <5>2
      <4> QED BY <1>4, <1>6, <2>1, <4>1 DEF Tabled
    <3>3. \A i, j \in 1 .. bp + 1 : i < j => table'[i] < table'[j]
      <4> SUFFICES ASSUME NEW i \in 1 .. bp + 1, NEW j \in 1 .. bp + 1, i < j
                   PROVE  table'[i] < table'[j]
        OBVIOUS
      <4>1. CASE j = bp + 1
        BY <1>1, <1>4, <1>5, <1>7, <3>1, <4>1
      <4>2. CASE j # bp + 1
        <5>1. i \in 1 .. bp /\ j \in 1 .. bp
          BY <1>4, <4>2
        <5> QED BY <1>4, <1>5, <5>1 DEF Tabled
      <4> QED BY <4>1, <4>2
    <3> QED BY <3>1, <3>2, <3>3 DEF Tabled
  <2>2. CASE ~Valid(report)
    BY <1>3, <1>4, <1>5, <1>6, <1>8, <2>2 DEF Tabled
  <2> QED BY <2>1, <2>2
<1>10. /\ bp' \in Nat /\ bp' <= MMAP_MAX_ENTRIES /\ entries' \in Int
       /\ phase' # "switch" => bp' < MMAP_MAX_ENTRIES
       /\ phase' = "switch" => entries' = bp' /\ (~more' \/ bp' = MMAP_MAX_ENTRIES)
  <2>1. CASE Ends(report, others)
    BY <1>3, <1>4, <2>1 DEF Ends, Report
  <2>2. CASE ~Ends(report, others)
    BY <1>3, <1>4, <2>2 DEF Ends, Report
  <2> QED BY <2>1, <2>2
<1> QED BY <1>2, <1>3, <1>5, <1>9, <1>10 DEF MapInv

LEMMA MapSteps == MapInv /\ [Next]_vars => MapInv'
<1> SUFFICES ASSUME MapInv, [Next]_vars PROVE MapInv'
  OBVIOUS
<1>0. ASSUME UNCHANGED <<bp, table, reported>> PROVE Tabled(bp)' <=> Tabled(bp)
  <2>1. Kept' = Kept
    BY <1>0 DEF Kept
  <2>2. Values(table, bp)' = Values(table, bp)
    BY <1>0
  <2> QED BY <1>0, <2>1, <2>2 DEF Tabled
<1>1. ASSUME UNCHANGED mapVars, phase' = "switch" <=> phase = "switch" PROVE MapInv'
  BY <1>0, <1>1, Zenon DEF MapInv, mapVars
<1>2. CASE process_file \/ main \/ nextblock \/ readcont \/ retry
  BY <1>1, <1>2 DEF process_file, main, nextblock, readcont, retry
<1>3. CASE check_memory
  BY <1>3, ReportKeeps DEF check_memory
<1>4. CASE cm_loop
  BY <1>4, ReportKeeps DEF cm_loop
<1>5. CASE cm_failed
  BY <1>0, <1>5 DEF cm_failed, MapInv
<1>6. CASE cm_end_of_list
  <2>1. /\ UNCHANGED <<bp, table, reported>> /\ phase = "map" /\ phase' = "switch"
        /\ entries' = bp /\ more' = FALSE
    BY <1>6 DEF cm_end_of_list
  <2>2. Tabled(bp)'
    BY <1>0, <2>1, Zenon DEF MapInv
  <2>3. bp' \in Nat /\ entries' \in Int /\ bp' <= MMAP_MAX_ENTRIES /\ entries' = bp'
    BY <2>1 DEF MapInv
  <2>4. reported' \in Seq(Reports) /\ table' \in [1 .. MMAP_MAX_ENTRIES -> Nat] /\ more' \in BOOLEAN
    BY <2>1, Zenon DEF MapInv
  <2> QED BY <2>1, <2>2, <2>3, <2>4, Zenon DEF MapInv
<1>7. CASE UNCHANGED vars
  BY <1>1, <1>7 DEF vars
<1> QED BY <1>2, <1>3, <1>4, <1>5, <1>6, <1>7 DEF Next

\* The kernel finds the map as it was reported: the first words of the table are the
\* valid regions in their order, as many as the BIOS had or the table can hold.
THEOREM MapIsAsReported == Spec => []MapAsReported
<1>1. MapInv => MapAsReported
  BY DEF MapInv, MapAsReported, Tabled, Kept, Values
<1> QED BY <1>1, MapStarts, MapSteps, PTL DEF Spec

-----------------------------------------------------------------------------
(***************************************************************************)
(* Numbers                                                                 *)
(***************************************************************************)

LEMMA Products ==
  /\ \A a, b \in Nat : a * b \in Nat
  /\ \A a, b, c \in Nat : a <= b => a * c <= b * c
  /\ \A a, b, c \in Nat : a * c < b * c => a < b
  /\ \A a, b \in Nat : (a + 1) * b = a * b + b
<1>1. \A a, b \in Nat : a * b \in Nat
  OBVIOUS
<1>2. ASSUME NEW a \in Nat, NEW b \in Nat, NEW c \in Nat, a <= b PROVE a * c <= b * c
  <2>1. PICK d \in Nat : b = a + d
    <3>1. b - a \in Nat /\ b = a + (b - a)
      BY <1>2
    <3> QED BY <3>1
  <2>2. (a + d) * c = a * c + d * c
    OBVIOUS
  <2>3. a * c \in Nat /\ d * c \in Nat
    BY <1>1
  <2> QED BY <2>1, <2>2, <2>3
<1>3. ASSUME NEW a \in Nat, NEW b \in Nat, NEW c \in Nat, a * c < b * c PROVE a < b
  <2>1. a * c \in Nat /\ b * c \in Nat
    BY <1>1
  <2>2. CASE b <= a
    <3>1. b * c <= a * c
      BY <1>2, <2>2
    <3> QED BY <1>3, <2>1, <3>1
  <2> QED BY <2>2
<1>4. \A a, b \in Nat : (a + 1) * b = a * b + b
  OBVIOUS
<1> QED BY <1>1, <1>2, <1>3, <1>4

LEMMA MultipleIs == ASSUME NEW q \in Nat, NEW s \in Nat, s > 0 PROVE (q * s) % s = 0
OBVIOUS

\* Of two multiples the greater is greater by a whole sector.
LEMMA Multiples ==
  \A x, w, s \in Nat : s > 0 /\ x % s = 0 /\ w % s = 0 /\ x < w => x + s <= w /\ (x + s) % s = 0
<1> SUFFICES ASSUME NEW x \in Nat, NEW w \in Nat, NEW s \in Nat, s > 0, x % s = 0, w % s = 0, x < w
             PROVE  x + s <= w /\ (x + s) % s = 0
  BY Zenon
<1>1. PICK m \in Nat : x = m * s
  <2>1. x \div s \in Nat /\ x = (x \div s) * s
    OBVIOUS
  <2> QED BY <2>1
<1>2. PICK n \in Nat : w = n * s
  <2>1. w \div s \in Nat /\ w = (w \div s) * s
    OBVIOUS
  <2> QED BY <2>1
<1>3. m < n
  BY <1>1, <1>2, Products
<1>4. (m + 1) * s <= n * s /\ (m + 1) * s = m * s + s
  BY <1>3, Products
<1>5. (x + s) % s = 0
  <2>1. x + s = (m + 1) * s /\ m + 1 \in Nat
    BY <1>1, <1>4
  <2>2. ((m + 1) * s) % s = 0
    BY <2>1, MultipleIs
  <2> QED BY <2>1, <2>2
<1> QED BY <1>1, <1>2, <1>4, <1>5

LEMMA Constants ==
  /\ W \in Nat /\ W > 0 /\ PARA \in Nat /\ PARA > 0 /\ SECTOR_SIZE \in Nat /\ SECTOR_SIZE > 0
  /\ BYTE \in Nat /\ BYTE > 0 /\ Cylinders \in Nat /\ Cylinders > 0
  /\ LIMIT \in Nat /\ N_INFO \in Nat /\ Zeros \in Nat /\ START \in Nat
  /\ W % SECTOR_SIZE = 0 /\ W % PARA = 0
BY SizeAssumption

\* A file has as many sectors as its bytes need.
LEMMA CeilIs ==
  \A n \in Nat :
    /\ Ceil(n, SECTOR_SIZE) \in Nat /\ n <= Ceil(n, SECTOR_SIZE) * SECTOR_SIZE
    /\ n > 0 => Ceil(n, SECTOR_SIZE) > 0
<1> SUFFICES ASSUME NEW n \in Nat
             PROVE  /\ Ceil(n, SECTOR_SIZE) \in Nat /\ n <= Ceil(n, SECTOR_SIZE) * SECTOR_SIZE
                    /\ n > 0 => Ceil(n, SECTOR_SIZE) > 0
  BY Zenon
<1>1. PICK s \in Nat : s = SECTOR_SIZE /\ s > 0
  BY Constants
<1>2. PICK a \in Nat : a = n + s - 1
  <2>1. n + s - 1 \in Nat
    BY <1>1
  <2> QED BY <2>1
<1>3. PICK q \in Nat : q = a \div s /\ q * s <= a /\ a < q * s + s
  <2>1. a \div s \in Nat /\ (a \div s) * s <= a /\ a < (a \div s) * s + s
    BY <1>1
  <2> QED BY <2>1
<1>4. Ceil(n, SECTOR_SIZE) = q
  BY <1>1, <1>2, <1>3 DEF Ceil
<1>5. PICK m \in Nat : m = q * s
  BY Products
<1>6. n <= m
  BY <1>1, <1>2, <1>3, <1>5
<1>7. n > 0 => q > 0
  <2>1. q = 0 => m = 0
    BY <1>1, <1>5
  <2> QED BY <1>6, <2>1
<1> QED BY <1>1, <1>4, <1>5, <1>6, <1>7

Files == [bytes : Nat, at : Addresses]

\* The words of an address in memory are what it stands for.
LEMMA AddressIs ==
  ASSUME NEW at \in Addresses
  PROVE  /\ Decoded(at).segment \in Nat /\ Decoded(at).offset \in Nat /\ Target(at) \in Nat
         /\ Target(at) < W * PARA =>
              /\ Decoded(at).segment < W /\ Decoded(at).offset < W
              /\ Linear(Decoded(at).segment, Decoded(at).offset) = Target(at)
<1>1. PICK w \in Nat, p \in Nat : w = W /\ p = PARA /\ w > 0 /\ p > 0 /\ w % p = 0
  BY Constants
<1>2. CASE at \in [form : {"pair"}, segment : 0 .. W - 1, offset : 0 .. W - 1]
  <2>1. PICK s \in Nat, o \in Nat : s = at.segment /\ o = at.offset /\ s < W /\ o < W /\ at.form = "pair"
    BY <1>1, <1>2
  <2>2. Decoded(at).segment = s /\ Decoded(at).offset = o /\ Target(at) = Linear(s, o)
    BY <2>1 DEF Decoded, Target
  <2>3. Linear(s, o) \in Nat
    BY <1>1, Products DEF Linear
  <2> QED BY <2>1, <2>2, <2>3
<1>3. CASE at \in [form : {"flat"}, address : Nat]
  <2>1. PICK a \in Nat : a = at.address /\ at.form = "flat"
    BY <1>3
  <2>2. PICK q \in Nat, r \in Nat : q = a \div p /\ r = a % p /\ r < p /\ a = q * p + r
    <3>1. /\ a \div p \in Nat /\ a % p \in Nat /\ a % p < p /\ a = (a \div p) * p + (a % p)
      BY <1>1
    <3> QED BY <3>1
  <2>3. Decoded(at).segment = q % w /\ Decoded(at).offset = r /\ Target(at) = a
    BY <1>1, <2>1, <2>2 DEF Decoded, Target
  <2>4. q % w \in Nat
    BY <1>1
  <2>5. ASSUME a < W * PARA PROVE q < w /\ r < w /\ q % w = q /\ Linear(q, r) = a
    <3>1. PICK m \in Nat, n \in Nat : m = q * p /\ n = w * p
      BY Products
    <3>2. q < w
      BY <1>1, <2>2, <2>5, <3>1, Products
    <3>3. p <= w
      BY <1>1, Multiples
    <3> QED BY <1>1, <2>2, <3>2, <3>3 DEF Linear
  <2> QED BY <1>1, <2>3, <2>4, <2>5
<1> QED BY <1>2, <1>3 DEF Addresses

-----------------------------------------------------------------------------
(***************************************************************************)
(* The disk                                                                *)
(***************************************************************************)

\* The head is over a sector of the disk.
OnDrive ==
  /\ cyl \in Nat /\ cyl < Cylinders /\ head \in Nat /\ head < disk.heads
  /\ sec \in Nat /\ sec > 0 /\ sec <= disk.sectors

LEMMA DiskIs ==
  disk \in Geometries =>
    /\ disk.sectors \in Nat /\ disk.sectors > 1
    /\ disk.heads \in Nat /\ disk.heads > 0 /\ disk.heads <= BYTE
BY Constants, InputAssumption

LEMMA DiskPlace ==
  ASSUME disk \in Geometries, OnDrive
  PROVE  OnDisk(cyl, head, sec) \in Nat
<1>1. PICK S \in Nat, H \in Nat : S = disk.sectors /\ H = disk.heads
  BY DiskIs
<1>2. cyl \in Nat /\ head \in Nat /\ sec \in Nat
  BY DEF OnDrive
<1>3. PICK x \in Nat : x = cyl * H
  BY <1>2, Products
<1>4. PICK y \in Nat : y = x + head
  BY <1>2
<1>5. PICK z \in Nat : z = y * S
  BY Products
<1> QED BY <1>1, <1>2, <1>3, <1>4, <1>5 DEF OnDisk

\* The place the head moves to.
Moves ==
  /\ sec'  = IF LastOfTrack THEN 1 ELSE sec + 1
  /\ head' = IF LastOfCylinder THEN 0 ELSE IF LastOfTrack THEN (head + 1) % BYTE ELSE head
  /\ cyl'  = IF LastOfCylinder THEN cyl + 1 ELSE cyl
  /\ disk' = disk

LEMMA LastIs ==
  ASSUME disk \in Geometries, OnDrive
  PROVE  /\ LastOfTrack <=> sec = disk.sectors
         /\ LastOfCylinder <=> LastOfTrack /\ head + 1 = disk.heads
         /\ LastOfDisk <=> LastOfCylinder /\ cyl + 1 = Cylinders
         /\ head + 1 < disk.heads => (head + 1) % BYTE = head + 1
<1>1. PICK S \in Nat, H \in Nat, B \in Nat : S = disk.sectors /\ H = disk.heads /\ B = BYTE
  BY DiskIs, Constants
<1>2. S > 1 /\ H > 0 /\ H <= B /\ head \in Nat /\ head < H /\ sec \in Nat /\ sec <= S
  BY <1>1, DiskIs DEF OnDrive
<1>3. LastOfTrack <=> sec = S
  BY <1>1, <1>2 DEF LastOfTrack, max_sec
<1>4. /\ head + 1 < B => (head + 1) % B = head + 1
      /\ H < B => H % B = H
      /\ B % B = 0
  BY <1>2
<1>5. (head + 1) % B = H % B <=> head + 1 = H
  BY <1>2, <1>4
<1>6. LastOfCylinder <=> LastOfTrack /\ head + 1 = H
  BY <1>1, <1>5 DEF LastOfCylinder, max_head
<1> QED BY <1>1, <1>2, <1>3, <1>4, <1>6 DEF LastOfDisk

\* The head moves to the next sector.
LEMMA SeekIs ==
  ASSUME disk \in Geometries, OnDrive, ~LastOfDisk, Moves
  PROVE  OnDrive' /\ OnDisk(cyl, head, sec)' = OnDisk(cyl, head, sec) + 1
<1>1. PICK S \in Nat, H \in Nat : S = disk.sectors /\ H = disk.heads /\ S > 1 /\ H > 0
  BY DiskIs
<1>2. /\ cyl \in Nat /\ head \in Nat /\ sec \in Nat /\ cyl < Cylinders /\ head < H
      /\ sec > 0 /\ sec <= S /\ Cylinders \in Nat
  BY <1>1, Constants DEF OnDrive
<1>3. OnDisk(cyl, head, sec) = (cyl * H + head) * S + sec
  BY <1>1 DEF OnDisk
<1>4. OnDisk(cyl, head, sec)' = (cyl' * H + head') * S + sec'
  BY <1>1 DEF OnDisk, Moves
<1>5. PICK m \in Nat : m = cyl * H
  BY <1>2, Products
<1>6. CASE ~LastOfTrack
  <2>1. sec' = sec + 1 /\ head' = head /\ cyl' = cyl /\ sec < S /\ disk' = disk
    BY <1>1, <1>2, <1>6, LastIs DEF Moves
  <2>2. PICK n \in Nat : n = (cyl * H + head) * S
    BY <1>1, <1>2, <1>5, Products
  <2>3. OnDisk(cyl, head, sec) = n + sec /\ OnDisk(cyl, head, sec)' = n + (sec + 1)
    BY <1>3, <1>4, <2>1, <2>2
  <2> QED BY <1>1, <1>2, <2>1, <2>2, <2>3 DEF OnDrive
<1>7. CASE LastOfTrack /\ ~LastOfCylinder
  <2>1. sec' = 1 /\ head' = head + 1 /\ cyl' = cyl /\ sec = S /\ head + 1 < H /\ disk' = disk
    BY <1>1, <1>2, <1>7, LastIs DEF Moves
  <2>2. PICK x \in Nat : x = m + head
    BY <1>2
  <2>3. x + 1 = m + (head + 1)
    BY <1>2, <2>2
  <2>4. PICK n \in Nat : n = x * S /\ (x + 1) * S = n + S
    BY <1>1, Products
  <2>5. OnDisk(cyl, head, sec) = n + S /\ OnDisk(cyl, head, sec)' = (n + S) + 1
    BY <1>3, <1>4, <1>5, <2>1, <2>2, <2>3, <2>4
  <2> QED BY <1>1, <1>2, <2>1, <2>4, <2>5 DEF OnDrive
<1>8. CASE LastOfCylinder
  <2>1. /\ sec' = 1 /\ head' = 0 /\ cyl' = cyl + 1 /\ sec = S /\ head + 1 = H /\ disk' = disk
        /\ cyl + 1 < Cylinders
    BY <1>1, <1>2, <1>8, LastIs DEF Moves
  <2>2. PICK x \in Nat : x = m + head
    BY <1>2
  <2>3. x + 1 = (cyl + 1) * H
    <3>1. (cyl + 1) * H = m + H
      BY <1>1, <1>2, <1>5, Products
    <3> QED BY <1>1, <1>2, <2>1, <2>2, <3>1
  <2>4. PICK n \in Nat : n = x * S /\ (x + 1) * S = n + S
    BY <1>1, Products
  <2>5. ((cyl + 1) * H + 0) * S = n + S
    BY <1>1, <2>2, <2>3, <2>4
  <2>6. OnDisk(cyl, head, sec) = n + S /\ OnDisk(cyl, head, sec)' = (n + S) + 1
    BY <1>3, <1>4, <1>5, <2>1, <2>2, <2>4, <2>5
  <2> QED BY <1>1, <1>2, <2>1, <2>4, <2>6 DEF OnDrive
<1> QED BY <1>6, <1>7, <1>8

\* Only the last sector of the disk stops it.
LEMMA EndIs ==
  ASSUME disk \in Geometries, OnDrive, LastOfDisk
  PROVE  Capacity \in Nat /\ OnDisk(cyl, head, sec) = Capacity
<1>1. PICK S \in Nat, H \in Nat : S = disk.sectors /\ H = disk.heads /\ S > 1 /\ H > 0
  BY DiskIs
<1>2. /\ cyl \in Nat /\ head \in Nat /\ sec = S /\ head + 1 = H /\ cyl + 1 = Cylinders
  BY <1>1, LastIs DEF OnDrive
<1>3. PICK m \in Nat : m = cyl * H /\ (cyl + 1) * H = m + H
  BY <1>1, <1>2, Products
<1>4. PICK x \in Nat : x = m + head /\ x + 1 = (cyl + 1) * H
  BY <1>1, <1>2, <1>3
<1>5. PICK n \in Nat : n = x * S /\ (x + 1) * S = n + S
  BY <1>1, Products
<1>6. OnDisk(cyl, head, sec) = n + S
  BY <1>1, <1>2, <1>3, <1>4, <1>5 DEF OnDisk
<1>7. Capacity = n + S
  BY <1>1, <1>2, <1>4, <1>5 DEF Capacity
<1> QED BY <1>1, <1>5, <1>6, <1>7

-----------------------------------------------------------------------------
(***************************************************************************)
(* The image, as BuildImage leaves it                                      *)
(***************************************************************************)

Bytes == (Nat \X Nat) \cup {<<>>}

\* k of the programs ps are in the image img, program p behind its sector at[p].
Laid(ps, img, at, k) ==
  /\ at \in [1 .. k + 1 -> Nat] /\ at[1] = 2 /\ Len(img) = at[k + 1]
  /\ \A p \in 1 .. k + 1 : at[p] <= Len(img)
  /\ \A p \in 1 .. k :
       /\ at[p + 1] = at[p] + Sectors(ps[p])
       /\ \A n \in Nat : n < Sectors(ps[p]) => img[at[p] + n + 1] = Sector(p, ps[p].bytes, n)

\* Each of them fits and has its words.
Tabulated(ps, words, k) ==
  /\ Len(words) = 3 * k
  /\ \A p \in 1 .. k : /\ Fits(ps[p])
                       /\ words[3 * p - 2] = Sectors(ps[p])
                       /\ words[3 * p - 1] = Decoded(ps[p].at).segment
                       /\ words[3 * p] = Decoded(ps[p].at).offset

BuildTypes ==
  /\ programs \in CommandLines /\ disk \in Geometries
  /\ image \in Seq([1 .. SECTOR_SIZE -> Bytes]) /\ info \in Seq(Nat)

Built(at, k) ==
  /\ k \in Nat /\ k <= Len(programs)
  /\ Laid(programs, image, at, k) /\ Tabulated(programs, info, k)

\* A program of a command line that is regular.
Ordinary(p) ==
  /\ p \in Files /\ p.bytes \in Nat /\ p.bytes > 0 /\ p.at \in Addresses
  /\ Sectors(p) \in Nat /\ Sectors(p) > 0 /\ p.bytes <= Sectors(p) * SECTOR_SIZE
  /\ Target(p.at) \in Nat /\ Target(p.at) + p.bytes <= EndOf(p) /\ EndOf(p) \in Nat
  /\ Fits(p) => EndOf(p) <= W * PARA

LEMMA ProgramsAre ==
  ASSUME RegularLines, NEW ps \in CommandLines
  PROVE  /\ ps \in Seq(Files) /\ Len(ps) \in Nat /\ 3 * Len(ps) # Zeros
         /\ \A p \in 1 .. Len(ps) :
              /\ Ordinary(ps[p]) /\ Straight(ps[p])
              /\ \A r \in 1 .. Len(ps) : r # p => Apart(ps[p], ps[r])
<1>1. ps \in Seq(Files) /\ Len(ps) \in Nat
  <2>1. ps \in Seq(Files)
    BY InputAssumption, Zenon DEF Files
  <2> QED BY <2>1
<1>2. 3 * Len(ps) # Zeros
  BY DEF RegularLines
<1>3. ASSUME NEW p \in 1 .. Len(ps)
      PROVE  /\ Ordinary(ps[p]) /\ Straight(ps[p])
             /\ \A r \in 1 .. Len(ps) : r # p => Apart(ps[p], ps[r])
  <2>1. /\ ps[p].bytes > 0 /\ Straight(ps[p]) /\ (Fits(ps[p]) => EndOf(ps[p]) <= W * PARA)
        /\ \A r \in 1 .. Len(ps) : r # p => Apart(ps[p], ps[r])
    BY DEF RegularLines
  <2>2. PICK f \in Files : f = ps[p]
    BY <1>1
  <2>3. f.bytes \in Nat /\ f.at \in Addresses
    BY DEF Files
  <2>4. PICK n \in Nat : n = Sectors(f) /\ f.bytes <= n * SECTOR_SIZE /\ n > 0
    <3>1. /\ Sectors(f) \in Nat /\ f.bytes <= Sectors(f) * SECTOR_SIZE
          /\ f.bytes > 0 => Sectors(f) > 0
      BY <2>3, CeilIs, Zenon DEF Sectors
    <3> QED BY <2>1, <2>2, <3>1, Zenon
  <2>5. PICK m \in Nat : m = n * SECTOR_SIZE
    BY Constants, Products
  <2>6. PICK t \in Nat : t = Target(f.at)
    BY <2>3, AddressIs
  <2>7. EndOf(f) = t + m
    BY <2>4, <2>5, <2>6 DEF EndOf
  <2>8. Ordinary(f)
    <3>1. f.bytes > 0 /\ (Fits(f) => EndOf(f) <= W * PARA)
      BY <2>1, <2>2, Zenon
    <3>2. Target(f.at) \in Nat /\ Target(f.at) + f.bytes <= EndOf(f) /\ EndOf(f) \in Nat
      BY <2>3, <2>4, <2>5, <2>6, <2>7
    <3>3. Sectors(f) \in Nat /\ Sectors(f) > 0 /\ f.bytes <= Sectors(f) * SECTOR_SIZE
      BY <2>4, Zenon
    <3> QED BY <2>3, <3>1, <3>2, <3>3, Zenon DEF Ordinary
  <2> QED BY <2>1, <2>2, <2>8, Zenon
<1> QED BY <1>1, <1>2, <1>3

\* The copy of a file is as long as it has sectors.
LEMMA CopyIs ==
  \A file \in Nat, n \in Nat :
    /\ copy_file(file, n) \in Seq([1 .. SECTOR_SIZE -> Bytes])
    /\ Len(copy_file(file, n)) = Ceil(n, SECTOR_SIZE)
    /\ \A i \in Nat : i < Ceil(n, SECTOR_SIZE) => copy_file(file, n)[i + 1] = Sector(file, n, i)
<1> SUFFICES ASSUME NEW file \in Nat, NEW n \in Nat
             PROVE  /\ copy_file(file, n) \in Seq([1 .. SECTOR_SIZE -> Bytes])
                    /\ Len(copy_file(file, n)) = Ceil(n, SECTOR_SIZE)
                    /\ \A i \in Nat : i < Ceil(n, SECTOR_SIZE) =>
                                     copy_file(file, n)[i + 1] = Sector(file, n, i)
  BY Zenon
<1>1. PICK c \in Nat : c = Ceil(n, SECTOR_SIZE)
  BY CeilIs, Zenon
<1>2. \A i \in Nat : Sector(file, n, i) \in [1 .. SECTOR_SIZE -> Bytes]
  <2> SUFFICES ASSUME NEW i \in Nat PROVE Sector(file, n, i) \in [1 .. SECTOR_SIZE -> Bytes]
    OBVIOUS
  <2>1. PICK m \in Nat : m = i * SECTOR_SIZE
    BY Constants, Products
  <2>2. \A j \in 1 .. SECTOR_SIZE : m + j - 1 \in Nat /\ <<file, m + j - 1>> \in Bytes /\ <<>> \in Bytes
    BY Constants DEF Bytes
  <2> QED BY <2>1, <2>2 DEF Sector
<1>3. copy_file(file, n) = [i \in 1 .. c |-> Sector(file, n, i - 1)]
  BY <1>1, Zenon DEF copy_file
<1>4. \A i \in 1 .. c : i - 1 \in Nat
  OBVIOUS
<1>5. copy_file(file, n) \in Seq([1 .. SECTOR_SIZE -> Bytes]) /\ Len(copy_file(file, n)) = c
  <2> HIDE DEF Bytes
  <2> QED BY <1>2, <1>3, <1>4
<1>6. ASSUME NEW i \in Nat, i < c PROVE copy_file(file, n)[i + 1] = Sector(file, n, i)
  <2>1. i + 1 \in 1 .. c /\ (i + 1) - 1 = i
    BY <1>6
  <2> QED BY <1>3, <2>1
<1> QED BY <1>1, <1>5, <1>6

Longer(at, k, n) == [p \in 1 .. k + 2 |-> IF p = k + 2 THEN at[k + 1] + n ELSE at[p]]

\* A file is put behind the others.
LEMMA LaidMore ==
  ASSUME RegularLines, NEW ps \in CommandLines, NEW k \in Nat, k < Len(ps), NEW at,
         NEW img \in Seq([1 .. SECTOR_SIZE -> Bytes]), Laid(ps, img, at, k)
  PROVE  LET new == img \o copy_file(k + 1, ps[k + 1].bytes)
         IN  /\ new \in Seq([1 .. SECTOR_SIZE -> Bytes])
             /\ Laid(ps, new, Longer(at, k, Sectors(ps[k + 1])), k + 1)
<1> DEFINE T == [1 .. SECTOR_SIZE -> Bytes]
           copy == copy_file(k + 1, ps[k + 1].bytes)
           new == img \o copy
           at1 == Longer(at, k, Sectors(ps[k + 1]))
<1>1. k + 1 \in 1 .. Len(ps) /\ k + 1 \in Nat
  BY ProgramsAre
<1>2. Ordinary(ps[k + 1])
  BY <1>1, ProgramsAre
<1>3. PICK n \in Nat : n = Sectors(ps[k + 1])
  BY <1>2 DEF Ordinary
<1>4. PICK bytes \in Nat : bytes = ps[k + 1].bytes
  BY <1>2 DEF Ordinary
<1>5. n = Ceil(bytes, SECTOR_SIZE) /\ copy = copy_file(k + 1, bytes)
  BY <1>3, <1>4 DEF Sectors
<1>6. /\ copy \in Seq(T) /\ Len(copy) = n
      /\ \A i \in Nat : i < n => copy[i + 1] = Sector(k + 1, bytes, i)
  <2>1. PICK f \in Nat : f = k + 1
    BY <1>1
  <2>2. /\ copy_file(f, bytes) \in Seq([1 .. SECTOR_SIZE -> Bytes])
        /\ Len(copy_file(f, bytes)) = Ceil(bytes, SECTOR_SIZE)
        /\ \A i \in Nat : i < Ceil(bytes, SECTOR_SIZE) =>
                           copy_file(f, bytes)[i + 1] = Sector(f, bytes, i)
    BY CopyIs, Zenon
  <2> QED BY <1>5, <2>1, <2>2, Zenon
<1>7. PICK l \in Nat : l = Len(img)
  OBVIOUS
<1> HIDE DEF T, copy
<1>8. /\ new \in Seq(T) /\ Len(new) = l + n
      /\ \A i \in 1 .. l + n : new[i] = IF i <= l THEN img[i] ELSE copy[i - l]
  <2>1. img \in Seq(T)
    BY DEF T
  <2> QED BY <1>6, <1>7, <2>1, ConcatProperties
<1> HIDE DEF new
<1>9. /\ at \in [1 .. k + 1 -> Nat] /\ at[1] = 2 /\ l = at[k + 1]
      /\ \A p \in 1 .. k + 1 : at[p] <= l
      /\ \A p \in 1 .. k :
           /\ at[p + 1] = at[p] + Sectors(ps[p])
           /\ \A i \in Nat : i < Sectors(ps[p]) => img[at[p] + i + 1] = Sector(p, ps[p].bytes, i)
  BY <1>7 DEF Laid
<1>10. /\ at1 \in [1 .. k + 2 -> Nat] /\ at1[k + 2] = l + n
       /\ \A p \in 1 .. k + 1 : at1[p] = at[p]
  <2>1. at1 = [p \in 1 .. k + 2 |-> IF p = k + 2 THEN l + n ELSE at[p]]
    BY <1>3, <1>9 DEF Longer
  <2>2. \A p \in 1 .. k + 2 : p # k + 2 => p \in 1 .. k + 1
    OBVIOUS
  <2>3. \A p \in 1 .. k + 1 : p # k + 2 /\ p \in 1 .. k + 2
    OBVIOUS
  <2>4. k + 2 \in 1 .. k + 2 /\ l + n \in Nat
    OBVIOUS
  <2> HIDE DEF at1
  <2> QED BY <1>9, <2>1, <2>2, <2>3, <2>4
<1> HIDE DEF at1
<1>11. /\ at1 \in [1 .. (k + 1) + 1 -> Nat] /\ at1[1] = 2 /\ Len(new) = at1[(k + 1) + 1]
       /\ \A p \in 1 .. (k + 1) + 1 : at1[p] <= Len(new)
  <2>1. (k + 1) + 1 = k + 2 /\ 1 \in 1 .. k + 1
    OBVIOUS
  <2>2. at1[1] = 2
    BY <1>9, <1>10, <2>1
  <2>3. ASSUME NEW p \in 1 .. k + 2 PROVE at1[p] <= l + n
    <3>1. CASE p = k + 2
      BY <1>10, <3>1
    <3>2. CASE p # k + 2
      <4>1. p \in 1 .. k + 1 /\ at1[p] = at[p] /\ at[p] <= l /\ at[p] \in Nat
        BY <1>9, <1>10, <3>2
      <4> QED BY <4>1
    <3> QED BY <3>1, <3>2
  <2> QED BY <1>8, <1>10, <2>1, <2>2, <2>3
<1>12. ASSUME NEW p \in 1 .. k + 1
       PROVE  /\ at1[p + 1] = at1[p] + Sectors(ps[p])
              /\ \A i \in Nat : i < Sectors(ps[p]) => new[at1[p] + i + 1] = Sector(p, ps[p].bytes, i)
  <2>1. CASE p = k + 1
    <3>1. p + 1 = k + 2 /\ at1[p] = l
      BY <1>9, <1>10, <2>1
    <3>2. ASSUME NEW i \in Nat, i < n PROVE new[l + i + 1] = Sector(k + 1, bytes, i)
      <4>1. l + i + 1 \in 1 .. l + n /\ ~(l + i + 1 <= l) /\ (l + i + 1) - l = i + 1
        BY <3>2
      <4>2. new[l + i + 1] = copy[i + 1]
        BY <1>8, <4>1
      <4> QED BY <1>6, <3>2, <4>2
    <3> QED BY <1>3, <1>4, <1>10, <2>1, <3>1, <3>2
  <2>2. CASE p # k + 1
    <3>1. p \in 1 .. k /\ p + 1 \in 1 .. k + 1
      BY <2>2
    <3>2. PICK a \in Nat, b \in Nat, m \in Nat : /\ a = at[p] /\ b = at[p + 1] /\ m = Sectors(ps[p])
                                                /\ b = a + m /\ b <= l
      <4>1. p \in 1 .. Len(ps)
        BY <1>1, <3>1
      <4>2. Sectors(ps[p]) \in Nat
        BY <4>1, ProgramsAre DEF Ordinary
      <4> QED BY <1>9, <3>1, <4>2
    <3>3. at1[p] = a /\ at1[p + 1] = b
      BY <1>10, <3>1, <3>2
    <3>4. ASSUME NEW i \in Nat, i < m PROVE new[a + i + 1] = Sector(p, ps[p].bytes, i)
      <4>1. a + i + 1 \in 1 .. l + n /\ a + i + 1 <= l
        BY <3>2, <3>4, SMTT(40)
      <4>2. img[a + i + 1] = Sector(p, ps[p].bytes, i)
        BY <1>9, <3>1, <3>2, <3>4
      <4> QED BY <1>8, <4>1, <4>2
    <3> QED BY <3>2, <3>3, <3>4
  <2> QED BY <2>1, <2>2
<1> QED BY <1>8, <1>11, <1>12 DEF Laid, T, new, at1, copy

\* And its words behind the others' words.
LEMMA TabulatedMore ==
  ASSUME RegularLines, NEW ps \in CommandLines, NEW k \in Nat, k < Len(ps),
         NEW words \in Seq(Nat), Tabulated(ps, words, k), Fits(ps[k + 1])
  PROVE  words \o Words(ps[k + 1]) \in Seq(Nat) /\ Tabulated(ps, words \o Words(ps[k + 1]), k + 1)
<1> DEFINE w == Words(ps[k + 1])
           new == words \o w
<1>1. k + 1 \in 1 .. Len(ps) /\ k + 1 \in Nat
  BY ProgramsAre
<1>2. Ordinary(ps[k + 1])
  BY <1>1, ProgramsAre
<1>3. PICK bytes \in Nat : bytes = ps[k + 1].bytes
  BY <1>2 DEF Ordinary
<1>4. Len(copy_file(1, ps[k + 1].bytes)) = Sectors(ps[k + 1])
  <2>1. Len(copy_file(1, bytes)) = Ceil(bytes, SECTOR_SIZE)
    <3>1. 1 \in Nat
      OBVIOUS
    <3> QED BY <3>1, CopyIs, Zenon
  <2> QED BY <1>3, <2>1 DEF Sectors
<1>5. PICK n \in Nat, s \in Nat, o \in Nat :
        /\ n = Sectors(ps[k + 1]) /\ s = Decoded(ps[k + 1].at).segment
        /\ o = Decoded(ps[k + 1].at).offset
  BY <1>2, AddressIs DEF Ordinary
<1>6. w = <<n, s, o>>
  BY <1>4, <1>5 DEF Words
<1> HIDE DEF w
<1>7. w \in Seq(Nat) /\ Len(w) = 3 /\ w[1] = n /\ w[2] = s /\ w[3] = o
  BY <1>6
<1>8. PICK l \in Nat : l = Len(words) /\ l = 3 * k
  BY DEF Tabulated
<1>9. /\ new \in Seq(Nat) /\ Len(new) = l + 3
      /\ \A i \in 1 .. l + 3 : new[i] = IF i <= l THEN words[i] ELSE w[i - l]
  <2>1. /\ new \in Seq(Nat) /\ Len(new) = Len(words) + Len(w)
        /\ \A i \in 1 .. Len(words) + Len(w) :
             new[i] = IF i <= Len(words) THEN words[i] ELSE w[i - Len(words)]
    <3>1. words \in Seq(Nat) /\ w \in Seq(Nat)
      BY <1>7
    <3> QED BY <3>1, ConcatProperties
  <2> HIDE DEF new
  <2> QED BY <1>7, <1>8, <2>1
<1> HIDE DEF new
<1>10. ASSUME NEW p \in 1 .. k + 1
       PROVE  /\ Fits(ps[p])
              /\ new[3 * p - 2] = Sectors(ps[p])
              /\ new[3 * p - 1] = Decoded(ps[p].at).segment
              /\ new[3 * p] = Decoded(ps[p].at).offset
  <2>1. CASE p = k + 1
    <3>1. /\ 3 * p - 2 = l + 1 /\ 3 * p - 1 = l + 2 /\ 3 * p = l + 3
          /\ (l + 1) - l = 1 /\ (l + 2) - l = 2 /\ (l + 3) - l = 3
      BY <1>8, <2>1
    <3>2. new[l + 1] = n /\ new[l + 2] = s /\ new[l + 3] = o
      BY <1>7, <1>9
    <3> QED BY <1>5, <2>1, <3>1, <3>2
  <2>2. CASE p # k + 1
    <3>1. p \in 1 .. k
      BY <2>2
    <3>2. /\ Fits(ps[p])
          /\ words[3 * p - 2] = Sectors(ps[p])
          /\ words[3 * p - 1] = Decoded(ps[p].at).segment
          /\ words[3 * p] = Decoded(ps[p].at).offset
      BY <3>1 DEF Tabulated
    <3>3. \A i \in {3 * p - 2, 3 * p - 1, 3 * p} : new[i] = words[i]
      BY <1>8, <1>9, <3>1
    <3> QED BY <3>2, <3>3
  <2> QED BY <2>1, <2>2
<1>11. Len(new) = 3 * (k + 1)
  BY <1>8, <1>9
<1> QED BY <1>9, <1>10, <1>11 DEF Tabulated, new, w

-----------------------------------------------------------------------------
(***************************************************************************)
(* Loading a program                                                       *)
(***************************************************************************)

\* With n sectors of it to come, the next goes to segment seg and offset off.
Placed(p, seg, off, n) ==
  /\ seg \in Nat /\ seg < W /\ off \in Nat /\ off < W
  /\ Linear(seg, off) + n * SECTOR_SIZE = EndOf(p)
  /\ off % SECTOR_SIZE = 0 \/ off + n * SECTOR_SIZE <= W

\* Across the end of 64K the places of the sectors adjoin.
LEMMA AdjustIs ==
  ASSUME NEW p, EndOf(p) <= W * PARA, EndOf(p) \in Nat, NEW n \in Nat, n > 0,
         Placed(p, es, bx, n + 1), adjust
  PROVE  Placed(p, es', bx', n)
<1>1. PICK w \in Nat, a \in Nat, s \in Nat : /\ w = W /\ a = PARA /\ s = SECTOR_SIZE
                                             /\ w > 0 /\ a > 0 /\ s > 0
                                             /\ w % s = 0 /\ w % a = 0
  BY Constants
<1>2. PICK c \in Nat : c = n * s /\ (n + 1) * s = c + s /\ c > 0
  <2>1. n * s \in Nat /\ (n + 1) * s = n * s + s
    BY <1>1, Products
  <2>2. PICK m \in Nat : n = m + 1
    <3>1. n - 1 \in Nat /\ n = (n - 1) + 1
      OBVIOUS
    <3> QED BY <3>1
  <2>3. n * s = m * s + s /\ m * s \in Nat
    BY <1>1, <2>2, Products
  <2> QED BY <1>1, <2>1, <2>3
<1>3. PICK e \in Nat : e = EndOf(p) /\ e <= w * a
  BY <1>1
<1>4. PICK m \in Nat : m = es * a
  BY <1>1, Products DEF Placed
<1>5. /\ es \in Nat /\ es < w /\ bx \in Nat /\ bx < w /\ m + bx + c + s = e
      /\ bx % s = 0 \/ bx + c + s <= w
  BY <1>1, <1>2, <1>3, <1>4 DEF Placed, Linear
<1>6. CASE bx = W - SECTOR_SIZE
  <2>1. PICK q \in Nat : q = w \div a /\ w = q * a
    <3>1. w \div a \in Nat /\ w = (w \div a) * a
      BY <1>1
    <3> QED BY <3>1
  <2>2. bx' = 0 /\ es' = (es + q) % w
    BY <1>1, <1>6, <2>1 DEF adjust
  <2>3. m + w + c = e
    BY <1>1, <1>5, <1>6
  <2>4. (es + q) * a = m + w
    <3>1. (es + q) * a = es * a + q * a
      BY <1>1, <1>5
    <3> QED BY <1>4, <2>1, <3>1
  <2>5. es + q < w
    <3>1. (es + q) * a < w * a
      <4>1. PICK x \in Nat : x = w * a
        BY <1>1, Products
      <4> QED BY <1>2, <1>3, <2>3, <2>4, <4>1
    <3> QED BY <1>1, <1>5, <3>1, Products
  <2>6. es' = es + q /\ es' \in Nat
    <3>1. \A x \in Nat : x < w => x % w = x
      BY <1>1
    <3> QED BY <1>5, <2>2, <2>5, <3>1
  <2>7. Linear(es', bx') + n * SECTOR_SIZE = EndOf(p)
    BY <1>1, <1>2, <1>3, <2>2, <2>3, <2>4, <2>6 DEF Linear
  <2>8. 0 % s = 0
    BY <1>1
  <2> QED BY <1>1, <2>2, <2>5, <2>6, <2>7, <2>8 DEF Placed
<1>7. CASE bx # W - SECTOR_SIZE
  <2>1. bx' = (bx + s) % w /\ es' = es
    BY <1>1, <1>7 DEF adjust
  <2>2. bx + s < w /\ ((bx + s) % s = 0 \/ (bx + s) + c <= w)
    <3>1. CASE bx % s = 0
      <4>1. bx + s <= w /\ (bx + s) % s = 0
        BY <1>1, <1>5, <3>1, Multiples, SMTT(40)
      <4> QED BY <1>1, <1>5, <1>7, <4>1
    <3>2. CASE bx + c + s <= w
      BY <1>1, <1>2, <1>5, <3>2
    <3> QED BY <1>5, <3>1, <3>2
  <2>3. bx' = bx + s
    BY <1>1, <1>5, <2>1, <2>2
  <2>4. m + (bx + s) + c = e
    BY <1>5
  <2>5. Linear(es', bx') + n * SECTOR_SIZE = EndOf(p)
    BY <1>1, <1>2, <1>3, <1>4, <1>5, <2>1, <2>3, <2>4 DEF Linear
  <2>6. bx' \in Nat /\ bx' < W /\ es' \in Nat /\ es' < W
    BY <1>1, <1>5, <2>1, <2>2, <2>3
  <2>7. bx' % SECTOR_SIZE = 0 \/ bx' + n * SECTOR_SIZE <= W
    BY <1>1, <1>2, <2>2, <2>3
  <2> QED BY <2>5, <2>6, <2>7 DEF Placed
<1> QED BY <1>6, <1>7

\* The first n bytes of program p of ps are in the memory m.
Loaded(ps, m, p, n) ==
  \A i \in Nat : i < ps[p].bytes /\ i < n => m[Target(ps[p].at) + i] = <<p, i>>

Cells == 0 .. W * PARA + W - 1

\* What the BIOS leaves in memory when it has read a sector to an address.
Stored(m, m1, to, content) ==
  /\ DOMAIN m = Cells /\ DOMAIN m1 = Cells
  /\ \A a \in Cells :
       m1[a] = IF a \in to .. to + SECTOR_SIZE - 1 THEN content[a - to + 1] ELSE m[a]

LEMMA ReadStores ==
  \A c, h, s, to :
    Read(c, h, s, to) /\ DOMAIN mem = Cells /\ OnDisk(c, h, s) <= Len(image) =>
      Stored(mem, mem', to, image[OnDisk(c, h, s)])
BY DEF Read, Stored

\* The program has a sector more, the others keep what they have.
Adds(ps, m, m1, b, r) ==
  /\ Loaded(ps, m1, b, (r + 1) * SECTOR_SIZE)
  /\ \A p \in 1 .. Len(ps) :
       p # b /\ Fits(ps[p]) /\ Loaded(ps, m, p, ps[p].bytes) => Loaded(ps, m1, p, ps[p].bytes)

LEMMA StoreKeeps ==
  ASSUME RegularLines, NEW ps \in CommandLines, NEW b \in 1 .. Len(ps), Fits(ps[b]),
         NEW r \in Nat, r < Sectors(ps[b]), NEW m, NEW m1,
         Stored(m, m1, Target(ps[b].at) + r * SECTOR_SIZE, Sector(b, ps[b].bytes, r)),
         Loaded(ps, m, b, r * SECTOR_SIZE)
  PROVE  Adds(ps, m, m1, b, r)
<1>1. PICK s \in Nat : s = SECTOR_SIZE /\ s > 0
  BY Constants
<1>2. PICK rs \in Nat : rs = r * s /\ (r + 1) * s = rs + s
  BY <1>1, Products
<1>3. PICK top \in Nat : top = W * PARA /\ \A a \in Nat : a < top => a \in Cells
  <2>1. PICK x \in Nat : x = W * PARA
    BY Constants, Products
  <2>2. \A a \in Nat : a < x => a \in 0 .. x + W - 1
    BY Constants
  <2> QED BY <2>1, <2>2 DEF Cells
<1>4. PICK t \in Nat, e \in Nat, bytes \in Nat :
        /\ t = Target(ps[b].at) /\ e = EndOf(ps[b]) /\ bytes = ps[b].bytes
        /\ t + bytes <= e /\ e <= top /\ t + rs + s <= e
  <2>1. Ordinary(ps[b])
    BY ProgramsAre
  <2>2. PICK n \in Nat : n = Sectors(ps[b]) /\ r + 1 <= n
    BY <2>1 DEF Ordinary
  <2>3. PICK k \in Nat : k = n * s /\ rs + s <= k
    BY <1>1, <1>2, <2>2, Products
  <2>4. PICK t \in Nat, e \in Nat, bytes \in Nat :
          /\ t = Target(ps[b].at) /\ e = EndOf(ps[b]) /\ bytes = ps[b].bytes
          /\ t + bytes <= e /\ e <= top
    BY <1>3, <2>1 DEF Ordinary
  <2>5. e = t + k
    BY <1>1, <2>2, <2>3, <2>4 DEF EndOf
  <2> QED BY <2>3, <2>4, <2>5
<1>5. \A a \in Nat : a < top =>
        m1[a] = IF a \in t + rs .. t + rs + s - 1 THEN Sector(b, bytes, r)[a - (t + rs) + 1] ELSE m[a]
  BY <1>1, <1>2, <1>3, <1>4, Zenon DEF Stored
<1>6. Sector(b, bytes, r) = [j \in 1 .. s |-> IF rs + j - 1 < bytes THEN <<b, rs + j - 1>> ELSE <<>>]
  BY <1>1, <1>2, Zenon DEF Sector
<1>7. Loaded(ps, m1, b, (r + 1) * SECTOR_SIZE)
  <2>1. ASSUME NEW i \in Nat, i < bytes, i < rs + s PROVE m1[t + i] = <<b, i>>
    <3>1. t + i \in Nat /\ t + i < top
      <4>1. i < bytes /\ t + bytes <= e /\ e <= top
        BY <1>4, <2>1, Zenon
      <4> QED BY <4>1
    <3>2. CASE i < rs
      <4>1. t + i \notin t + rs .. t + rs + s - 1
        BY <3>2
      <4>2. m[t + i] = <<b, i>>
        BY <1>1, <1>2, <1>4, <2>1, <3>2 DEF Loaded
      <4> QED BY <1>5, <3>1, <4>1, <4>2
    <3>3. CASE ~(i < rs)
      <4>1. PICK j \in 1 .. s : rs + j - 1 = i /\ (t + i) - (t + rs) + 1 = j
        <5>1. i - rs + 1 \in 1 .. s /\ rs + (i - rs + 1) - 1 = i
              /\ (t + i) - (t + rs) + 1 = i - rs + 1
          BY <2>1, <3>3
        <5> QED BY <5>1
      <4>2. t + i \in t + rs .. t + rs + s - 1
        BY <2>1, <3>3
      <4>3. m1[t + i] = Sector(b, bytes, r)[j]
        BY <1>5, <3>1, <4>1, <4>2
      <4>4. Sector(b, bytes, r)[j] = <<b, i>>
        BY <1>6, <2>1, <4>1
      <4> QED BY <4>3, <4>4
    <3> QED BY <3>2, <3>3
  <2> QED BY <1>1, <1>2, <1>4, <2>1 DEF Loaded
<1>8. ASSUME NEW p \in 1 .. Len(ps), p # b, Fits(ps[p]), Loaded(ps, m, p, ps[p].bytes)
      PROVE  Loaded(ps, m1, p, ps[p].bytes)
  <2>1. PICK u \in Nat, f \in Nat, n \in Nat :
          u = Target(ps[p].at) /\ f = EndOf(ps[p]) /\ n = ps[p].bytes /\ u + n <= f /\ f <= top
    <3>1. Ordinary(ps[p])
      BY ProgramsAre
    <3> QED BY <1>3, <1>8, <3>1 DEF Ordinary
  <2>2. f <= t \/ e <= u
    <3>1. Apart(ps[p], ps[b])
      BY <1>8, ProgramsAre
    <3> QED BY <1>4, <2>1, <3>1 DEF Apart
  <2>3. ASSUME NEW i \in Nat, i < n PROVE m1[u + i] = <<p, i>>
    <3>1. u + i \in Nat /\ u + i < top /\ u + i \notin t + rs .. t + rs + s - 1
      <4>1. u + i < f /\ f <= top
        BY <2>1, <2>3
      <4>4. t + rs + s <= e
        BY <1>4, Zenon
      <4>2. CASE f <= t
        BY <4>1, <4>2, <4>4
      <4>3. CASE e <= u
        BY <4>1, <4>3, <4>4
      <4> QED BY <2>2, <4>2, <4>3
    <3>2. m[u + i] = <<p, i>>
      BY <1>8, <2>1, <2>3 DEF Loaded
    <3> QED BY <1>5, <3>1, <3>2
  <2> QED BY <2>1, <2>3 DEF Loaded
<1> QED BY <1>7, <1>8 DEF Adds

-----------------------------------------------------------------------------
(***************************************************************************)
(* Loading everything                                                      *)
(***************************************************************************)

\* The loader is at program b, of which count sectors are still to come.
Loading(at, b) ==
  /\ count \in Nat /\ di = 3 * b /\ tries \in 1 .. 3 /\ DOMAIN mem = Cells
  /\ OnDrive /\ OnDisk(cyl, head, sec) + count = at[b + 1] + 1
  /\ \A p \in 1 .. b : p < b => Loaded(programs, mem, p, programs[p].bytes)
  /\ b > 0 => /\ count <= Sectors(programs[b])
              /\ Loaded(programs, mem, b, (Sectors(programs[b]) - count) * SECTOR_SIZE)
              /\ count > 0 => Placed(programs[b], es, bx, count)

\* Nothing has been read.
Ready ==
  /\ di = 0 /\ count = 1 /\ tries = 3 /\ DOMAIN mem = Cells
  /\ cyl = 0 /\ head = 0 /\ sec = 2

Stage(at, k) ==
  /\ phase \in {"build", "refused", "load", "map", "switch", "frozen"}
  /\ phase \notin {"build", "refused"} => k = Len(programs) /\ 3 * k < Zeros
  /\ phase = "build" => Ready
  /\ phase = "load" => \E b \in 0 .. k : Loading(at, b)
  /\ phase \in {"map", "switch"} => \A p \in 1 .. k : Loaded(programs, mem, p, programs[p].bytes)
  /\ phase = "frozen" /\ tries > 0 => Len(image) >= Capacity

BootInv == BuildTypes /\ \E at, k : Built(at, k) /\ Stage(at, k)

LEMMA BootStarts == ASSUME RegularLines PROVE Init => BootInv
<1> SUFFICES ASSUME Init PROVE BootInv
  OBVIOUS
<1> DEFINE at == [p \in 1 .. 1 |-> 2]
<1>1. /\ programs \in CommandLines /\ disk \in Geometries /\ info = <<>> /\ phase = "build"
      /\ image = copy_file(0, 2 * SECTOR_SIZE) /\ Ready
  BY DEF Init, Ready, Cells
<1>2. PICK s \in Nat : s = SECTOR_SIZE /\ s > 0
  BY Constants
<1>3. Ceil(2 * s, SECTOR_SIZE) = 2
  <2>1. \A q \in Nat, r \in Nat : r < s => (q * s + r) \div s = q
    BY <1>2
  <2>2. 2 * s + s - 1 = 2 * s + (s - 1) /\ s - 1 \in Nat /\ s - 1 < s
    BY <1>2
  <2>3. (2 * s + (s - 1)) \div s = 2
    BY <2>1, <2>2
  <2> QED BY <1>2, <2>2, <2>3 DEF Ceil
<1>4. image \in Seq([1 .. SECTOR_SIZE -> Bytes]) /\ Len(image) = 2
  <2>1. 0 \in Nat /\ 2 * s \in Nat
    BY <1>2
  <2>2. /\ copy_file(0, 2 * s) \in Seq([1 .. SECTOR_SIZE -> Bytes])
        /\ Len(copy_file(0, 2 * s)) = Ceil(2 * s, SECTOR_SIZE)
    BY <2>1, CopyIs, Zenon
  <2> QED BY <1>1, <1>2, <1>3, <2>2, Zenon
<1>5. Laid(programs, image, at, 0)
  BY <1>4 DEF Laid
<1>6. Tabulated(programs, info, 0) /\ info \in Seq(Nat)
  BY <1>1 DEF Tabulated
<1>7. Len(programs) \in Nat
  BY <1>1, ProgramsAre
<1>8. Built(at, 0)
  BY <1>5, <1>6, <1>7 DEF Built
<1>9. Stage(at, 0)
  BY <1>1 DEF Stage
<1> QED BY <1>1, <1>4, <1>6, <1>8, <1>9, Zenon DEF BootInv, BuildTypes

\* What was built stays when loading begins.
LEMMA BuiltStays ==
  ASSUME BuildTypes, NEW at, NEW k, Built(at, k), UNCHANGED <<buildVars, disk>>
  PROVE  BuildTypes' /\ Built(at, k)'
<1>1. programs' = programs /\ image' = image /\ info' = info /\ disk' = disk
  BY DEF buildVars
<1> QED BY <1>1, Zenon DEF BuildTypes, Built

\* How far the building is.
LEMMA ProcessedIs ==
  ASSUME NEW at, NEW k, Built(at, k)
  PROVE  Processed = k /\ Len(info) = 3 * k
<1>1. k \in Nat /\ Len(info) = 3 * k
  BY DEF Built, Tabulated
<1>2. (3 * k) \div 3 = k
  BY <1>1
<1> QED BY <1>1, <1>2 DEF Processed

LEMMA StepBuild ==
  ASSUME RegularLines, BootInv, process_file PROVE BootInv'
<1>1. PICK at, k : Built(at, k) /\ Stage(at, k)
  BY DEF BootInv
<1>2. /\ programs \in CommandLines /\ disk \in Geometries
      /\ image \in Seq([1 .. SECTOR_SIZE -> Bytes]) /\ info \in Seq(Nat)
  BY DEF BootInv, BuildTypes
<1>3. /\ Processed = k /\ k \in Nat /\ Laid(programs, image, at, k)
      /\ Tabulated(programs, info, k)
  BY <1>1, ProcessedIs DEF Built
<1>4. phase = "build" /\ k < Len(programs) /\ Len(programs) \in Nat /\ Ready
  BY <1>1, <1>2, <1>3, ProgramsAre DEF process_file, Stage
<1>5. UNCHANGED <<programs, loadVars>>
  BY DEF process_file
<1>6. Ready'
  BY <1>4, <1>5, Zenon DEF Ready, loadVars
<1>7. CASE Fits(programs[k + 1]) /\ Len(info) + 3 <= N_INFO
  <2> DEFINE new == image \o copy_file(k + 1, programs[k + 1].bytes)
             words == info \o Words(programs[k + 1])
  <2>0. PICK at1 : at1 = Longer(at, k, Sectors(programs[k + 1]))
    OBVIOUS
  <2>1. image' = new /\ info' = words /\ phase' = phase
    BY <1>3, <1>7 DEF process_file
  <2>2. new \in Seq([1 .. SECTOR_SIZE -> Bytes]) /\ Laid(programs, new, at1, k + 1)
    BY <1>2, <1>3, <1>4, <2>0, LaidMore
  <2>3. words \in Seq(Nat) /\ Tabulated(programs, words, k + 1)
    BY <1>2, <1>3, <1>4, <1>7, TabulatedMore
  <2> HIDE DEF new, words
  <2>4. BuildTypes'
    BY <1>2, <1>5, <2>1, <2>2, <2>3, Zenon DEF BuildTypes, loadVars
  <2>5. k + 1 \in Nat /\ k + 1 <= Len(programs)
    BY <1>3, <1>4
  <2>6. Built(at1, k + 1)'
    BY <1>5, <2>1, <2>2, <2>3, <2>5, Zenon DEF Built
  <2>7. Stage(at1, k + 1)'
    BY <1>4, <1>6, <2>1 DEF Stage
  <2> QED BY <2>4, <2>6, <2>7, Zenon DEF BootInv
<1>8. CASE ~(Fits(programs[k + 1]) /\ Len(info) + 3 <= N_INFO)
  <2>1. phase' = "refused" /\ UNCHANGED <<buildVars, disk>>
    BY <1>3, <1>5, <1>8 DEF process_file, buildVars, loadVars
  <2>2. BuildTypes' /\ Built(at, k)'
    BY <1>1, <2>1, BuiltStays DEF BootInv
  <2>3. Stage(at, k)'
    BY <2>1 DEF Stage
  <2> QED BY <2>2, <2>3, Zenon DEF BootInv
<1> QED BY <1>7, <1>8

LEMMA StepMain ==
  ASSUME RegularLines, BootInv, main PROVE BootInv'
<1>1. PICK at, k : Built(at, k) /\ Stage(at, k)
  BY DEF BootInv
<1>2. programs \in CommandLines /\ disk \in Geometries
  BY DEF BootInv, BuildTypes
<1>3. Processed = k /\ k \in Nat /\ Len(info) = 3 * k
  BY <1>1, ProcessedIs DEF Built
<1>4. phase = "build" /\ k = Len(programs) /\ Ready /\ 3 * k # Zeros /\ Zeros \in Nat
  BY <1>1, <1>2, <1>3, ProgramsAre, Constants DEF main, Stage
<1>5. UNCHANGED <<buildVars, loadVars, disk>>
  BY DEF main, loadVars
<1>6. BuildTypes' /\ Built(at, k)'
  BY <1>1, <1>5, BuiltStays DEF BootInv
<1>7. Stage(at, k)'
  <2>1. CASE Len(info) <= Zeros
    <3>1. phase' = "load" /\ 3 * k < Zeros
      BY <1>3, <1>4, <2>1 DEF main
    <3>2. Loading(at, 0)
      <4>1. OnDrive
        BY <1>2, <1>4, DiskIs, Constants DEF Ready, OnDrive
      <4>2. OnDisk(cyl, head, sec) = 2
        BY <1>2, <1>4, DiskIs DEF OnDisk, Ready
      <4>3. at[0 + 1] = 2
        BY <1>1 DEF Built, Laid
      <4> QED BY <1>4, <4>1, <4>2, <4>3 DEF Loading, Ready
    <3>3. Loading(at, 0)'
      BY <1>5, <3>2, Zenon DEF Loading, OnDrive, OnDisk, loadVars, buildVars
    <3>4. k' = k /\ programs' = programs
      BY <1>5 DEF buildVars
    <3> QED BY <1>3, <1>4, <3>1, <3>3, <3>4 DEF Stage
  <2>2. CASE ~(Len(info) <= Zeros)
    <3>1. phase' = "refused"
      BY <2>2 DEF main
    <3> QED BY <3>1 DEF Stage
  <2> QED BY <2>1, <2>2
<1> QED BY <1>6, <1>7, Zenon DEF BootInv

\* What is known while a block is being loaded.
InLoad(at, k, b) ==
  /\ BuildTypes /\ Built(at, k) /\ k = Len(programs) /\ 3 * k < Zeros
  /\ k \in Nat /\ b \in Nat /\ b <= k /\ Loading(at, b)

LEMMA LoadIs == BootInv /\ phase = "load" => \E at, k, b : InLoad(at, k, b)
<1> SUFFICES ASSUME BootInv, phase = "load" PROVE \E at, k, b : InLoad(at, k, b)
  BY Zenon
<1>1. PICK at, k : Built(at, k) /\ Stage(at, k)
  BY DEF BootInv
<1>2. k = Len(programs) /\ 3 * k < Zeros /\ k \in Nat
  BY <1>1 DEF Stage, Built
<1>3. PICK b \in 0 .. k : Loading(at, b)
  BY <1>1 DEF Stage
<1>4. b \in Nat /\ b <= k
  BY <1>2
<1>5. InLoad(at, k, b)
  BY <1>1, <1>2, <1>3, <1>4, Zenon DEF InLoad, BootInv
<1> QED BY <1>5

\* A step of the loader goes on with the same image.
LEMMA LoadGoesOn ==
  ASSUME NEW at, NEW k, NEW b, InLoad(at, k, b), UNCHANGED <<buildVars, disk>>,
         NEW b1 \in Nat, b1 <= k, Loading(at, b1)', phase' = "load"
  PROVE  BootInv'
<1>1. BuildTypes' /\ Built(at, k)'
  BY BuiltStays, Zenon DEF InLoad
<1>2. k = Len(programs)' /\ 3 * k < Zeros /\ b1 \in 0 .. k
  BY DEF InLoad, buildVars
<1>3. Stage(at, k)'
  BY <1>2 DEF Stage
<1> QED BY <1>1, <1>3, Zenon DEF BootInv

\* All sectors of a program are all of its bytes.
LEMMA LoadedWhole ==
  ASSUME RegularLines, NEW at, NEW k, NEW b, InLoad(at, k, b), count = 0
  PROVE  \A p \in 1 .. b : Loaded(programs, mem, p, programs[p].bytes)
<1> SUFFICES ASSUME NEW p \in 1 .. b PROVE Loaded(programs, mem, p, programs[p].bytes)
  OBVIOUS
<1>1. programs \in CommandLines /\ b \in Nat /\ p \in 1 .. Len(programs) /\ Loading(at, b)
  BY DEF InLoad, BuildTypes
<1>2. CASE p < b
  BY <1>1, <1>2 DEF Loading
<1>3. CASE ~(p < b)
  <2>1. p = b /\ b > 0
    BY <1>1, <1>3
  <2>2. PICK n \in Nat, bytes \in Nat, m \in Nat : /\ n = Sectors(programs[b]) /\ m = n * SECTOR_SIZE
                                                   /\ bytes = programs[b].bytes /\ bytes <= m
    <3>1. Ordinary(programs[b])
      BY <1>1, <2>1, ProgramsAre
    <3> QED BY <3>1, Constants, Products DEF Ordinary
  <2>3. Loaded(programs, mem, b, m)
    <3>1. n - 0 = n
      OBVIOUS
    <3> QED BY <1>1, <2>1, <2>2, <3>1 DEF Loading
  <2> QED BY <2>1, <2>2, <2>3 DEF Loaded
<1> QED BY <1>2, <1>3

\* The words of the next program, and the end of the table.
LEMMA TableIs ==
  ASSUME RegularLines, NEW at, NEW k, NEW b, InLoad(at, k, b)
  PROVE  /\ b = k => TableWord(di) = 0
         /\ b < k => /\ TableWord(di) = Sectors(programs[b + 1])
                     /\ TableWord(di + 1) = Decoded(programs[b + 1].at).segment
                     /\ TableWord(di + 2) = Decoded(programs[b + 1].at).offset
                     /\ Fits(programs[b + 1]) /\ at[b + 2] = at[b + 1] + Sectors(programs[b + 1])
<1>1. /\ k \in Nat /\ b \in Nat /\ b <= k /\ di = 3 * b /\ 3 * k < Zeros /\ Len(info) = 3 * k
      /\ Tabulated(programs, info, k) /\ Laid(programs, image, at, k)
  BY DEF InLoad, Loading, Built, Tabulated
<1>2. b = k => TableWord(di) = 0
  BY <1>1, Constants DEF TableWord
<1>3. ASSUME b < k
      PROVE  /\ TableWord(di) = Sectors(programs[b + 1])
             /\ TableWord(di + 1) = Decoded(programs[b + 1].at).segment
             /\ TableWord(di + 2) = Decoded(programs[b + 1].at).offset
             /\ Fits(programs[b + 1]) /\ at[b + 2] = at[b + 1] + Sectors(programs[b + 1])
  <2>1. PICK q \in 1 .. k : q = b + 1
    BY <1>1, <1>3
  <2>2. /\ di + 1 = 3 * q - 2 /\ (di + 1) + 1 = 3 * q - 1 /\ (di + 2) + 1 = 3 * q
        /\ di + 2 < Len(info) /\ q + 1 = b + 2
    BY <1>1, <2>1
  <2>3. TableWord(di) = info[di + 1] /\ TableWord(di + 1) = info[(di + 1) + 1]
        /\ TableWord(di + 2) = info[(di + 2) + 1]
    BY <1>1, <2>2 DEF TableWord
  <2>4. /\ Fits(programs[q]) /\ info[3 * q - 2] = Sectors(programs[q])
        /\ info[3 * q - 1] = Decoded(programs[q].at).segment
        /\ info[3 * q] = Decoded(programs[q].at).offset
        /\ at[q + 1] = at[q] + Sectors(programs[q])
    BY <1>1, Zenon DEF Tabulated, Laid
  <2> QED BY <2>1, <2>2, <2>3, <2>4
<1> QED BY <1>2, <1>3

\* A program begins at its place.
LEMMA PlacedFirst ==
  ASSUME NEW p, Ordinary(p), Straight(p), Fits(p)
  PROVE  Placed(p, Decoded(p.at).segment, Decoded(p.at).offset, Sectors(p))
<1>1. PICK t \in Nat, e \in Nat, top \in Nat : /\ t = Target(p.at) /\ e = EndOf(p) /\ top = W * PARA
                                               /\ t < e /\ e <= top
  BY Constants, Products DEF Ordinary
<1>2. /\ Decoded(p.at).segment \in Nat /\ Decoded(p.at).offset \in Nat
      /\ Decoded(p.at).segment < W /\ Decoded(p.at).offset < W
      /\ Linear(Decoded(p.at).segment, Decoded(p.at).offset) = Target(p.at)
  <2>1. p.at \in Addresses /\ Target(p.at) < W * PARA
    BY <1>1 DEF Ordinary
  <2> QED BY <2>1, AddressIs
<1> QED BY <1>2 DEF Placed, EndOf, Straight

LEMMA StepNextblock ==
  ASSUME RegularLines, BootInv, nextblock PROVE BootInv'
<1>1. phase = "load" /\ count = 0 /\ UNCHANGED <<buildVars, disk, cyl, head, sec, tries, mem, mapVars>>
  BY DEF nextblock
<1>2. PICK at, k, b : InLoad(at, k, b)
  BY <1>1, LoadIs
<1>3. /\ k \in Nat /\ b \in Nat /\ b <= k /\ k = Len(programs) /\ 3 * k < Zeros
      /\ programs \in CommandLines /\ disk \in Geometries /\ Loading(at, b)
  BY <1>2 DEF InLoad, BuildTypes
<1>4. \A p \in 1 .. b : Loaded(programs, mem, p, programs[p].bytes)
  BY <1>1, <1>2, LoadedWhole
<1>5. programs' = programs /\ mem' = mem
  BY <1>1 DEF buildVars
<1>6. CASE b = k
  <2>1. phase' = "map"
    BY <1>2, <1>6, TableIs DEF nextblock
  <2>2. Stage(at, k)'
    BY <1>3, <1>4, <1>5, <1>6, <2>1 DEF Stage
  <2>3. BuildTypes' /\ Built(at, k)'
    BY <1>1, <1>2, BuiltStays DEF InLoad
  <2> QED BY <2>2, <2>3, Zenon DEF BootInv
<1>7. CASE b # k
  <2>1. PICK q \in 1 .. Len(programs) : q = b + 1
    BY <1>3, <1>7
  <2>2. q \in Nat /\ q <= k /\ q > 0 /\ b < k /\ q + 1 = b + 2 /\ 3 * b + 3 = 3 * q
    BY <1>3, <1>7, <2>1
  <2>3. Ordinary(programs[q]) /\ Straight(programs[q])
    BY <1>3, ProgramsAre
  <2>4. PICK n \in Nat : n = Sectors(programs[q]) /\ n > 0
    BY <2>3 DEF Ordinary
  <2>5. /\ TableWord(di) = n /\ Fits(programs[q]) /\ at[q + 1] = at[q] + n
        /\ TableWord(di + 1) = Decoded(programs[q].at).segment
        /\ TableWord(di + 2) = Decoded(programs[q].at).offset
    BY <1>2, <2>1, <2>2, <2>4, TableIs
  <2>6. /\ count' = n /\ es' = Decoded(programs[q].at).segment
        /\ bx' = Decoded(programs[q].at).offset /\ di' = di + 3 /\ phase' = "load"
    BY <1>1, <2>4, <2>5 DEF nextblock
  <2>7. Placed(programs[q], es', bx', count')
    BY <2>3, <2>4, <2>5, <2>6, PlacedFirst
  <2>8. di' = 3 * q /\ tries' \in 1 .. 3 /\ DOMAIN mem' = Cells
    BY <1>1, <1>3, <2>2, <2>6 DEF Loading
  <2>9. OnDrive' /\ OnDisk(cyl, head, sec)' + count' = at[q + 1] + 1
    <3>1. OnDrive /\ OnDisk(cyl, head, sec) + 0 = at[q] + 1
      BY <1>1, <1>3, <2>1 DEF Loading
    <3>2. OnDrive' /\ OnDisk(cyl, head, sec)' = OnDisk(cyl, head, sec)
      BY <1>1, <3>1 DEF OnDrive, OnDisk
    <3>3. at[q] \in Nat /\ OnDisk(cyl, head, sec) \in Int
      <4>1. q \in 1 .. k + 1
        BY <1>3, <2>1
      <4>2. at[q] \in Nat
        BY <1>2, <4>1 DEF InLoad, Built, Laid
      <4>3. OnDisk(cyl, head, sec) \in Nat
        BY <1>3, <3>1, DiskPlace
      <4> QED BY <4>2, <4>3
    <3> QED BY <2>5, <2>6, <3>1, <3>2, <3>3
  <2>10. \A p \in 1 .. q : p < q => Loaded(programs, mem, p, programs[p].bytes)'
    <3> TAKE p \in 1 .. q
    <3> HAVE p < q
    <3>1. p \in 1 .. b
      BY <1>3, <2>1
    <3>2. Loaded(programs, mem, p, programs[p].bytes)
      BY <1>4, <3>1
    <3> QED BY <1>5, <3>2 DEF Loaded
  <2>11. Loaded(programs, mem, q, (Sectors(programs[q]) - count) * SECTOR_SIZE)'
    <3>1. (Sectors(programs'[q]) - count') * SECTOR_SIZE = 0
      <4>1. n - n = 0 /\ 0 * SECTOR_SIZE = 0
        BY Constants
      <4> QED BY <1>5, <2>4, <2>6, <4>1
    <3> QED BY <3>1 DEF Loaded
  <2>12. Loading(at, q)'
    <3>1. count' \in Nat /\ count' <= Sectors(programs'[q])
      BY <1>5, <2>4, <2>6
    <3> QED BY <1>5, <2>7, <2>8, <2>9, <2>10, <2>11, <3>1, Zenon DEF Loading
  <2>13. UNCHANGED <<buildVars, disk>>
    BY <1>1
  <2> QED BY <1>2, <2>2, <2>6, <2>12, <2>13, LoadGoesOn
<1> QED BY <1>6, <1>7

LEMMA StepRetry ==
  ASSUME RegularLines, BootInv, retry PROVE BootInv'
<1>1. /\ phase = "load" /\ UNCHANGED <<buildVars, disk, di, count, es, bx, cyl, head, sec, mem>>
      /\ tries' = tries - 1 /\ phase' = IF tries' = 0 THEN "frozen" ELSE phase
  BY DEF retry
<1>2. PICK at, k, b : InLoad(at, k, b)
  BY <1>1, LoadIs
<1>3. /\ k \in Nat /\ b \in Nat /\ b <= k /\ k = Len(programs) /\ 3 * k < Zeros /\ Loading(at, b)
  BY <1>2 DEF InLoad
<1>4. UNCHANGED <<buildVars, disk>> /\ programs' = programs
  BY <1>1 DEF buildVars
<1>5. CASE tries' = 0
  <2>1. phase' = "frozen" /\ ~(tries' > 0)
    <3>1. phase' = "frozen"
      BY <1>1, <1>5, Zenon
    <3>2. ~(tries' > 0)
      BY <1>5
    <3> QED BY <3>1, <3>2
  <2>2. Stage(at, k)'
    BY <1>3, <1>4, <2>1 DEF Stage
  <2>3. BuildTypes' /\ Built(at, k)'
    BY <1>2, <1>4, BuiltStays DEF InLoad
  <2> QED BY <2>2, <2>3, Zenon DEF BootInv
<1>6. CASE tries' # 0
  <2>1. tries' \in 1 .. 3
    BY <1>1, <1>3, <1>6 DEF Loading
  <2>2. OnDrive' /\ OnDisk(cyl, head, sec)' = OnDisk(cyl, head, sec)
    BY <1>1, <1>3 DEF OnDrive, OnDisk, Loading
  <2>3. Loading(at, b)'
    BY <1>1, <1>3, <1>4, <2>1, <2>2, Zenon DEF Loading
  <2>4. phase' = "load"
    BY <1>1, <1>6
  <2> QED BY <1>2, <1>3, <1>4, <2>3, <2>4, LoadGoesOn
<1> QED BY <1>5, <1>6

\* A sector of a program is read; what is loaded, and where the next one goes.
LEMMA SectorIs ==
  ASSUME RegularLines, NEW at, NEW k, NEW b \in Nat \ {0}, InLoad(at, k, b),
         NEW c \in Nat, count = c + 1, Read(cyl, head, sec, Linear(es, bx)), adjust,
         programs' = programs
  PROVE  /\ DOMAIN mem' = Cells
         /\ c <= Sectors(programs[b])
         /\ Loaded(programs, mem', b, (Sectors(programs[b]) - c) * SECTOR_SIZE)
         /\ c > 0 => Placed(programs[b], es', bx', c)
         /\ \A p \in 1 .. b : p < b => Loaded(programs, mem', p, programs[p].bytes)
<1>1. /\ k \in Nat /\ b \in Nat /\ b > 0 /\ b <= k /\ k = Len(programs) /\ programs \in CommandLines
      /\ disk \in Geometries /\ Laid(programs, image, at, k) /\ Tabulated(programs, info, k)
      /\ Loading(at, b) /\ OnDrive /\ b \in 1 .. Len(programs)
  BY DEF InLoad, BuildTypes, Built, Loading
<1>2. /\ OnDisk(cyl, head, sec) + count = at[b + 1] + 1 /\ DOMAIN mem = Cells
      /\ count <= Sectors(programs[b])
      /\ Loaded(programs, mem, b, (Sectors(programs[b]) - count) * SECTOR_SIZE)
      /\ Placed(programs[b], es, bx, count)
      /\ \A p \in 1 .. b : p < b => Loaded(programs, mem, p, programs[p].bytes)
  BY <1>1 DEF Loading
<1>3. Ordinary(programs[b]) /\ Fits(programs[b])
  BY <1>1, ProgramsAre DEF Tabulated
<1>4. PICK n \in Nat, r \in Nat : n = Sectors(programs[b]) /\ n = r + count /\ r < n
  <2>1. PICK n \in Nat : n = Sectors(programs[b]) /\ count <= n
    BY <1>2, <1>3 DEF Ordinary
  <2>2. n - count \in Nat /\ n = (n - count) + count /\ n - count < n
    BY <2>1
  <2> QED BY <2>1, <2>2
<1>5. PICK s \in Nat : s = SECTOR_SIZE
  BY Constants
<1>6. PICK rs \in Nat, cs \in Nat, ns \in Nat : rs = r * s /\ cs = count * s /\ ns = n * s /\ ns = rs + cs
  <2>1. r * s \in Nat /\ count * s \in Nat
    BY Products
  <2>2. (r + count) * s = r * s + count * s
    OBVIOUS
  <2>3. r * s + count * s \in Nat /\ n * s = r * s + count * s
    BY <1>4, <2>1, <2>2
  <2> QED BY <2>1, <2>3
<1>7. PICK t \in Nat, e \in Nat : t = Target(programs[b].at) /\ e = EndOf(programs[b]) /\ e = t + ns
  BY <1>3, <1>4, <1>5, <1>6 DEF Ordinary, EndOf
<1>8. Linear(es, bx) = Target(programs[b].at) + r * SECTOR_SIZE
  <2>1. PICK x \in Nat : x = Linear(es, bx)
    <3>1. es \in Nat /\ bx \in Nat /\ PARA \in Nat
      BY <1>2, Constants DEF Placed
    <3>2. es * PARA \in Nat
      BY <3>1, Products
    <3> QED BY <3>1, <3>2 DEF Linear
  <2>2. x + cs = e
    BY <1>2, <1>5, <1>6, <1>7, <2>1 DEF Placed
  <2>3. x = t + rs
    <3>1. ns = rs + cs
      BY <1>6, Zenon
    <3>2. e = t + ns
      BY <1>7, Zenon
    <3> QED BY <2>2, <3>1, <3>2
  <2> QED BY <1>5, <1>6, <1>7, <2>1, <2>3
<1>9. OnDisk(cyl, head, sec) = at[b] + r + 1 /\ OnDisk(cyl, head, sec) <= Len(image)
  <2>1. b \in 1 .. k /\ b \in 1 .. k + 1 /\ b + 1 \in 1 .. k + 1
    BY <1>1
  <2>2. PICK x \in Nat, y \in Nat, l \in Nat : /\ x = at[b] /\ y = at[b + 1] /\ l = Len(image)
                                              /\ y = x + n /\ y <= l
    <3>1. Len(image) \in Nat
      BY DEF InLoad, BuildTypes
    <3>2. at[b] \in Nat /\ at[b + 1] \in Nat /\ at[b + 1] <= Len(image)
      BY <1>1, <2>1 DEF Laid
    <3>3. at[b + 1] = at[b] + Sectors(programs[b])
      BY <1>1, <2>1, Zenon DEF Laid
    <3> QED BY <1>4, <3>1, <3>2, <3>3
  <2>3. PICK d \in Nat : d = OnDisk(cyl, head, sec)
    BY <1>1, DiskPlace
  <2>4. d + count = y + 1
    BY <1>2, <2>2, <2>3
  <2>5. d = x + r + 1 /\ d <= y
    BY <1>4, <2>2, <2>4, SMTT(40)
  <2> QED BY <2>2, <2>3, <2>5
<1>10. image[OnDisk(cyl, head, sec)] = Sector(b, programs[b].bytes, r)
  <2>1. b \in 1 .. k
    BY <1>1
  <2>2. image[at[b] + r + 1] = Sector(b, programs[b].bytes, r)
    BY <1>1, <1>4, <2>1 DEF Laid
  <2> QED BY <1>9, <2>2
<1>11. Stored(mem, mem', Target(programs[b].at) + r * SECTOR_SIZE, Sector(b, programs[b].bytes, r))
  <2>1. Stored(mem, mem', Linear(es, bx), image[OnDisk(cyl, head, sec)])
    BY <1>2, <1>9, ReadStores, Zenon
  <2> QED BY <1>8, <1>10, <2>1, Zenon
<1>12. Loaded(programs, mem, b, r * SECTOR_SIZE)
  <2>1. n - count = r
    BY <1>4
  <2> QED BY <1>2, <1>4, <2>1
<1>13. Adds(programs, mem, mem', b, r)
  <2>1. programs \in CommandLines /\ b \in 1 .. Len(programs) /\ Fits(programs[b]) /\ r < Sectors(programs[b])
    BY <1>1, <1>3, <1>4
  <2> QED BY <1>11, <1>12, <2>1, StoreKeeps
<1>14. ASSUME NEW p \in 1 .. b, p < b PROVE Loaded(programs, mem', p, programs[p].bytes)
  <2>1. p \in 1 .. k /\ p \in 1 .. Len(programs) /\ p # b
    BY <1>1, <1>14
  <2>2. Fits(programs[p])
    BY <1>1, <2>1 DEF Tabulated
  <2> QED BY <1>2, <1>13, <1>14, <2>1, <2>2 DEF Adds
<1>15. c <= Sectors(programs[b]) /\ Sectors(programs[b]) - c = r + 1
  BY <1>4
<1>16. ASSUME c > 0 PROVE Placed(programs[b], es', bx', c)
  <2>1. EndOf(programs[b]) <= W * PARA /\ EndOf(programs[b]) \in Nat
    BY <1>3 DEF Ordinary
  <2>2. Placed(programs[b], es, bx, c + 1)
    BY <1>2
  <2> QED BY <1>16, <2>1, <2>2, AdjustIs
<1>17. DOMAIN mem' = Cells
  BY <1>11 DEF Stored
<1> QED BY <1>13, <1>14, <1>15, <1>16, <1>17 DEF Adds

LEMMA StepReadcont ==
  ASSUME RegularLines, BootInv, readcont PROVE BootInv'
<1>1. /\ phase = "load" /\ count > 0 /\ UNCHANGED <<buildVars, disk, di>>
      /\ Read(cyl, head, sec, Linear(es, bx)) /\ adjust
  BY DEF readcont
<1>2. PICK at, k, b : InLoad(at, k, b)
  BY <1>1, LoadIs
<1>3. /\ k \in Nat /\ b \in Nat /\ b <= k /\ k = Len(programs) /\ 3 * k < Zeros /\ Loading(at, b)
      /\ disk \in Geometries /\ OnDrive
  BY <1>2 DEF InLoad, BuildTypes, Loading
<1>4. PICK c \in Nat : count = c + 1
  <2>1. count - 1 \in Nat /\ count = (count - 1) + 1
    BY <1>1, <1>3 DEF Loading
  <2> QED BY <2>1
<1>5. UNCHANGED <<buildVars, disk>> /\ programs' = programs
  BY <1>1 DEF buildVars
<1>6. PICK d \in Nat, y \in Nat, l \in Nat : /\ d = OnDisk(cyl, head, sec) /\ y = at[b + 1]
                                             /\ d + count = y + 1 /\ y <= l /\ l = Len(image)
  <2>1. OnDisk(cyl, head, sec) \in Nat
    BY <1>3, DiskPlace
  <2>2. b + 1 \in 1 .. k + 1
    BY <1>3
  <2>3. at[b + 1] \in Nat /\ at[b + 1] <= Len(image) /\ Len(image) \in Nat
    <3>1. at \in [1 .. k + 1 -> Nat] /\ at[b + 1] <= Len(image)
      BY <1>2, <2>2 DEF InLoad, Built, Laid
    <3>2. Len(image) \in Nat
      BY <1>2 DEF InLoad, BuildTypes
    <3> QED BY <2>2, <3>1, <3>2
  <2>4. OnDisk(cyl, head, sec) + count = at[b + 1] + 1
    BY <1>3 DEF Loading
  <2> QED BY <2>1, <2>3, <2>4
<1>7. CASE LastOfDisk
  <2>1. phase' = "frozen"
    BY <1>7 DEF readcont
  <2>2. Capacity \in Nat /\ d = Capacity
    BY <1>3, <1>6, <1>7, EndIs
  <2>3. Len(image) >= Capacity
    BY <1>4, <1>6, <2>2
  <2>4. image' = image /\ Capacity' = Capacity
    BY <1>5 DEF buildVars, Capacity
  <2>5. Stage(at, k)'
    BY <1>3, <1>5, <2>1, <2>3, <2>4 DEF Stage
  <2>6. BuildTypes' /\ Built(at, k)'
    BY <1>2, <1>5, BuiltStays DEF InLoad
  <2> QED BY <2>5, <2>6, Zenon DEF BootInv
<1>8. CASE ~LastOfDisk
  <2>1. Moves /\ tries' = 3 /\ count' = count - 1 /\ phase' = "load"
    BY <1>1, <1>8 DEF readcont, Moves
  <2>2. OnDrive' /\ OnDisk(cyl, head, sec)' = d + 1
    BY <1>3, <1>6, <1>8, <2>1, SeekIs
  <2>3. count' = c /\ OnDisk(cyl, head, sec)' + count' = at[b + 1] + 1 /\ di' = 3 * b /\ tries' \in 1 .. 3
    BY <1>1, <1>3, <1>4, <1>6, <2>1, <2>2 DEF Loading
  <2>4. CASE b = 0
    <3>1. DOMAIN mem' = Cells
      BY <1>1, <1>3 DEF Read, Loading
    <3>2. ~(b > 0) /\ \A p \in 1 .. b : FALSE
      BY <2>4
    <3>3. Loading(at, b)'
      BY <1>4, <2>2, <2>3, <3>1, <3>2 DEF Loading
    <3> QED BY <1>2, <1>3, <1>5, <2>1, <3>3, LoadGoesOn
  <2>5. CASE b # 0
    <3>1. b \in Nat \ {0}
      BY <1>3, <2>5
    <3>2. /\ DOMAIN mem' = Cells
          /\ c <= Sectors(programs[b])
          /\ Loaded(programs, mem', b, (Sectors(programs[b]) - c) * SECTOR_SIZE)
          /\ c > 0 => Placed(programs[b], es', bx', c)
          /\ \A p \in 1 .. b : p < b => Loaded(programs, mem', p, programs[p].bytes)
      BY <1>1, <1>2, <1>4, <1>5, <3>1, SectorIs
    <3>3. Loading(at, b)'
      BY <1>4, <1>5, <2>2, <2>3, <3>2, Zenon DEF Loading
    <3> QED BY <1>2, <1>3, <1>5, <2>1, <3>3, LoadGoesOn
  <2> QED BY <2>4, <2>5
<1> QED BY <1>7, <1>8

LEMMA StepMap ==
  ASSUME BootInv, \/ phase = "map" /\ UNCHANGED <<buildVars, loadVars>> /\ phase' \in {"map", "switch"}
                  \/ UNCHANGED vars
  PROVE  BootInv'
<1>1. PICK at, k : Built(at, k) /\ Stage(at, k)
  BY DEF BootInv
<1>2. /\ UNCHANGED <<programs, image, info, disk, di, count, es, bx, cyl, head, sec, tries, mem>>
      /\ phase' = phase \/ (phase = "map" /\ phase' \in {"map", "switch"})
  BY DEF buildVars, loadVars, vars
<1>3. BuildTypes' /\ Built(at, k)'
  BY <1>1, <1>2, BuiltStays, Zenon DEF BootInv, buildVars
<1>4. Ready <=> Ready'
  BY <1>2 DEF Ready
<1>5. \A b : Loading(at, b) <=> Loading(at, b)'
  BY <1>2, Zenon DEF Loading, OnDrive, OnDisk
<1>6. Capacity' = Capacity
  BY <1>2 DEF Capacity
<1>7. Stage(at, k)'
  BY <1>1, <1>2, <1>4, <1>5, <1>6 DEF Stage
<1> QED BY <1>3, <1>7, Zenon DEF BootInv

LEMMA BootSteps ==
  ASSUME RegularLines PROVE BootInv /\ [Next]_vars => BootInv'
<1> SUFFICES ASSUME BootInv, [Next]_vars PROVE BootInv'
  OBVIOUS
<1>1. CASE process_file
  BY <1>1, StepBuild
<1>2. CASE main
  BY <1>2, StepMain
<1>3. CASE nextblock
  BY <1>3, StepNextblock
<1>4. CASE readcont
  BY <1>4, StepReadcont
<1>5. CASE retry
  BY <1>5, StepRetry
<1>6. CASE check_memory \/ cm_failed \/ cm_loop \/ cm_end_of_list
  <2>1. phase = "map" /\ UNCHANGED <<buildVars, loadVars>> /\ phase' \in {"map", "switch"}
    BY <1>6 DEF check_memory, cm_failed, cm_loop, cm_end_of_list, Report
  <2> QED BY <2>1, StepMap
<1>7. CASE UNCHANGED vars
  BY <1>7, StepMap
<1> QED BY <1>1, <1>2, <1>3, <1>4, <1>5, <1>6, <1>7 DEF Next

LEMMA InvLoaded == BootInv => LoadedAsBuilt
<1> SUFFICES ASSUME BootInv PROVE LoadedAsBuilt
  OBVIOUS
<1>1. PICK at, k : Built(at, k) /\ Stage(at, k)
  BY DEF BootInv
<1>2. ASSUME phase \in {"map", "switch"}, NEW p \in 1 .. Len(programs),
             NEW i \in 0 .. programs[p].bytes - 1
      PROVE  mem[Target(programs[p].at) + i] = <<p, i>>
  <2>1. Loaded(programs, mem, p, programs[p].bytes)
    BY <1>1, <1>2 DEF Stage
  <2>2. programs[p].bytes \in Nat
    <3>1. programs \in Seq(Files)
      BY InputAssumption, Zenon DEF BootInv, BuildTypes, Files
    <3>2. PICK f \in Files : f = programs[p]
      BY <3>1
    <3> QED BY <3>2 DEF Files
  <2>3. i \in Nat /\ i < programs[p].bytes
    BY <2>2
  <2> QED BY <2>1, <2>3 DEF Loaded
<1>3. phase = "frozen" /\ tries > 0 => Len(image) >= Capacity
  BY <1>1 DEF Stage
<1> QED BY <1>2, <1>3 DEF LoadedAsBuilt

\* Whatever the sizes of files, disk and memory, and whichever reads fail, every byte of
\* every program is loaded to where the command line put it, if the command line is
\* regular; and the loader stops early only if it cannot read or the image fills the disk.
THEOREM ProgramsAreLoaded == ASSUME RegularLines PROVE Spec => []LoadedAsBuilt
<1>1. Init => BootInv
  BY BootStarts
<1>2. BootInv /\ [Next]_vars => BootInv'
  BY BootSteps
<1> QED BY <1>1, <1>2, InvLoaded, PTL DEF Spec
=============================================================================
