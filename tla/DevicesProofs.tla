---------------------------- MODULE DevicesProofs ----------------------------
(***************************************************************************)
(* Theorems about the device drivers that MCDevices runs: PCI, VBE, DMA,   *)
(* clocks, the keyboard, RS-232, MPU-401, OPL, scancodes and their text.   *)
(* Each names what it excludes as a hypothesis.                            *)
(***************************************************************************)
EXTENDS MCDevices, FiniteSetTheorems, SequenceTheorems, WellFoundedInduction, TLAPS

-----------------------------------------------------------------------------
(* Pci                                                                     *)

\* The map holds the objects that have a device, each with that device; it is there when one has.
PcInv ==
    /\ slots \in [DOMAIN Addresses -> Kinds \cup {None}]
    /\ Entries \in SUBSET ({Addresses[i] : i \in DOMAIN Addresses} \X Objects)
    /\ \A e \in Entries : e[1] # None /\ uses[e[2]] = e[1]
    /\ \A d, e \in Entries : d[1] = e[1] => d = e
    /\ uses \in [Objects -> {Addresses[i] : i \in DOMAIN Addresses} \cup {None}]
    /\ asked \in [Objects -> SUBSET Kinds]
    /\ \A o \in Objects : uses[o] # None =>
         /\ <<uses[o], o>> \in Entries
         /\ \E i \in DOMAIN Addresses : Addresses[i] = uses[o] /\ slots[i] \in asked[o]

LEMMA PcInvOwned == ASSUME PcInv PROVE DevicesOwned
<1>1. \A o, p \in Objects : o # p /\ uses[o] # None => uses[o] # uses[p]
  <2> SUFFICES ASSUME NEW o \in Objects, NEW p \in Objects, uses[o] # None, uses[o] = uses[p] PROVE o = p
    OBVIOUS
  <2>1. <<uses[o], o>> \in Entries /\ <<uses[p], p>> \in Entries
    BY DEF PcInv
  <2>2. <<uses[o], o>> = <<uses[p], p>>
    BY <2>1 DEF PcInv
  <2>3. QED BY <2>2
<1>2. ASSUME NEW kind \in Kinds, Unused(kind, None) = {}, NEW i \in DOMAIN Addresses, slots[i] = kind
      PROVE  \E o \in Objects : uses[o] = Addresses[i]
  <2>1. Addresses[i] \in Mapped
    BY <1>2 DEF Unused, Answers
  <2>2. QED BY <2>1 DEF Mapped, PcInv
<1>3. QED BY <1>1, <1>2 DEF PcInv, DevicesOwned

LEMMA PcInvInit == PcInit => PcInv
BY DEF PcInit, PcInv, Entries

LEMMA ConstructKeeps ==
    ASSUME PcInv, NEW o \in Objects, NEW kinds \in Searches, NEW function, Construct(o, kinds, function)
    PROVE  PcInv'
<1>1. uses[o] = None /\ slots' = slots
  BY DEF Construct
<1>2. CASE map' = Entries /\ UNCHANGED <<uses, asked>>
  <2>1. Entries' = Entries
    BY <1>2 DEF Entries
  <2>2. QED BY <1>1, <1>2, <2>1 DEF PcInv
<1>3. CASE \E k \in DOMAIN kinds : \E i \in Unused(kinds[k], function) :
             /\ map' = Entries \cup {<<Addresses[i], o>>}
             /\ uses' = [uses EXCEPT ![o] = Addresses[i]]
             /\ asked' = [asked EXCEPT ![o] = {kinds[l] : l \in DOMAIN kinds}]
  <2>1. PICK k \in DOMAIN kinds : \E i \in Unused(kinds[k], function) :
             /\ map' = Entries \cup {<<Addresses[i], o>>}
             /\ uses' = [uses EXCEPT ![o] = Addresses[i]]
             /\ asked' = [asked EXCEPT ![o] = {kinds[l] : l \in DOMAIN kinds}]
    BY <1>3
  <2>2. PICK i \in Unused(kinds[k], function) :
             /\ map' = Entries \cup {<<Addresses[i], o>>}
             /\ uses' = [uses EXCEPT ![o] = Addresses[i]]
             /\ asked' = [asked EXCEPT ![o] = {kinds[l] : l \in DOMAIN kinds}]
    BY <2>1
  <2> DEFINE a == Addresses[i]
  <2>3. i \in DOMAIN Addresses /\ slots[i] = kinds[k] /\ a \notin Mapped /\ a # None
    BY PcAssumption, ElementOfSeq, LenProperties DEF Unused, Answers
  <2>4. {kinds[l] : l \in DOMAIN kinds} \in SUBSET Kinds /\ slots[i] \in {kinds[l] : l \in DOMAIN kinds}
    BY <2>3 DEF Searches
  <2>5. Entries' = Entries \cup {<<a, o>>}
    <3>1. map' \in SUBSET ({Addresses[j] : j \in DOMAIN Addresses} \X Objects)
      BY <2>2, <2>3 DEF PcInv
    <3>2. QED BY <2>2, <3>1, PcAssumption DEF Entries
  <2>6. /\ uses' \in [Objects -> {Addresses[j] : j \in DOMAIN Addresses} \cup {None}]
        /\ asked' \in [Objects -> SUBSET Kinds] /\ uses'[o] = a /\ slots[i] \in asked'[o]
        /\ \A p \in Objects : p # o => uses'[p] = uses[p] /\ asked'[p] = asked[p]
    BY <2>2, <2>3, <2>4 DEF PcInv
  <2>7. \A e \in Entries : e[2] # o /\ e[1] # a
    BY <1>1, <2>3 DEF PcInv, Mapped
  <2> HIDE DEF a
  <2>8. /\ Entries' \in SUBSET ({Addresses[j] : j \in DOMAIN Addresses} \X Objects)
        /\ \A e \in Entries' : e[1] # None /\ uses'[e[2]] = e[1]
    <3>1. a \in {Addresses[j] : j \in DOMAIN Addresses}
      BY <2>3 DEF a
    <3>2. QED BY <3>1, <2>3, <2>5, <2>6, <2>7 DEF PcInv
  <2>9. \A d, e \in Entries' : d[1] = e[1] => d = e
    BY <2>5, <2>7 DEF PcInv
  <2>10. \A p \in Objects : uses'[p] # None =>
            /\ <<uses'[p], p>> \in Entries'
            /\ \E j \in DOMAIN Addresses : Addresses[j] = uses'[p] /\ slots[j] \in asked'[p]
    BY <2>3, <2>5, <2>6 DEF PcInv, a
  <2>11. QED BY <1>1, <2>6, <2>8, <2>9, <2>10 DEF PcInv
<1>4. QED BY <1>2, <1>3 DEF Construct

LEMMA DestroyKeeps == ASSUME PcInv, NEW o \in Objects, Destroy(o) PROVE PcInv'
<1> DEFINE rest == {e \in map : e[1] # uses[o]}
<1>1. /\ uses[o] # None /\ uses' = [uses EXCEPT ![o] = None] /\ asked' = [asked EXCEPT ![o] = {}]
      /\ slots' = slots /\ map' = IF rest = {} THEN None ELSE rest
  BY DEF Destroy, Erase
<1>2. <<uses[o], o>> \in Entries /\ map # None /\ Entries = map
  BY <1>1 DEF PcInv, Entries
<1>3. Entries' = {e \in Entries : e[1] # uses[o]}
  <2>1. CASE rest = {}
    BY <1>1, <1>2, <2>1 DEF Entries
  <2>2. CASE rest # {}
    <3>1. rest \in SUBSET ({Addresses[i] : i \in DOMAIN Addresses} \X Objects)
      BY <1>2 DEF PcInv
    <3>2. QED BY <1>1, <1>2, <2>2, <3>1, PcAssumption DEF Entries
  <2>3. QED BY <2>1, <2>2
<1>4. /\ uses' \in [Objects -> {Addresses[j] : j \in DOMAIN Addresses} \cup {None}]
      /\ asked' \in [Objects -> SUBSET Kinds] /\ uses'[o] = None
      /\ \A p \in Objects : p # o => uses'[p] = uses[p] /\ asked'[p] = asked[p]
  BY <1>1 DEF PcInv
<1>5. \A e \in Entries' : e \in Entries /\ e[2] # o
  BY <1>3 DEF PcInv
<1>6. \A p \in Objects : uses'[p] # None => uses'[p] # uses[o]
  <2> SUFFICES ASSUME NEW p \in Objects, uses'[p] # None, uses'[p] = uses[o] PROVE FALSE
    OBVIOUS
  <2>1. p # o /\ uses[p] = uses[o]
    BY <1>4
  <2>2. <<uses[p], p>> \in Entries /\ <<uses[o], o>> \in Entries
    BY <1>1, <2>1 DEF PcInv
  <2>3. <<uses[p], p>> = <<uses[o], o>>
    BY <2>1, <2>2 DEF PcInv
  <2>4. QED BY <2>1, <2>3
<1>7. QED BY <1>1, <1>3, <1>4, <1>5, <1>6 DEF PcInv

LEMMA PcInvNext == ASSUME PcInv, [PcNext]_pcVars PROVE PcInv'
<1>1. CASE UNCHANGED pcVars
  BY <1>1 DEF pcVars, PcInv, Entries
<1>2. CASE PcNext
  BY <1>2, ConstructKeeps, DestroyKeeps DEF PcNext
<1>3. QED BY <1>1, <1>2

\* For any devices and objects: a device has one object, which asked for it, the map holds exactly
\* the devices in use, and a search that fails was for devices that are all in use.
THEOREM DevicesStayOwned == PcSpec => []DevicesOwned
<1>1. PcInv /\ [PcNext]_pcVars => PcInv'
  BY PcInvNext
<1>2. PcInv => DevicesOwned
  BY PcInvOwned
<1>3. QED BY PcInvInit, <1>1, <1>2, PTL DEF PcSpec

-----------------------------------------------------------------------------
(* Vbe                                                                     *)

HwType == [mode : ModeNums \cup VgaNums \cup {None}, dac : {6, 8}, pitch : Nat, start : Nat, next : Nat \cup {None}]

\* Where x and y are, on a screen of the mode's depth.
PlaceOf(p) == p[1] * Bytes(vbBios.good[mode]) + p[2] * hw.pitch

VbInv ==
    /\ \A m \in DOMAIN vbBios.good : m \in ModeNums \cup VgaNums /\ vbBios.good[m] \in Depths
    /\ ready => listed = vbBios.good
    /\ ready \/ mode = None
    /\ mode # None => mode \in DOMAIN vbBios.good
    /\ hw \in HwType /\ dac = hw.dac
    /\ mode # None /\ (ByAddress \/ vbBios.triple) => hw.pitch = Pitch(vbBios.good[mode])
    /\ hw.next # None => vbBios.triple
    /\ vbShown # None => /\ vbShown[1] \in Nat /\ vbShown[2] \in Nat /\ mode # None
                         /\ (IF hw.next = None THEN hw.start ELSE hw.next) = PlaceOf(vbShown)
    /\ entries # None => entries = hw.dac

\* What the constructions of the display start take as known.
WholeBytes == \A d \in Depths : d % 8 = 0
Undisturbed == VbOps \cap {"pmfail", "block", "scanline", "unchecked"} = {}

LEMMA BytesOfDepth ==
    ASSUME NEW d \in Depths
    PROVE  Bytes(d) \in Nat /\ Pitch(d) \in Nat /\ (WholeBytes => d \div 8 = Bytes(d))
<1>1. d \in Nat
  BY VbAssumption
<1>2. Bytes(d) \in Nat /\ (d % 8 = 0 => d \div 8 = Bytes(d))
  BY <1>1 DEF Bytes
<1>3. QED BY <1>2 DEF Pitch, WholeBytes

\* Positions are the same however they are computed.
LEMMA Places ==
    ASSUME VbInv, mode # None, NEW x \in Nat, NEW y \in Nat
    PROVE  /\ listed = vbBios.good /\ Position(x, y) \in Nat /\ Position(x, y) = PlaceOf(<<x, y>>)
           /\ WholeBytes /\ (ByAddress \/ vbBios.triple) => Computed(x, y) = Position(x, y)
<1>1. listed = vbBios.good /\ vbBios.good[mode] \in Depths /\ hw.pitch \in Nat
  BY DEF VbInv, HwType
<1>2. Position(x, y) = x * Bytes(vbBios.good[mode]) + y * hw.pitch
  BY <1>1 DEF Position
<1>3. Position(x, y) \in Nat
  BY <1>1, <1>2, BytesOfDepth
<1>4. PlaceOf(<<x, y>>) = Position(x, y)
  BY <1>2 DEF PlaceOf
<1>5. ASSUME WholeBytes, ByAddress \/ vbBios.triple PROVE Computed(x, y) = Position(x, y)
  <2>1. vbBios.good[mode] \div 8 = Bytes(vbBios.good[mode]) /\ hw.pitch = Pitch(vbBios.good[mode])
    BY <1>1, <1>5, BytesOfDepth DEF VbInv
  <2>2. QED BY <1>1, <1>2, <2>1 DEF Computed
<1>6. QED BY <1>1, <1>3, <1>4, <1>5

LEMMA VbInvFollowed == ASSUME VbInv PROVE ModeFollowed
<1>1. ASSUME vbShown # None, Shows PROVE hw.start = Position(vbShown[1], vbShown[2])
  <2>1. hw.next = None
    BY <1>1 DEF VbInv, Shows
  <2>2. hw.start = PlaceOf(vbShown) /\ listed = vbBios.good
    BY <1>1, <2>1 DEF VbInv
  <2>3. QED BY <2>2 DEF PlaceOf, Position
<1>2. QED BY <1>1 DEF VbInv, ModeFollowed

LEMMA VbInvInit == VbInit => VbInv
BY DEF VbInit, BiosInit, VbInv, HwType

LEMMA InterfaceKeeps == ASSUME VbInv, Undisturbed, Interface PROVE VbInv'
<1>1. /\ mode = None /\ ready' = TRUE /\ listed' = vbBios.good
      /\ UNCHANGED <<vbBios, mode, dac, hw, entries, vbShown>>
  BY DEF Interface, Undisturbed, VbInv, ListModes
<1>2. QED BY <1>1 DEF VbInv

LEMMA SetModeKeeps == ASSUME VbInv, NEW m \in ModeNums \cup VgaNums, SetMode(m) PROVE VbInv'
<1>1. /\ m \in DOMAIN vbBios.good /\ mode' = m /\ dac' = 6 /\ entries' = None /\ vbShown' = None
      /\ hw' = [mode |-> m, dac |-> 6, pitch |-> Pitch(vbBios.good[m]), start |-> 0, next |-> None]
      /\ UNCHANGED <<vbBios, ready, listed, pm2, pm3>> /\ ready
  BY DEF SetMode, AfterMode
<1>2. hw' \in HwType /\ hw'.pitch = Pitch(vbBios.good[m]) /\ hw'.next = None /\ hw'.dac = 6
  BY <1>1, BytesOfDepth DEF VbInv, HwType
<1>3. QED BY <1>1, <1>2 DEF VbInv, ByAddress

LEMMA SetScanlineKeeps == ASSUME VbInv, Undisturbed, SetScanline PROVE VbInv'
<1>1. /\ mode # None /\ ~ByAddress /\ ~vbBios.triple /\ vbShown' = None
      /\ hw' = [hw EXCEPT !.pitch = 2 * Pitch(listed[mode])]
      /\ UNCHANGED <<vbBios, ready, listed, pm2, pm3, mode, dac, entries>>
  BY DEF SetScanline, Undisturbed
<1>2. 2 * Pitch(listed[mode]) \in Nat
  BY <1>1, BytesOfDepth DEF VbInv
<1>3. hw' \in HwType /\ hw'.next = hw.next /\ hw'.dac = hw.dac
  BY <1>1, <1>2 DEF VbInv, HwType
<1>4. QED BY <1>1, <1>3 DEF VbInv, ByAddress

LEMMA DisplayStartKeeps ==
    ASSUME VbInv, WholeBytes, Undisturbed, NEW x \in Xs, NEW y \in Ys, DisplayStart(x, y)
    PROVE  VbInv'
<1>1. /\ mode # None /\ vbShown' = <<x, y>> /\ x \in Nat /\ y \in Nat
      /\ hw' = [hw EXCEPT !.start = IF ByAddress THEN Computed(x, y) ELSE Position(x, y), !.next = None]
      /\ UNCHANGED <<vbBios, ready, listed, pm2, pm3, mode, dac, entries>>
  BY VbAssumption DEF DisplayStart, Undisturbed
<1>2. (IF ByAddress THEN Computed(x, y) ELSE Position(x, y)) = PlaceOf(<<x, y>>) /\ PlaceOf(<<x, y>>) \in Nat
  BY <1>1, Places
<1>3. /\ hw' \in HwType /\ hw'.next = None /\ hw'.dac = hw.dac /\ hw'.pitch = hw.pitch
      /\ hw'.start = PlaceOf(<<x, y>>)
  BY <1>1, <1>2 DEF VbInv, HwType
<1>4. PlaceOf(vbShown)' = PlaceOf(<<x, y>>) /\ vbShown'[1] = x /\ vbShown'[2] = y
  BY <1>1, <1>3 DEF PlaceOf
<1>5. QED BY <1>1, <1>3, <1>4 DEF VbInv, ByAddress

LEMMA ScheduleKeeps ==
    ASSUME VbInv, WholeBytes, NEW x \in Xs, NEW y \in Ys, Schedule(x, y)
    PROVE  VbInv'
<1>1. /\ mode # None /\ vbShown' = <<x, y>> /\ x \in Nat /\ y \in Nat /\ vbBios.triple
      /\ hw' = [hw EXCEPT !.next = Computed(x, y)]
      /\ UNCHANGED <<vbBios, ready, listed, pm2, pm3, mode, dac, entries>>
  BY VbAssumption DEF Schedule
<1>2. Computed(x, y) = PlaceOf(<<x, y>>) /\ PlaceOf(<<x, y>>) \in Nat
  BY <1>1, Places
<1>3. /\ hw' \in HwType /\ hw'.next = PlaceOf(<<x, y>>) /\ hw'.next # None /\ hw'.dac = hw.dac
      /\ hw'.pitch = hw.pitch
  BY <1>1, <1>2, NoneAssumption DEF VbInv, HwType
<1>4. PlaceOf(vbShown)' = PlaceOf(<<x, y>>) /\ vbShown'[1] = x /\ vbShown'[2] = y
  BY <1>1, <1>3 DEF PlaceOf
<1>5. QED BY <1>1, <1>3, <1>4 DEF VbInv, ByAddress

LEMMA RetraceKeeps == ASSUME VbInv, Retrace PROVE VbInv'
<1>1. /\ hw.next # None /\ hw' = [hw EXCEPT !.start = hw.next, !.next = None]
      /\ UNCHANGED <<vbBios, ready, listed, pm2, pm3, mode, dac, entries, vbShown>>
  BY DEF Retrace
<1>2. /\ hw' \in HwType /\ hw'.next = None /\ hw'.dac = hw.dac /\ hw'.pitch = hw.pitch
      /\ hw'.start = hw.next
  BY <1>1 DEF VbInv, HwType
<1>3. PlaceOf(vbShown)' = PlaceOf(vbShown)
  BY <1>1, <1>2 DEF PlaceOf
<1>4. QED BY <1>1, <1>2, <1>3 DEF VbInv, ByAddress

LEMMA PaletteKeeps ==
    ASSUME VbInv, (\E bs \in {6, 8} : SetFormat(bs)) \/ SetPalette
    PROVE  VbInv'
<1>1. CASE SetPalette
  <2>1. /\ entries' = (IF dac < 8 THEN 6 ELSE 8) /\ dac \in {6, 8}
        /\ UNCHANGED <<vbBios, ready, listed, pm2, pm3, mode, dac, hw, vbShown>>
    BY <1>1 DEF SetPalette, VbInv, HwType
  <2>2. entries' = hw.dac /\ PlaceOf(vbShown)' = PlaceOf(vbShown)
    BY <2>1 DEF VbInv, PlaceOf
  <2>3. QED BY <2>1, <2>2 DEF VbInv, ByAddress
<1>2. ASSUME NEW bs \in {6, 8}, SetFormat(bs) PROVE VbInv'
  <2>1. /\ hw' = [hw EXCEPT !.dac = bs] /\ dac' = bs /\ entries' = None
        /\ UNCHANGED <<vbBios, ready, listed, pm2, pm3, mode, vbShown>>
    BY <1>2 DEF SetFormat
  <2>2. /\ hw' \in HwType /\ hw'.dac = bs /\ hw'.next = hw.next /\ hw'.pitch = hw.pitch
        /\ hw'.start = hw.start
    BY <2>1 DEF VbInv, HwType
  <2>3. PlaceOf(vbShown)' = PlaceOf(vbShown)
    BY <2>1, <2>2 DEF PlaceOf
  <2>4. QED BY <2>1, <2>2, <2>3 DEF VbInv, ByAddress
<1>3. QED BY <1>1, <1>2

LEMMA VbInvNext == ASSUME VbInv, WholeBytes, Undisturbed, [VbNext]_vbVars PROVE VbInv'
<1>1. CASE UNCHANGED vbVars
  BY <1>1 DEF vbVars, VbInv, PlaceOf, ByAddress
<1>2. CASE Interface \/ SetScanline \/ Retrace
  BY <1>2, InterfaceKeeps, SetScanlineKeeps, RetraceKeeps
<1>3. CASE SetPalette \/ \E bs \in {6, 8} : SetFormat(bs)
  BY <1>3, PaletteKeeps
<1>4. CASE \E m \in ModeNums \cup VgaNums : SetMode(m)
  BY <1>4, SetModeKeeps
<1>5. CASE \E x \in Xs, y \in Ys : DisplayStart(x, y) \/ Schedule(x, y)
  BY <1>5, DisplayStartKeeps, ScheduleKeeps
<1>6. QED BY <1>1, <1>2, <1>3, <1>4, <1>5 DEF VbNext

\* For any BIOS whose pixels are whole bytes, that keeps its mode list to itself and fails no call,
\* and where no scanline length is set under a computed position: the interface lists the BIOS's
\* modes, the palette has the hardware's width and the display starts where it was put.
THEOREM ModeStaysFollowed == WholeBytes /\ Undisturbed => (VbSpec => []ModeFollowed)
<1> SUFFICES ASSUME WholeBytes, Undisturbed PROVE VbSpec => []ModeFollowed
  OBVIOUS
<1>1. VbInv /\ [VbNext]_vbVars => VbInv'
  BY VbInvNext
<1>2. VbInv => ModeFollowed
  BY VbInvFollowed
<1>3. QED BY VbInvInit, <1>1, <1>2, PTL DEF VbSpec

-----------------------------------------------------------------------------
(* Division                                                                *)

LEMMA Divided ==
    ASSUME NEW x \in Int, NEW K \in Nat \ {0}
    PROVE  /\ x = K * (x \div K) + (x % K) /\ 0 <= x % K /\ x % K < K
           /\ x \div K \in Int /\ x % K \in Int
OBVIOUS

LEMMA MultipleSteps ==
    ASSUME NEW K \in Nat \ {0}, NEW a \in Int, NEW b \in Int, a < b
    PROVE  K * a + K <= K * b
<1>1. b - a - 1 \in Nat
  OBVIOUS
<1>2. PICK c : c = b - a - 1
  OBVIOUS
<1>3. K * c >= 0
  BY <1>1, <1>2
<1>4. b = a + c + 1 /\ c \in Nat
  BY <1>1, <1>2
<1>5. K * b = K * a + K * c + K
  BY <1>4
<1>q. QED
  BY <1>3, <1>5

LEMMA Quotient ==
    ASSUME NEW K \in Nat \ {0}, NEW x \in Int, NEW q \in Int, K * q <= x, x < K * q + K
    PROVE  x \div K = q /\ x % K = x - K * q
<1> DEFINE d == x \div K
<1> DEFINE r == x % K
<1>1. x = K * d + r /\ 0 <= r /\ r < K /\ d \in Int /\ r \in Int
  BY Divided
<1> HIDE DEF d, r
<1>2. ~(d < q)
  <2> SUFFICES ASSUME d < q PROVE FALSE
    OBVIOUS
  <2>1. K * d + K <= K * q
    BY <1>1, MultipleSteps
  <2>q. QED
    BY <2>1, <1>1
<1>3. ~(q < d)
  <2> SUFFICES ASSUME q < d PROVE FALSE
    OBVIOUS
  <2>1. K * q + K <= K * d
    BY <1>1, MultipleSteps
  <2>q. QED
    BY <2>1, <1>1
<1>4. d = q
  BY <1>1, <1>2, <1>3
<1>5. r = x - K * q
  BY <1>1, <1>4
<1>q. QED
  BY <1>4, <1>5 DEF d, r

LEMMA SmallModulo ==
    ASSUME NEW K \in Nat \ {0}, NEW x \in 0 .. K - 1
    PROVE  x % K = x
<1>1. K * 0 = 0 /\ x \in Int /\ 0 <= x /\ x < K
  OBVIOUS
<1>2. \A q \in Int : K * q <= x /\ x < K * q + K => x % K = x - K * q
  BY <1>1, Quotient
<1>q. QED
  BY <1>1, <1>2

-----------------------------------------------------------------------------
(* Dma                                                                     *)

\* 16-bit transfers use the channel whose index is right, and pages where no address bit is lost.
TransfersInReach == Highs \subseteq {5} /\ \A p \in Pages : p % 2 = 0

Buffer(b) == /\ b \in [seg : Nat \ {0}, n : 1 .. K64]
             /\ (b.seg * Para) \div K64 = (b.seg * Para + b.n - 1) \div K64

BuffersFit == \A b \in buffers : Buffer(b)
BuffersApart ==
    \A b, c \in buffers :
       b # c => Occupied(b.seg, ParasOf(b.n)) \cap Occupied(c.seg, ParasOf(c.n)) = {}
AskingInReach == asking # None => asking \in 1 .. K64
HeldGivenBack == asking = None => dmHeld = {}
TransferAsAsked ==
    regs # None => /\ ActualChannel(regs.w) = regs.c
                   /\ ActualAddress(regs.w) = regs.from
                   /\ ActualBytes(regs.w) = regs.count

DmInv == BuffersFit /\ BuffersApart /\ AskingInReach /\ HeldGivenBack /\ TransferAsAsked

LEMMA PageSize == K64 \in Nat \ {0} /\ Para \in Nat \ {0} /\ Boundary \in Nat \ {0}
<1>1. Para \in Nat \ {0} /\ Boundary \in Nat \ {0}
  BY DmAssumption
<1>q. QED
  BY <1>1 DEF K64

\* The block that DOS returns is free.
LEMMA FirstFitFits ==
    \A len : FirstFit(len) # None => FirstFit(len) \in 1 .. Arena /\ Fits(FirstFit(len), len)
<1> TAKE len
<1> SUFFICES ASSUME FirstFit(len) # None
             PROVE  FirstFit(len) \in 1 .. Arena /\ Fits(FirstFit(len), len)
  OBVIOUS
<1> DEFINE fits == {s \in 1 .. Arena : Fits(s, len)}
<1>1. fits # {} /\ FirstFit(len) = CHOOSE s \in fits : \A r \in fits : s <= r
  BY DEF FirstFit
<1>2. fits \subseteq Nat
  BY DmAssumption
<1>3. \E s \in fits : \A r \in fits : s <= r
  <2> HIDE DEF fits
  <2>1. PICK s \in fits : \A r \in fits : ~(<<r, s>> \in OpToRel(<, Nat))
    BY <1>1, <1>2, NatLessThanWellFounded, WFMin
  <2>2. \A r \in fits : s <= r
    <3> SUFFICES ASSUME NEW r \in fits PROVE s <= r
      OBVIOUS
    <3>1. r \in Nat /\ s \in Nat
      BY <1>2
    <3>2. ~(r < s)
      BY <2>1, <3>1 DEF OpToRel
    <3>q. QED
      BY <3>1, <3>2
  <2>q. QED
    BY <2>2
<1>4. FirstFit(len) \in fits
  <2> HIDE DEF fits
  <2>q. QED
    BY <1>1, <1>3
<1>q. QED
  BY <1>4

\* The page of a paragraph
LEMMA PageOf ==
    ASSUME NEW seg \in Nat
    PROVE  /\ seg \div Boundary \in Int
           /\ K64 * (seg \div Boundary) <= seg * Para
           /\ seg * Para < K64 * (seg \div Boundary) + K64
           /\ Space(seg) = K64 * (seg \div Boundary) + K64 - seg * Para
<1> DEFINE q == seg \div Boundary
<1>1. q \in Int /\ Boundary * q <= seg /\ seg + 1 <= Boundary * q + Boundary
  BY PageSize, Divided
<1> HIDE DEF q
<1>b. Boundary * q \in Int
  BY <1>1, PageSize
<1>2. (seg + Boundary) \div Boundary = q + 1
  <2>1. Boundary * (q + 1) = Boundary * q + Boundary
    BY <1>1, PageSize
  <2>2. /\ Boundary * (q + 1) <= seg + Boundary
        /\ seg + Boundary < Boundary * (q + 1) + Boundary
    BY <1>1, <1>b, <2>1, PageSize
  <2>3. seg + Boundary \in Int /\ q + 1 \in Int
    BY <1>1, PageSize
  <2>4. \A x, r \in Int : Boundary * r <= x /\ x < Boundary * r + Boundary => x \div Boundary = r
    BY PageSize, Quotient
  <2>q. QED
    BY <2>2, <2>3, <2>4
<1> DEFINE u == seg - Boundary * q
<1> DEFINE v == Boundary * q + Boundary - seg - 1
<1>3. u \in Nat /\ seg = Boundary * q + u
  BY <1>1, <1>b
<1>4. v \in Nat /\ Boundary * q + Boundary = seg + 1 + v
  BY <1>1, <1>b, PageSize
<1> HIDE DEF u, v
<1>5. K64 * q = Boundary * q * Para /\ K64 * q \in Int
  BY <1>1, PageSize DEF K64
<1>6. K64 * q <= seg * Para
  <2>1. seg * Para = Boundary * q * Para + u * Para /\ u * Para \in Nat
    BY <1>1, <1>3, PageSize
  <2>q. QED
    BY <2>1, <1>5
<1>7. K64 * q + K64 = seg * Para + Para + v * Para /\ v * Para \in Nat
  BY <1>1, <1>4, <1>5, PageSize DEF K64
<1>8. Space(seg) = K64 * q + K64 - seg * Para
  <2>1. Space(seg) = ((q + 1) * Boundary - seg) * Para
    BY <1>2 DEF Space
  <2>2. (q + 1) * Boundary = Boundary * q + Boundary
    BY <1>1, PageSize
  <2>3. Space(seg) = (1 + v) * Para
    BY <2>1, <2>2, <1>4
  <2>4. (1 + v) * Para = Para + v * Para /\ seg * Para \in Int
    BY <1>4, PageSize
  <2>q. QED
    BY <2>3, <2>4, <1>5, <1>7, PageSize
<1>q. QED
  BY <1>1, <1>6, <1>7, <1>8, PageSize DEF q

\* A block that ends before the boundary lies within one page.
LEMMA OnePage ==
    ASSUME NEW seg \in Nat, NEW n \in Nat \ {0}, Space(seg) >= n
    PROVE  /\ (seg * Para) \div K64 = seg \div Boundary
           /\ (seg * Para + n - 1) \div K64 = seg \div Boundary
<1> DEFINE q == seg \div Boundary
<1>1. /\ q \in Int /\ K64 * q <= seg * Para /\ seg * Para < K64 * q + K64
      /\ Space(seg) = K64 * q + K64 - seg * Para
  BY PageOf
<1> HIDE DEF q
<1> DEFINE x == seg * Para
<1> DEFINE z == K64 * q
<1>2. x \in Int /\ z \in Int /\ K64 \in Int
  BY <1>1, PageSize
<1>3. z <= x /\ x < z + K64 /\ z + K64 - x >= n
  BY <1>1
<1>4. \A y, r \in Int : K64 * r <= y /\ y < K64 * r + K64 => y \div K64 = r
  BY PageSize, Quotient
<1>5. x + n - 1 \in Int /\ z <= x + n - 1 /\ x + n - 1 < z + K64
  <2> HIDE DEF x, z
  <2>q. QED
    BY <1>2, <1>3
<1>6. x \div K64 = q
  BY <1>1, <1>2, <1>3, <1>4
<1>7. (x + n - 1) \div K64 = q
  BY <1>1, <1>4, <1>5
<1>q. QED
  BY <1>6, <1>7 DEF q

LEMMA Try_Keeps == DmInv /\ Try => DmInv'
<1> SUFFICES ASSUME DmInv, Try PROVE DmInv'
  OBVIOUS
<1> DEFINE len == ParasOf(asking)
<1> DEFINE seg == FirstFit(len)
<1>1. asking # None /\ asking \in 1 .. K64 /\ asking \in Nat \ {0} /\ regs' = regs
  BY PageSize DEF Try, DmInv, AskingInReach
<1>2. TransferAsAsked'
  BY <1>1 DEF DmInv, TransferAsAsked, ActualChannel, ActualAddress, ActualBytes
<1>3. CASE seg = None
  <2>1. asking' = None /\ dmHeld' = {} /\ buffers' = buffers
    BY <1>3 DEF Try
  <2>q. QED
    BY <1>2, <2>1 DEF DmInv, BuffersFit, BuffersApart, AskingInReach, HeldGivenBack
<1>4. CASE seg # None /\ Space(seg) < asking
  <2>1. asking' = asking /\ buffers' = buffers
    BY <1>4 DEF Try
  <2>q. QED
    BY <1>1, <1>2, <2>1 DEF DmInv, BuffersFit, BuffersApart, AskingInReach, HeldGivenBack
<1>5. CASE seg # None /\ ~(Space(seg) < asking)
  <2> DEFINE b == [seg |-> seg, n |-> asking]
  <2>1. asking' = None /\ dmHeld' = {} /\ buffers' = buffers \cup {b}
    BY <1>5 DEF Try
  <2>2. seg \in Nat \ {0} /\ Occupied(seg, len) \cap Used = {}
    BY <1>5, FirstFitFits, DmAssumption DEF Fits
  <2>3. Buffer(b)
    <3>1. Space(seg) >= asking
      <4> HIDE DEF seg
      <4>1. Space(seg) \in Int
        BY <2>2, PageSize, PageOf
      <4>q. QED
        BY <4>1, <1>1, <1>5
    <3> HIDE DEF seg
    <3>2. (seg * Para) \div K64 = (seg * Para + asking - 1) \div K64
      BY <1>1, <2>2, <3>1, OnePage
    <3>q. QED
      BY <1>1, <2>2, <3>2 DEF Buffer
  <2>4. \A c \in buffers : Occupied(c.seg, ParasOf(c.n)) \subseteq Used
    BY DEF Used
  <2>5. BuffersFit'
    BY <2>1, <2>3 DEF DmInv, BuffersFit
  <2>6. BuffersApart'
    <3> SUFFICES ASSUME NEW c \in buffers \cup {b}, NEW d \in buffers \cup {b}, c # d
                 PROVE  Occupied(c.seg, ParasOf(c.n)) \cap Occupied(d.seg, ParasOf(d.n)) = {}
      BY <2>1 DEF BuffersApart
    <3>1. b.seg = seg /\ ParasOf(b.n) = len
      OBVIOUS
    <3> HIDE DEF b, seg, len
    <3>2. CASE c \in buffers /\ d \in buffers
      BY <3>2 DEF DmInv, BuffersApart
    <3>3. CASE c = b
      BY <3>1, <3>3, <2>2, <2>4
    <3>4. CASE d = b
      BY <3>1, <3>4, <2>2, <2>4
    <3>q. QED
      BY <3>2, <3>3, <3>4
  <2>q. QED
    BY <1>2, <2>1, <2>5, <2>6 DEF DmInv, AskingInReach, HeldGivenBack
<1>q. QED
  BY <1>3, <1>4, <1>5

LEMMA Transfer8_Keeps ==
    ASSUME DmInv, NEW c \in 0 .. 3, NEW b \in buffers, Transfer8(c, b)
    PROVE  TransferAsAsked'
<1> DEFINE x == b.seg * Para
<1>1. b.seg \in Nat \ {0} /\ b.n \in 1 .. K64 /\ x \in Int
  BY PageSize DEF DmInv, BuffersFit, Buffer
<1>2. regs' = [w |-> Programmed(FALSE, c, x, b.n), c |-> c, from |-> x, count |-> b.n]
  BY DEF Transfer8
<1> HIDE DEF x
<1>3. ActualChannel(Programmed(FALSE, c, x, b.n)) = c
  BY DEF ActualChannel, Programmed, Ch
<1>4. ActualAddress(Programmed(FALSE, c, x, b.n)) = x
  <2>1. \A y \in Int : /\ y = K64 * (y \div K64) + (y % K64)
                       /\ y \div K64 \in Int /\ y % K64 \in Int
    BY PageSize, Divided
  <2>2. \A y \in Int : K64 * y = y * K64
    BY PageSize
  <2>3. x = (x \div K64) * K64 + (x % K64)
    BY <1>1, <2>1, <2>2
  <2>q. QED
    <3> DEFINE w == Programmed(FALSE, c, x, b.n)
    <3>1. w.high = FALSE /\ w.page = x \div K64 /\ w.address = x % K64
      BY DEF Programmed
    <3>2. ActualAddress(w) = w.page * K64 + w.address
      BY <3>1 DEF ActualAddress
    <3>q. QED
      BY <2>3, <3>1, <3>2
<1>5. ActualBytes(Programmed(FALSE, c, x, b.n)) = b.n
  <2>1. \A y \in 0 .. K64 - 1 : y % K64 = y
    BY PageSize, SmallModulo
  <2>2. (b.n - 1) % K64 = b.n - 1
    BY <1>1, <2>1, PageSize
  <2>q. QED
    BY <1>1, <2>2 DEF ActualBytes, Programmed
<1>q. QED
  BY <1>2, <1>3, <1>4, <1>5 DEF TransferAsAsked, ActualChannel, ActualAddress, ActualBytes

LEMMA Transfer16_Keeps ==
    ASSUME TransfersInReach, DmInv, NEW c \in Highs, NEW b \in buffers, Transfer16(c, b)
    PROVE  TransferAsAsked'
<1> DEFINE x == b.seg * Para
<1> DEFINE p == b.seg \div Boundary
<1>1. b.seg \in Nat \ {0} /\ b.n \in 1 .. K64 /\ x \in Int /\ c = 5
  BY PageSize DEF DmInv, BuffersFit, Buffer, TransfersInReach
<1>2. /\ regs' = [w |-> Programmed(TRUE, c, x, b.n \div 2), c |-> c, from |-> x, count |-> b.n]
      /\ p % 2 = 0 /\ b.n % 2 = 0
  BY DEF Transfer16, TransfersInReach
<1>3. p \in Int /\ K64 * p <= x /\ x < K64 * p + K64
  BY <1>1, PageOf
<1>4. x \div K64 = p /\ x % K64 = x - K64 * p
  <2> HIDE DEF x, p
  <2>q. QED
    BY <1>1, <1>3, PageSize, Quotient
<1>5. \A y \in Int : (2 * y) \div 2 = y
  BY Quotient
\* A paragraph is a whole number of words.
<1>6. PICK h \in Int : x - K64 * p = 2 * h
  <2>1. PICK m \in Int : Para = 2 * m
    BY DmAssumption, Divided
  <2>2. K64 * p = 2 * (Boundary * m * p)
    <3> HIDE DEF p
    <3>q. QED
      BY <1>3, <2>1, PageSize DEF K64
  <2>3. x = 2 * (b.seg * m)
    BY <1>1, <2>1
  <2>4. b.seg * m - Boundary * m * p \in Int
    <3> HIDE DEF p
    <3>q. QED
      BY <1>1, <1>3, <2>1, PageSize
  <2> DEFINE h == b.seg * m - Boundary * m * p
  <2>5. x - K64 * p = 2 * h
    <3>1. b.seg * m \in Int /\ Boundary * m * p \in Int
      <4> HIDE DEF p
      <4>q. QED
        BY <1>1, <1>3, <2>1, PageSize
    <3> HIDE DEF x, p
    <3>q. QED
      BY <2>2, <2>3, <3>1
  <2>q. QED
    BY <2>4, <2>5
<1>7. PICK k \in 1 .. K64 : b.n = 2 * k
  <2>1. b.n = 2 * (b.n \div 2) /\ b.n \div 2 \in Int
    BY <1>1, <1>2, Divided
  <2>q. QED
    BY <1>1, <2>1, PageSize
<1>8. ActualChannel(Programmed(TRUE, c, x, b.n \div 2)) = c
  BY <1>1 DEF ActualChannel, Programmed, Ch
<1>9. ActualAddress(Programmed(TRUE, c, x, b.n \div 2)) = x
  <2>1. ActualAddress(Programmed(TRUE, c, x, b.n \div 2))
          = (p \div 2) * 2 * K64 + 2 * ((x - K64 * p) \div 2)
    BY <1>4 DEF ActualAddress, Programmed
  <2>2. p = 2 * (p \div 2) /\ p \div 2 \in Int
    BY <1>2, <1>3, Divided
  <2>3. (p \div 2) * 2 * K64 = K64 * p /\ K64 * p \in Int
    <3> DEFINE q == p \div 2
    <3> HIDE DEF q, p
    <3>1. p = 2 * q /\ q \in Int
      BY <2>2 DEF q
    <3>2. q * 2 * K64 = K64 * (2 * q) /\ K64 * (2 * q) \in Int
      BY <3>1, PageSize
    <3>q. QED
      BY <3>1, <3>2 DEF q
  <2>4. 2 * ((x - K64 * p) \div 2) = x - K64 * p
    BY <1>5, <1>6
  <2>5. K64 * p + (x - K64 * p) = x
    <3> HIDE DEF x, p
    <3>q. QED
      BY <1>1, <2>3
  <2>q. QED
    BY <2>1, <2>3, <2>4, <2>5
<1>10. ActualBytes(Programmed(TRUE, c, x, b.n \div 2)) = b.n
  <2>1. b.n \div 2 = k
    BY <1>5, <1>7
  <2>2. (k - 1) % K64 = k - 1
    BY <1>7, PageSize, SmallModulo
  <2>q. QED
    BY <1>7, <2>1, <2>2 DEF ActualBytes, Programmed
<1> HIDE DEF x
<1>q. QED
  BY <1>2, <1>8, <1>9, <1>10 DEF TransferAsAsked, ActualChannel, ActualAddress, ActualBytes

\* Buffers lie within a page of 64 KB and share no memory, and the controller transfers what it is
\* told to, where of the 16-bit channels only channel 5 is used, with even pages (dma.h).
THEOREM BuffersStayWhole == TransfersInReach => (DmSpec => []BuffersWhole)
<1> SUFFICES ASSUME TransfersInReach PROVE DmSpec => []BuffersWhole
  OBVIOUS
<1>1. DmInit => DmInv
  BY DEF DmInit, DmInv, BuffersFit, BuffersApart, AskingInReach, HeldGivenBack, TransferAsAsked
<1>2. DmInv /\ [DmNext]_dmVars => DmInv'
  <2> SUFFICES ASSUME DmInv, [DmNext]_dmVars PROVE DmInv'
    OBVIOUS
  <2>0. regs' = regs => TransferAsAsked'
    BY DEF DmInv, TransferAsAsked, ActualChannel, ActualAddress, ActualBytes
  <2>a. UNCHANGED <<asking, dmHeld, buffers>> /\ TransferAsAsked' => DmInv'
    BY DEF DmInv, BuffersFit, BuffersApart, AskingInReach, HeldGivenBack
  <2>1. CASE Try
    BY <2>1, Try_Keeps
  <2>2. CASE \E n \in Sizes : Ask(n)
    <3>1. PICK n \in Sizes : Ask(n)
      BY <2>2
    <3>2. n \in 1 .. K64 /\ asking' = n /\ n \in Int /\ UNCHANGED <<dmHeld, buffers, regs>>
      BY <3>1, DmAssumption, PageSize DEF Ask
    <3>3. asking' # None
      BY <3>2, NoneAssumption
    <3>q. QED
      BY <2>0, <3>2, <3>3 DEF DmInv, BuffersFit, BuffersApart, AskingInReach, HeldGivenBack
  <2>3. CASE \E b \in buffers : FreeBuffer(b)
    <3>1. UNCHANGED <<asking, dmHeld, regs>> /\ buffers' \subseteq buffers
      BY <2>3 DEF FreeBuffer
    <3>q. QED
      BY <2>0, <3>1 DEF DmInv, BuffersFit, BuffersApart, AskingInReach, HeldGivenBack
  <2>4. CASE \E b \in buffers, c \in 0 .. 3 : Transfer8(c, b)
    BY <2>4, <2>a, Transfer8_Keeps DEF Transfer8
  <2>5. CASE \E b \in buffers, c \in Highs : Transfer16(c, b)
    BY <2>5, <2>a, Transfer16_Keeps DEF Transfer16
  <2>6. CASE UNCHANGED dmVars
    BY <2>0, <2>6, <2>a DEF dmVars
  <2>q. QED
    BY <2>1, <2>2, <2>3, <2>4, <2>5, <2>6 DEF DmNext
<1>3. DmInv => BuffersWhole
  BY DEF DmInv, BuffersFit, Buffer, BuffersApart, HeldGivenBack, TransferAsAsked, BuffersWhole
<1>q. QED
  BY <1>1, <1>2, <1>3, PTL DEF DmSpec

-----------------------------------------------------------------------------
(* Clocks                                                                  *)

\* The program reads the counter and the RTC where the hardware keeps them in step.
ReadsInStep == "full" \notin CkOps /\ "between" \notin CkOps

TimerTypes ==
    count \in 1..Full /\ loaded \in 1..Full /\ next \in 1..Full
DriverTypes ==
    /\ max \in 1..Full /\ newMax \in 1..Full /\ biosCount \in 0..Full - 1
    /\ handler \in {"count", "reset"}
    /\ debt \in Int /\ since \in Int /\ setups \in Nat /\ late \in Nat
NowTypes ==
    /\ reader \in {"none", "latch", "check", "done"}
    /\ shown \in Int /\ elapsed \in Int
RtcTypes ==
    /\ second \in {0, 1} /\ lastSec \in {0, 1} /\ phase \in 0..Rate - 1 /\ ticks \in Int
    /\ read \in {-1, 0, 1}
CkTypes == TimerTypes /\ DriverTypes /\ NowTypes /\ RtcTypes

\* What the driver makes of the counts since the time in pit_ns, and since a BIOS tick, against what
\* passed
Pending == IF irq0 THEN loaded ELSE 0
Off == since - (max - count + Pending)
Drift == debt - (biosCount + max - count + Pending)

\* The cycle that irq0() and the reset handler take the one to be that the timer counts
Due == IF ~enabled THEN Full
       ELSE IF handler = "count" THEN newMax ELSE Full - ((biosCount + max) % Full)
CycleKnown == next = Due /\ (~enabled => max = Full)

\* A setup() that came late is yet to cost its cycle while the tick pends.
Slack == setups * Tolerance
Slip == late * Full
Unmatched == irq0 /\ loaded # Due
Allowed(x, n) == IF Unmatched THEN x \in Full - n .. n - Full ELSE x \in -n .. n
SinceCounted == enabled => Allowed(Off, Slip)
BiosCounted == Allowed(Drift, Slack + Slip)

\* A reading that no tick spoilt is right, but for the cycles lost to late setups.
ReaderRight ==
    /\ reader # "none" => enabled /\ handler = "count"
    /\ reader = "check" => ticked \/ irq0 \/ shown - elapsed \in -Slip .. Slip
    /\ reader = "done" => shown - elapsed \in -Slip .. Slip

\* rtc_ticks is the phase of the RTC, but for the tick that pends.
RtcKnown ==
    /\ ~irq8 => ticks = phase /\ lastSec = second /\ read \in {-1, second}
    /\ irq8 => \/ phase = 0 /\ second # lastSec
               \/ phase = ticks + 1 /\ second = lastSec

CkInv == CkTypes /\ SinceCounted /\ CycleKnown /\ ReaderRight /\ RtcKnown /\ BiosCounted

LEMMA ModOnce ==
    \A x \in Int : /\ x \in 0..Full - 1 => x % Full = x
                   /\ x \in Full..2 * Full - 1 => x % Full = x - Full
<1> TAKE x \in Int
<1>1. Full \in Nat \ {0} /\ Full * 0 = 0 /\ Full * 1 = Full
  BY CkAssumption
<1>a. \A q \in Int : (Full * q <= x /\ x < Full * q + Full) => x % Full = x - Full * q
  BY <1>1, Quotient
<1>2. CASE x \in 0..Full - 1
  <2>1. x % Full = x - Full * 0
    BY <1>1, <1>2, <1>a
  <2>q. QED
    BY <2>1, <1>1, <1>2
<1>3. CASE x \in Full..2 * Full - 1
  <2>1. x % Full = x - Full * 1
    BY <1>1, <1>3, <1>a
  <2>q. QED
    BY <2>1, <1>1, <1>3
<1>q. QED
  BY <1>2, <1>3

LEMMA SlackGrows ==
    ASSUME setups \in Nat, late \in Nat
    PROVE  /\ Slack \in Nat /\ Slip \in Nat
           /\ UNCHANGED <<setups, late>> => UNCHANGED <<Slack, Slip>>
           /\ Setup => /\ Slack' = Slack + Tolerance
                       /\ Slip' = IF irq0 THEN Slip + Full ELSE Slip
<1>1. Tolerance \in Nat /\ Full \in Nat
  BY CkAssumption
<1>2. Slack \in Nat /\ Slip \in Nat
  BY <1>1 DEF Slack, Slip
<1>3. UNCHANGED <<setups, late>> => UNCHANGED <<Slack, Slip>>
  BY DEF Slack, Slip
<1>4. Setup => Slack' = Slack + Tolerance
  BY <1>1 DEF Slack, Setup
<1>5. Setup => Slip' = IF irq0 THEN Slip + Full ELSE Slip
  BY <1>1 DEF Slip, Setup
<1>q. QED
  BY <1>2, <1>3, <1>4, <1>5

LEMMA DueInRange == ASSUME CkTypes PROVE Due \in 1 .. Full
<1>1. biosCount + max \in 1 .. 2 * Full - 1 /\ Full \in Nat \ {0} /\ newMax \in 1 .. Full
  BY CkAssumption DEF CkTypes, DriverTypes
<1>2. (biosCount + max) % Full \in 0 .. Full - 1
  BY <1>1, ModOnce
<1>q. QED
  BY <1>1, <1>2 DEF Due

LEMMA Counts ==
    ASSUME CkTypes
    PROVE  /\ Off \in Int /\ Drift \in Int
           /\ irq0 => Off = since - max + count - loaded
                      /\ Drift = debt - biosCount - max + count - loaded
           /\ ~irq0 => Off = since - max + count /\ Drift = debt - biosCount - max + count
<1>1. /\ count \in Int /\ loaded \in Int /\ max \in Int /\ biosCount \in Int
      /\ debt \in Int /\ since \in Int
  BY DEF CkTypes, TimerTypes, DriverTypes
<1>q. QED
  BY <1>1 DEF Off, Drift, Pending

\* The interrupt that is served settles what the timer and the driver disagreed on.
LEMMA Served ==
    ASSUME CkTypes, irq0, NEW x \in Int, NEW n \in Nat, Allowed(x, n)
    PROVE  x + loaded - Due \in -n .. n
<1>1. loaded \in 1 .. Full /\ Due \in 1 .. Full /\ Full \in Nat
  BY DueInRange, CkAssumption DEF CkTypes, TimerTypes
<1>2. CASE loaded = Due
  BY <1>1, <1>2 DEF Allowed, Unmatched
<1>3. CASE loaded # Due
  BY <1>1, <1>3 DEF Allowed, Unmatched
<1>q. QED
  BY <1>2, <1>3

\* A late setup() allows a cycle more, whatever the timer counts then.
LEMMA Loosens ==
    ASSUME NEW x \in Int, NEW n \in Nat, NEW m \in Nat, Allowed(x, n),
           IF irq0 THEN m >= n + Full ELSE m >= n, irq0' = irq0, NEW y \in Int, NEW d \in Nat,
           y - x \in -d .. d, NEW k \in Nat, k >= m + d
    PROVE  IF Unmatched' THEN y \in Full - k .. k - Full ELSE y \in -k .. k
<1>1. Full \in Nat
  BY CkAssumption
<1>2. x \in -n .. n
  BY <1>1 DEF Allowed
<1>3. y \in -(n + d) .. n + d
  BY <1>2
<1>4. CASE irq0
  <2>1. y \in Full - k .. k - Full
    BY <1>1, <1>3, <1>4
  <2>q. QED
    BY <2>1, <1>1
<1>5. CASE ~irq0
  <2>1. ~Unmatched'
    BY <1>5 DEF Unmatched
  <2>q. QED
    BY <2>1, <1>3, <1>5
<1>q. QED
  BY <1>4, <1>5

LEMMA CkStart == CkInit => CkInv
<1> SUFFICES ASSUME CkInit PROVE CkInv
  OBVIOUS
<1>2. CkTypes
  <2>1. TimerTypes
    BY CkAssumption DEF CkInit, TimerTypes
  <2>2. DriverTypes
    BY CkAssumption DEF CkInit, DriverTypes
  <2>3. NowTypes
    BY DEF CkInit, NowTypes
  <2>4. RtcTypes
    BY CkAssumption DEF CkInit, RtcTypes
  <2>q. QED
    BY <2>1, <2>2, <2>3, <2>4 DEF CkTypes
<1>3. BiosCounted
  <2>1. Drift = 0
    <3>1. debt = Full - count /\ biosCount = 0 /\ max = Full /\ ~irq0
      BY DEF CkInit
    <3>2. Full \in Int /\ count \in Int
      BY CkAssumption DEF CkInit
    <3>q. QED
      BY <3>1, <3>2, <1>2, Counts
  <2>2. Slack + Slip = 0
    BY CkAssumption DEF CkInit, Slack, Slip
  <2>q. QED
    BY <2>1, <2>2 DEF CkInit, BiosCounted, Allowed, Unmatched
<1>4. SinceCounted /\ CycleKnown /\ ReaderRight /\ RtcKnown
  BY DEF CkInit, SinceCounted, CycleKnown, Due, ReaderRight, RtcKnown
<1>q. QED
  BY <1>2, <1>3, <1>4 DEF CkInv

\* What a step keeps that leaves the timer and the driver alone
CkSame == UNCHANGED <<ckTimer, ckDriver>>
LEMMA CkSameKeeps ==
    ASSUME CkInv, CkSame
    PROVE  /\ TimerTypes' /\ DriverTypes' /\ SinceCounted' /\ CycleKnown' /\ BiosCounted'
           /\ UNCHANGED <<Slip, Off, irq0>>
  BY DEF CkInv, CkTypes, CkSame, ckTimer, ckDriver, TimerTypes, DriverTypes, SinceCounted, CycleKnown,
         BiosCounted, Allowed, Unmatched, Due, Off, Drift, Pending, Slack, Slip

LEMMA RtcSame == ASSUME CkInv, UNCHANGED ckRtc PROVE RtcTypes' /\ RtcKnown'
  BY DEF CkInv, CkTypes, ckRtc, RtcTypes, RtcKnown

\* The next cycle is the one that the driver is waiting for.
LEMMA CountKeeps == ASSUME CkInv, Count PROVE CkInv'
<1>0. CkTypes /\ SinceCounted /\ CycleKnown /\ ReaderRight /\ BiosCounted /\ ~irq0
  BY DEF CkInv, Count
<1>1. RtcTypes' /\ RtcKnown'
  BY RtcSame DEF Count
<1>2. Full \in Nat \ {0} /\ count \in 1 .. Full /\ next \in 1 .. Full /\ max \in 1 .. Full
      /\ debt \in Int /\ since \in Int /\ biosCount \in Int /\ loaded \in 1 .. Full
  BY <1>0, CkAssumption DEF CkTypes, TimerTypes, DriverTypes
<1>3. TimerTypes'
  BY <1>2 DEF Count, TimerTypes
<1>4. DriverTypes' /\ NowTypes' /\ UNCHANGED <<Slack, Slip, Due>>
  BY <1>0, <1>2 DEF Count, CkTypes, DriverTypes, NowTypes, ckNow, Slack, Slip, Due
<1>5. CkTypes'
  BY <1>1, <1>3, <1>4 DEF CkTypes
<1>6. CycleKnown'
  BY <1>0, <1>4 DEF Count, CycleKnown
<1>7. ~Unmatched'
  BY <1>0, <1>4 DEF Count, CycleKnown, Unmatched
<1>8. Off' = Off /\ Drift' = Drift
  <2>1. Off = since - max + count /\ Drift = debt - biosCount - max + count
    BY <1>0, Counts
  <2>2. CASE count > 1
    BY <2>1, <2>2, <1>2 DEF Count, Off, Drift, Pending
  <2>3. CASE ~(count > 1)
    <3>1. count = 1 /\ count' = next /\ loaded' = next /\ irq0'
      BY <2>3, <1>2 DEF Count
    <3>2. /\ since' = since + 1 /\ debt' = debt + 1 /\ Pending' = next
          /\ max' = max /\ biosCount' = biosCount
      BY <3>1 DEF Count, Pending
    <3>3. Off' = (since + 1) - (max - next + next)
      <4>1. Off' = since' - (max' - count' + Pending')
        BY DEF Off
      <4>q. QED
        BY <3>1, <3>2, <4>1, Zenon
    <3>4. Drift' = (debt + 1) - (biosCount + max - next + next)
      <4>1. Drift' = debt' - (biosCount' + max' - count' + Pending')
        BY DEF Drift
      <4>q. QED
        BY <3>1, <3>2, <4>1, Zenon
    <3>q. QED
      BY <2>1, <3>1, <3>3, <3>4, <1>2
  <2>q. QED
    BY <2>2, <2>3
<1>9. SinceCounted' /\ BiosCounted'
  BY <1>0, <1>4, <1>7, <1>8 DEF Count, SinceCounted, BiosCounted, Allowed, Unmatched
<1>10. ReaderRight'
  BY <1>0, <1>4 DEF Count, ckNow, ReaderRight
<1>q. QED
  BY <1>1, <1>5, <1>6, <1>9, <1>10 DEF CkInv

\* An interrupt counts the cycle that ended, and takes the next one to be as it was told.
LEMMA ServedKeeps == ASSUME CkInv, BiosIrq0 \/ Irq0 \/ Irq0Reset PROVE CkInv'
<1>0. /\ CkTypes /\ SinceCounted /\ CycleKnown /\ ReaderRight /\ BiosCounted /\ irq0 /\ ~irq0'
      /\ UNCHANGED <<setups, late, count, loaded, ckRtc, reader, shown, elapsed>>
  BY DEF CkInv, BiosIrq0, Irq0, Irq0Reset, ckNow
<1>1. RtcTypes' /\ RtcKnown'
  BY <1>0, RtcSame
<1>2. /\ Full \in Nat \ {0} /\ count \in 1 .. Full /\ max \in 1 .. Full /\ newMax \in 1 .. Full
      /\ debt \in Int /\ since \in Int /\ biosCount \in 0 .. Full - 1 /\ loaded \in 1 .. Full
      /\ setups \in Nat /\ late \in Nat
  BY <1>0, CkAssumption DEF CkTypes, TimerTypes, DriverTypes
<1>m. biosCount + max \in 1 .. 2 * Full - 1 /\ (biosCount + max) % Full \in 0 .. Full - 1
  BY <1>2, ModOnce
<1>s. UNCHANGED <<Slack, Slip>> /\ Slack \in Nat /\ Slip \in Nat
  BY <1>0, <1>2, SlackGrows
<1>a. Off \in Int /\ Off = since - max + count - loaded
      /\ Drift \in Int /\ Drift = debt - biosCount - max + count - loaded
  BY <1>0, Counts
<1>b. Pending' = 0 /\ ~Unmatched'
  BY <1>0 DEF Pending, Unmatched
<1>d. Due \in 1 .. Full /\ Drift + loaded - Due \in -(Slack + Slip) .. Slack + Slip
  BY <1>0, <1>a, <1>s, Served, DueInRange DEF BiosCounted
<1>e. enabled => Off + loaded - Due \in -Slip .. Slip
  BY <1>0, <1>a, <1>s, Served DEF SinceCounted
<1>n. NowTypes' /\ ReaderRight'
  BY <1>0, <1>2, <1>s DEF CkTypes, NowTypes, ReaderRight, BiosIrq0, Irq0, Irq0Reset, Reset, ckNow
<1>3. CASE BiosIrq0
  <2>1. TimerTypes' /\ DriverTypes' /\ CycleKnown' /\ Due = Full /\ max = Full
    BY <1>0, <1>2, <1>3 DEF BiosIrq0, CkTypes, TimerTypes, DriverTypes, CycleKnown, Due
  <2>2. Drift' = Drift + loaded - Due
    BY <1>a, <1>b, <1>2, <1>3, <2>1 DEF BiosIrq0, Drift
  <2>3. SinceCounted' /\ BiosCounted'
    BY <1>3, <1>b, <1>d, <1>s, <2>2 DEF BiosIrq0, SinceCounted, BiosCounted, Allowed
  <2>q. QED
    BY <1>1, <1>n, <2>1, <2>3 DEF CkInv, CkTypes
<1>4. CASE Irq0
  <2>0. debt' \in Int /\ biosCount' \in 0 .. Full - 1
        /\ debt' - biosCount' = debt - biosCount - max
    BY <1>2, <1>4, <1>m, ModOnce DEF Irq0, BiosTick
  <2>1. TimerTypes' /\ DriverTypes'
    BY <1>0, <1>2, <1>4, <2>0 DEF Irq0, CkTypes, TimerTypes, DriverTypes
  <2>2. CycleKnown' /\ Due = newMax
    BY <1>0, <1>4 DEF Irq0, CycleKnown, Due
  <2>3. Off' = Off + loaded - Due /\ Drift' = Drift + loaded - Due
    <3>1. Off' = since - max - (newMax - count + 0) /\ Drift' = debt' - (biosCount' + newMax - count + 0)
      BY <1>b, <1>4 DEF Irq0, Off, Drift
    <3>2. Off' = Off + loaded - Due
      BY <1>a, <1>2, <2>2, <3>1
    <3>3. PICK e \in Int, f \in Int : e = debt' /\ f = biosCount'
      BY <2>0, <1>2
    <3>4. Drift' = e - (f + newMax - count + 0) /\ e - f = debt - biosCount - max
      BY <3>1, <3>3, <2>0
    <3>q. QED
      BY <1>a, <1>2, <2>2, <3>2, <3>4
  <2>4. SinceCounted' /\ BiosCounted'
    BY <1>4, <1>b, <1>d, <1>e, <1>s, <2>3 DEF Irq0, SinceCounted, BiosCounted, Allowed
  <2>q. QED
    BY <1>1, <1>n, <2>1, <2>2, <2>4 DEF CkInv, CkTypes
<1>5. CASE Irq0Reset
  <2>1. TimerTypes' /\ DriverTypes' /\ CycleKnown'
    BY <1>0, <1>2, <1>5 DEF Irq0Reset, Reset, CkTypes, TimerTypes, DriverTypes, CycleKnown, Due
  <2>2. Due = Full - ((biosCount + max) % Full)
    BY <1>5 DEF Irq0Reset, Due
  <2>3. Drift' = Drift + loaded - Due
    <3>1. Drift' = debt' - (0 + Full - count + 0)
      BY <1>b, <1>5 DEF Irq0Reset, Reset, Drift
    <3>2. CASE biosCount + max >= Full
      <4>1. debt' = debt - Full /\ Due = Full - (biosCount + max - Full)
        BY <1>m, <1>2, <1>5, <2>2, <3>2, ModOnce DEF Irq0Reset
      <4>q. QED
        BY <1>a, <1>2, <3>1, <4>1
    <3>3. CASE ~(biosCount + max >= Full)
      <4>1. debt' = debt /\ Due = Full - (biosCount + max)
        BY <1>m, <1>2, <1>5, <2>2, <3>3, ModOnce DEF Irq0Reset
      <4>q. QED
        BY <1>a, <1>2, <3>1, <4>1
    <3>q. QED
      BY <3>2, <3>3
  <2>4. SinceCounted' /\ BiosCounted'
    BY <1>5, <1>b, <1>d, <1>s, <2>3 DEF Irq0Reset, Reset, SinceCounted, BiosCounted, Allowed
  <2>q. QED
    BY <1>1, <1>n, <2>1, <2>4 DEF CkInv, CkTypes
<1>q. QED
  BY <1>3, <1>4, <1>5

LEMMA DisableKeeps == ASSUME CkInv, Disable PROVE CkInv'
<1>0. /\ CkTypes /\ SinceCounted /\ CycleKnown /\ ReaderRight /\ BiosCounted /\ Setup /\ enabled
      /\ UNCHANGED <<count, loaded, irq0, newMax, debt, since, ckNow, ckRtc>>
  BY DEF CkInv, Disable
<1>1. RtcTypes' /\ RtcKnown' /\ NowTypes'
  BY <1>0, RtcSame DEF CkTypes, NowTypes, ckNow
<1>2. /\ Full \in Nat \ {0} /\ Tolerance \in Nat /\ count \in 1 .. Full /\ max \in 1 .. Full
      /\ debt \in Int /\ since \in Int /\ biosCount \in 0 .. Full - 1 /\ setups \in Nat
      /\ late \in Nat
  BY <1>0, CkAssumption DEF CkTypes, TimerTypes, DriverTypes
<1>m. (biosCount + max) % Full \in 0 .. Full - 1
  BY <1>2, ModOnce
<1>s. PICK a \in Nat, b \in Nat : /\ a = Slack' /\ b = Slip' /\ Slack \in Nat /\ Slip \in Nat
                              /\ a = Slack + Tolerance
                              /\ (irq0 => b = Slip + Full) /\ (~irq0 => b = Slip)
  <2>1. Slack \in Nat /\ Slip \in Nat /\ Slack + Tolerance \in Nat /\ Slip + Full \in Nat
    BY <1>2, SlackGrows
  <2>2. /\ Slack' = Slack + Tolerance
        /\ (irq0 => Slip' = Slip + Full) /\ (~irq0 => Slip' = Slip)
    BY <1>0, <1>2, SlackGrows
  <2>q. QED
    BY <2>1, <2>2
<1>u. /\ Slack \in Nat /\ Slip \in Nat /\ a = Slack + Tolerance
      /\ (irq0 => b = Slip + Full) /\ (~irq0 => b = Slip)
  BY <1>s
<1>v. Full \in Nat \ {0} /\ Tolerance \in Nat
  BY <1>2
<1>3. TimerTypes' /\ DriverTypes'
  <2>1. /\ next' \in 1 .. Full /\ max' \in 1 .. Full /\ biosCount' \in 0 .. Full - 1
        /\ handler' \in {handler, "reset"}
    <3>1. Full - ((biosCount + max) % Full) \in 1 .. Full
      BY <1>2, <1>m
    <3>2. /\ next' \in {Full - ((biosCount + max) % Full), Full}
          /\ biosCount' \in {biosCount, 0} /\ max' \in {max, Full} /\ handler' \in {handler, "reset"}
      BY DEF Disable, Reset
    <3>q. QED
      BY <1>2, <3>1, <3>2
  <2>q. QED
    BY <1>0, <1>2, <2>1 DEF Setup, CkTypes, TimerTypes, DriverTypes
<1>4. CycleKnown'
  BY <1>0 DEF Disable, Reset, CycleKnown, Due
<1>5. ReaderRight'
  BY <1>0 DEF Setup, ckNow, ReaderRight
<1>6. Off \in Int /\ Drift \in Int /\ UNCHANGED Pending
  BY <1>0, Counts DEF Pending
<1>7. SinceCounted'
  <2>1. enabled' => Off' = Off
    BY <1>0, <1>6 DEF Disable, Reset, Off
  <2>2. enabled' => (IF Unmatched' THEN Off \in Full - b .. b - Full ELSE Off \in -b .. b)
    <3>1. Allowed(Off, Slip) /\ irq0' = irq0 /\ Off - Off \in -0 .. 0
      BY <1>0, <1>6 DEF SinceCounted
    <3>2. (IF irq0 THEN b >= Slip + Full ELSE b >= Slip) /\ b >= b + 0
      BY <1>u, <1>v
    <3>q. QED
      BY <3>1, <3>2, <1>6, <1>u, Loosens
  <2>q. QED
    BY <2>1, <2>2, <1>s DEF SinceCounted, Allowed
<1>8. BiosCounted'
  <2>1. PICK y \in Int : y = Drift' /\ y - Drift \in -Tolerance .. Tolerance
    <3>1. CASE Abs(Full - (biosCount + max)) > Tolerance
      <4>1. Drift' = Drift /\ Drift - Drift \in -Tolerance .. Tolerance
        BY <3>1, <1>0, <1>2, <1>6 DEF Disable, Drift
      <4>q. QED
        BY <4>1, <1>6
    <3>2. CASE ~(Abs(Full - (biosCount + max)) > Tolerance)
      <4>1. PICK p : p = Pending
        OBVIOUS
      <4>2. p \in Int
        BY <4>1, <1>0 DEF Pending, CkTypes, TimerTypes
      <4>3. /\ Drift' = debt - (0 + Full - count + p)
            /\ Drift = debt - (biosCount + max - count + p)
            /\ debt - (0 + Full - count + p) \in Int
        BY <3>2, <4>1, <4>2, <1>0, <1>2, <1>6 DEF Disable, Reset, Drift
      <4>4. /\ Full - (biosCount + max) <= Tolerance
            /\ -Tolerance <= Full - (biosCount + max)
        BY <3>2, <1>2 DEF Abs
      <4>q. QED
        BY <4>2, <4>3, <4>4, <1>2
    <3>q. QED
      BY <3>1, <3>2
  <2>2. PICK n \in Nat, m \in Nat, k \in Nat : n = Slack + Slip /\ m = Slack + b /\ k = a + b
    BY <1>u
  <2>3. (irq0 => m >= n + Full) /\ (~irq0 => m >= n) /\ k >= m + Tolerance
    BY <1>u, <1>v, <2>2
  <2>4. Allowed(Drift, n) /\ (IF irq0 THEN m >= n + Full ELSE m >= n) /\ irq0' = irq0
    BY <1>0, <2>2, <2>3 DEF BiosCounted
  <2>5. IF Unmatched' THEN y \in Full - k .. k - Full ELSE y \in -k .. k
    BY <1>6, <1>v, <2>1, <2>2, <2>3, <2>4, Loosens
  <2>6. k = Slack' + Slip'
    BY <1>s, <2>2
  <2>q. QED
    BY <2>1, <2>5, <2>6, Zenon DEF BiosCounted, Allowed
<1>q. QED
  BY <1>1, <1>3, <1>4, <1>5, <1>7, <1>8 DEF CkInv, CkTypes

LEMMA EnableKeeps == ASSUME CkInv, NEW d \in Divisors, Enable(d) PROVE CkInv'
<1>0. /\ CkTypes /\ SinceCounted /\ CycleKnown /\ ReaderRight /\ BiosCounted /\ Setup
      /\ UNCHANGED <<count, loaded, irq0, max, biosCount, debt, ckNow, ckRtc>>
      /\ enabled' = TRUE
  BY DEF CkInv, Enable
<1>1. RtcTypes' /\ RtcKnown' /\ NowTypes'
  BY <1>0, RtcSame DEF CkTypes, NowTypes, ckNow
<1>2. /\ Full \in Nat \ {0} /\ Tolerance \in Nat /\ count \in 1 .. Full /\ max \in 1 .. Full
      /\ debt \in Int /\ since \in Int /\ biosCount \in 0 .. Full - 1 /\ setups \in Nat
      /\ late \in Nat /\ loaded \in 1 .. Full /\ d \in 1 .. Full
  BY <1>0, CkAssumption DEF CkTypes, TimerTypes, DriverTypes
<1>s. PICK a \in Nat, b \in Nat : /\ a = Slack' /\ b = Slip' /\ Slack \in Nat /\ Slip \in Nat
                              /\ a = Slack + Tolerance
                              /\ (irq0 => b = Slip + Full) /\ (~irq0 => b = Slip)
  <2>1. Slack \in Nat /\ Slip \in Nat /\ Slack + Tolerance \in Nat /\ Slip + Full \in Nat
    BY <1>2, SlackGrows
  <2>2. /\ Slack' = Slack + Tolerance
        /\ (irq0 => Slip' = Slip + Full) /\ (~irq0 => Slip' = Slip)
    BY <1>0, <1>2, SlackGrows
  <2>q. QED
    BY <2>1, <2>2
<1>u. /\ Slack \in Nat /\ Slip \in Nat /\ a = Slack + Tolerance
      /\ (irq0 => b = Slip + Full) /\ (~irq0 => b = Slip)
  BY <1>s
<1>v. Full \in Nat \ {0} /\ Tolerance \in Nat
  BY <1>2
<1>3. TimerTypes' /\ DriverTypes'
  BY <1>0, <1>2 DEF Enable, Setup, CkTypes, TimerTypes, DriverTypes
<1>4. CycleKnown'
  BY <1>0 DEF Enable, CycleKnown, Due
<1>5. ReaderRight'
  BY <1>0 DEF Setup, ckNow, ReaderRight
<1>6. Off \in Int /\ Drift \in Int /\ UNCHANGED <<Pending, Drift>>
  BY <1>0, Counts DEF Pending, Drift
<1>7. SinceCounted'
  <2>1. CASE enabled
    <3>1. Off' = Off
      BY <1>0, <1>6, <2>1 DEF Enable, Off
    <3>2. Allowed(Off, Slip) /\ irq0' = irq0 /\ Off - Off \in -0 .. 0
      BY <1>0, <1>6, <2>1 DEF SinceCounted
    <3>3. (IF irq0 THEN b >= Slip + Full ELSE b >= Slip) /\ b >= b + 0
      BY <1>u, <1>v
    <3>4. IF Unmatched' THEN Off \in Full - b .. b - Full ELSE Off \in -b .. b
      BY <3>2, <3>3, <1>6, <1>u, Loosens
    <3>q. QED
      BY <3>1, <3>4, <1>s DEF SinceCounted, Allowed
  <2>2. CASE ~enabled
    <3>1. Off' = 0
      <4>1. Off' = (max - count + Pending) - (max - count + Pending)
        BY <1>0, <1>6, <2>2 DEF Enable, Off, Pending
      <4>2. max - count + Pending \in Int
        BY <1>2 DEF Pending
      <4>q. QED
        BY <4>1, <4>2
    <3>2. (irq0 => 0 \in Full - b .. b - Full) /\ 0 \in -b .. b
      BY <1>u, <1>v
    <3>3. Unmatched' => irq0
      BY <1>0 DEF Unmatched
    <3>q. QED
      BY <3>1, <3>2, <3>3, <1>s DEF SinceCounted, Allowed
  <2>q. QED
    BY <2>1, <2>2
<1>8. BiosCounted'
  <2>2. PICK n \in Nat, m \in Nat, k \in Nat : n = Slack + Slip /\ m = Slack + b /\ k = a + b
    BY <1>u
  <2>3. (irq0 => m >= n + Full) /\ (~irq0 => m >= n) /\ k >= m + 0
    BY <1>u, <1>v, <2>2
  <2>4. Allowed(Drift, n) /\ (IF irq0 THEN m >= n + Full ELSE m >= n) /\ irq0' = irq0
        /\ Drift - Drift \in -0 .. 0
    BY <1>0, <1>6, <2>2, <2>3 DEF BiosCounted
  <2>5. IF Unmatched' THEN Drift \in Full - k .. k - Full ELSE Drift \in -k .. k
    BY <1>6, <1>v, <2>2, <2>3, <2>4, Loosens
  <2>6. k = Slack' + Slip'
    BY <1>s, <2>2
  <2>q. QED
    BY <1>6, <2>5, <2>6, Zenon DEF BiosCounted, Allowed
<1>q. QED
  BY <1>1, <1>3, <1>4, <1>5, <1>7, <1>8 DEF CkInv, CkTypes

LEMMA NowKeeps ==
    ASSUME ReadsInStep, CkInv, NowBegin \/ NowLatch \/ NowCheck \/ NowEnd
    PROVE  CkInv'
<1>0. CkSame /\ UNCHANGED ckRtc /\ CkTypes /\ ReaderRight /\ SinceCounted
  BY DEF CkInv, NowBegin, NowLatch, NowCheck, NowEnd, CkSame
<1>1. RtcTypes' /\ RtcKnown'
  BY <1>0, RtcSame
<1>2. /\ Full \in Nat \ {0} /\ count \in 1 .. Full /\ max \in 1 .. Full /\ since \in Int
      /\ shown \in Int /\ elapsed \in Int /\ Slip \in Nat /\ UNCHANGED <<Slip, irq0, enabled, handler>>
  BY <1>0, CkAssumption, SlackGrows, CkSameKeeps
     DEF CkTypes, TimerTypes, DriverTypes, NowTypes, CkSame, ckTimer, ckDriver
<1>3. CASE NowBegin
  BY <1>0, <1>1, <1>2, <1>3, CkSameKeeps DEF NowBegin, CkInv, CkTypes, NowTypes, ReaderRight
<1>4. CASE NowLatch
  <2>1. count # Full /\ shown' = max - count /\ elapsed' = since /\ reader' = "check"
        /\ enabled
    <3>1. count % Full = count \/ count = Full
      BY <1>2, ModOnce
    <3>q. QED
      BY <1>0, <1>4, <3>1 DEF NowLatch, ReadsInStep, ReaderRight
  <2>2. ~irq0 => shown' - elapsed' \in -Slip .. Slip
    <3> SUFFICES ASSUME ~irq0 PROVE shown' - elapsed' \in -Slip .. Slip
      OBVIOUS
    <3>1. Off = since - max + count /\ Off \in -Slip .. Slip
      BY <1>0, <2>1, Counts DEF SinceCounted, Allowed, Unmatched
    <3>q. QED
      BY <3>1, <2>1, <1>2
  <2>3. NowTypes' /\ ReaderRight'
    BY <2>1, <2>2, <1>0, <1>2, <1>4 DEF NowLatch, NowTypes, ReaderRight
  <2>q. QED
    BY <2>3, <1>1, CkSameKeeps, <1>0 DEF CkInv, CkTypes
<1>5. CASE NowCheck
  BY <1>0, <1>1, <1>2, <1>5, CkSameKeeps DEF NowCheck, CkInv, CkTypes, NowTypes, ReaderRight
<1>6. CASE NowEnd
  BY <1>0, <1>1, <1>2, <1>6, CkSameKeeps DEF NowEnd, CkInv, CkTypes, NowTypes, ReaderRight
<1>q. QED
  BY <1>3, <1>4, <1>5, <1>6

LEMMA RtcKeeps ==
    ASSUME ReadsInStep, CkInv, RtcNext
    PROVE  CkInv'
<1>0. CkSame /\ UNCHANGED ckNow /\ CkTypes /\ RtcKnown
  BY DEF CkInv, CkSame, RtcNext, RtcTick, Irq8, RtcNow, RtcEnd
<1>1. NowTypes' /\ ReaderRight'
  <2>1. UNCHANGED <<Slip, irq0, enabled, handler>>
    BY <1>0, CkSameKeeps DEF CkSame, ckDriver
  <2>q. QED
    BY <1>0, <2>1 DEF ckNow, CkInv, CkTypes, NowTypes, ReaderRight
<1>2. CASE RtcTick
  BY <1>0, <1>1, <1>2, CkSameKeeps, CkAssumption DEF RtcTick, CkInv, CkTypes, RtcTypes, RtcKnown
<1>3. CASE Irq8
  BY <1>0, <1>1, <1>3, CkSameKeeps DEF Irq8, ReadsInStep, CkInv, CkTypes, RtcTypes, RtcKnown
<1>4. CASE RtcNow
  BY <1>0, <1>1, <1>4, CkSameKeeps DEF RtcNow, CkInv, CkTypes, RtcTypes, RtcKnown
<1>5. CASE RtcEnd
  BY <1>0, <1>1, <1>5, CkSameKeeps DEF RtcEnd, CkInv, CkTypes, RtcTypes, RtcKnown
<1>q. QED
  BY <1>2, <1>3, <1>4, <1>5 DEF RtcNext

LEMMA CkStep == ASSUME ReadsInStep, CkInv, [CkNext]_ckVars PROVE CkInv'
<1>1. CASE UNCHANGED ckVars
  <2>1. CkSame /\ UNCHANGED <<ckNow, ckRtc>>
    BY <1>1 DEF ckVars, CkSame
  <2>2. RtcTypes' /\ RtcKnown' /\ UNCHANGED <<Slip, irq0, enabled, handler>>
    BY <2>1, RtcSame, CkSameKeeps DEF CkSame, ckDriver
  <2>3. NowTypes' /\ ReaderRight'
    BY <2>1, <2>2 DEF ckNow, CkInv, CkTypes, NowTypes, ReaderRight
  <2>q. QED
    BY <2>1, <2>2, <2>3, CkSameKeeps DEF CkInv, CkTypes
<1>2. CASE PitNext
  BY <1>2, CountKeeps, ServedKeeps, DisableKeeps, EnableKeeps, NowKeeps DEF PitNext
<1>3. CASE RtcNext
  BY <1>3, RtcKeeps
<1>q. QED
  BY <1>1, <1>2, <1>3 DEF CkNext

\* Unless the program reads the counter in the count after it was loaded with Full, or IRQ 8 comes
\* between the reads of rtc::now(): a reading of pit::now() that begins at a steady rate is the
\* time that passed, rtc::now() agrees with the RTC, and the BIOS gets its ticks to within the
\* tolerance of each change of the rate, however the interrupts come between the steps, and but
\* for a cycle at each change that comes while a tick pends (chrono.cpp).
THEOREM ClocksStayRight == ReadsInStep => (CkSpec => []ClocksRight)
<1> SUFFICES ASSUME ReadsInStep PROVE CkSpec => []ClocksRight
  OBVIOUS
<1>1. CkInit => CkInv
  BY CkStart
<1>2. CkInv /\ [CkNext]_ckVars => CkInv'
  BY CkStep
<1>3. CkInv => ClocksRight
  <2> SUFFICES ASSUME CkInv PROVE ClocksRight
    OBVIOUS
  <2>1. NowIsNow
    BY DEF CkInv, ReaderRight, NowIsNow, Slip
  <2>2. ~irq8 /\ read # -1 => ticks = phase /\ read = second
    BY DEF CkInv, RtcKnown
  <2>3. BiosInTime
    <3>1. setups \in Nat /\ late \in Nat /\ Full \in Nat /\ Drift \in Int /\ Slack + Slip \in Nat
      BY SlackGrows, Counts, CkAssumption DEF CkInv, CkTypes, DriverTypes
    <3>2. Drift \in -(Slack + Slip) .. Slack + Slip
      BY <3>1 DEF CkInv, BiosCounted, Allowed
    <3>q. QED
      BY <3>2 DEF BiosInTime, Drift, Pending, Slack, Slip
  <2>q. QED
    BY <2>1, <2>2, <2>3 DEF CkInv, ClocksRight
<1>q. QED
  BY <1>1, <1>2, <1>3, PTL DEF CkSpec

-----------------------------------------------------------------------------
(* Keyboard                                                                *)

\* A handler of key_changed does not yield.
KeysInTurn == "yield" \notin KbOps

KeyEvents == Keys \X BOOLEAN
Running == {"loop", "changed", "command", "flags"}
Busy == {"command", "mutex", "waits"}

KbTypes ==
    /\ pc \in [Calls -> Running \cup {"runs", "mutex", "waits"}]
    /\ key \in [Calls -> KeyEvents \cup {NoKey}] /\ arg \in [Calls -> SUBSET LockKeys]
    /\ keys \in [Keys \cup {Any} -> {"up", "down", "repeat"}]
    /\ queue \in Seq(KeyEvents) /\ port \in Seq(KeyEvents)
    /\ held \in SUBSET Keys /\ locks \in SUBSET LockKeys /\ toggles \in SUBSET LockKeys
    /\ \A c \in Calls : pc[c] = "changed" => key[c] \in KeyEvents
    /\ ahead \in [Calls -> SUBSET Calls]

\* One call runs at a time, and the one that waits for the keyboard has the mutex.
OneRuns == \A c, d \in Calls : c # d /\ pc[c] \in Running => pc[d] \notin Running
MutexHeld ==
    mutex \in Calls \cup {None} /\ \A c \in Calls : pc[c] = "waits" <=> mutex = c

\* What a scancode does to the keys held down and the locks toggled
After(p, e) ==
    << IF e[2] THEN p[1] \cup {e[1]} ELSE p[1] \ {e[1]},
       IF e[2] /\ e[1] \in LockKeys \ p[1] THEN Flip(p[2], e[1]) ELSE p[2] >>

\* The scancodes s lead from p to q.
Path(s, w) ==
    /\ w \in [1 .. Len(s) + 1 -> (SUBSET Keys) \X (SUBSET LockKeys)]
    /\ \A i \in 1 .. Len(s) : w[i + 1] = After(w[i], s[i])
Leads(s, p, q) == \E w : Path(s, w) /\ w[1] = p /\ w[Len(s) + 1] = q

\* The keys that the driver takes for pressed, and the locks when it has applied them
Pressed == {k \in Keys : keys[k] # "up"}
Applied(k) == IF k \in LockKeys /\ keys[k] = "down" THEN Flip(locks, k) ELSE locks
Known(l) ==
    /\ \A c \in Calls : pc[c] = "changed" => l = Applied(key[c][1])
    /\ (\A c \in Calls : pc[c] # "changed") => l = locks

\* The scancodes on their way lead from what the driver knows to what was typed.
OnTheWay ==
    ~lost => \E l \in SUBSET LockKeys :
                Known(l) /\ Leads(queue \o port, <<Pressed, l>>, <<held, toggles>>)

VirtualKnown ==
    (\A c \in Calls : pc[c] = "changed" => key[c][1] \notin {Left, Right}) =>
       ((keys[Any] # "up") <=> (keys[Left] # "up" \/ keys[Right] # "up"))

\* The calls that wait for the mutex stand in line.
InLine ==
    /\ \A c, d \in Calls : d \in ahead[c] => pc[c] = "mutex" /\ pc[d] = "mutex" /\ c # d
    /\ \A c, d \in Calls : c # d /\ pc[c] = "mutex" /\ pc[d] = "mutex" =>
                              c \in ahead[d] \/ d \in ahead[c]

\* The command that comes last has the locks as they are.
Newest(c) ==
    \/ pc[c] = "mutex" /\ (\A d \in Calls : pc[d] # "command") /\ Others(c) \subseteq ahead[c]
    \/ pc[c] = "waits" /\ \A d \in Calls : pc[d] \notin {"command", "mutex"}
LedsKnown ==
    /\ \A c \in Calls : Newest(c) => arg[c] = locks
    /\ (\A c \in Calls : pc[c] \notin Busy) => leds = locks
LedsTold ==
    /\ \A c \in Calls : pc[c] = "command" => arg[c] = locks
    /\ ~lost /\ ~overtaken => LedsKnown
FlagsTold == (~lost /\ \A c \in Calls : pc[c] \notin Busy \cup {"flags"}) => flags = locks

KbInv ==
    KbTypes /\ OneRuns /\ MutexHeld /\ OnTheWay /\ VirtualKnown /\ InLine /\ LedsTold /\ FlagsTold

-----------------------------------------------------------------------------
(* Paths of scancodes                                                      *)

States == (SUBSET Keys) \X (SUBSET LockKeys)

LEMMA AfterStates == \A p \in States, e \in KeyEvents : After(p, e) \in States
  BY DEF After, States, KeyEvents, Flip

LEMMA EmptyLeads == \A p, q \in States : Leads(<<>>, p, q) <=> p = q
<1> TAKE p, q \in States
<1>1. Len(<<>>) = 0 /\ Len(<<>>) + 1 = 1
  OBVIOUS
<1>2. ASSUME p = q PROVE Leads(<<>>, p, q)
  <2> DEFINE w == [i \in 1 .. Len(<<>>) + 1 |-> p]
  <2>1. w \in [1 .. Len(<<>>) + 1 -> States] /\ w[1] = p /\ w[Len(<<>>) + 1] = q
    BY <1>1, <1>2
  <2>2. Path(<<>>, w)
    BY <1>1, <2>1 DEF Path, States
  <2>q. QED
    BY <2>1, <2>2 DEF Leads
<1>3. ASSUME Leads(<<>>, p, q) PROVE p = q
  BY <1>1, <1>3 DEF Leads
<1>q. QED
  BY <1>2, <1>3

LEMMA TailLeads ==
    ASSUME NEW s \in Seq(KeyEvents), s # <<>>, NEW p \in States, NEW q, Leads(s, p, q)
    PROVE  Leads(Tail(s), After(p, Head(s)), q)
<1>1. PICK w : Path(s, w) /\ w[1] = p /\ w[Len(s) + 1] = q
  BY DEF Leads
<1> DEFINE n == Len(s)
<1>2. n \in Nat \ {0} /\ Len(Tail(s)) = n - 1 /\ Head(s) = s[1]
  BY EmptySeq, HeadTailProperties
<1>3. \A i \in 1 .. n - 1 : Tail(s)[i] = s[i + 1]
  BY HeadTailProperties
<1>4. /\ w \in [1 .. n + 1 -> States]
      /\ \A i \in 1 .. n : w[i + 1] = After(w[i], s[i])
  BY <1>1 DEF Path, States
<1> HIDE DEF n
<1> DEFINE v == [i \in 1 .. n |-> w[i + 1]]
<1>5. v \in [1 .. n -> States]
  BY <1>2, <1>4
<1>6. \A i \in 1 .. n - 1 : v[i + 1] = After(v[i], Tail(s)[i])
  <2> SUFFICES ASSUME NEW i \in 1 .. n - 1 PROVE v[i + 1] = After(v[i], Tail(s)[i])
    OBVIOUS
  <2>1. i \in 1 .. n /\ i + 1 \in 1 .. n
    BY <1>2
  <2>q. QED
    BY <1>3, <1>4, <2>1
<1>7. v[1] = After(p, Head(s)) /\ v[n] = q
  <2>1. 1 \in 1 .. n /\ n \in 1 .. n
    BY <1>2
  <2>q. QED
    BY <1>1, <1>2, <1>4, <2>1 DEF n
<1>8. (n - 1) + 1 = n
  BY <1>2
<1> HIDE DEF v
<1>9. Path(Tail(s), v)
  BY <1>2, <1>5, <1>6, <1>8 DEF Path, States
<1>q. QED
  BY <1>2, <1>7, <1>8, <1>9 DEF Leads

LEMMA AppendLeads ==
    ASSUME NEW s \in Seq(KeyEvents), NEW e \in KeyEvents, NEW p, NEW q \in States, Leads(s, p, q)
    PROVE  Leads(Append(s, e), p, After(q, e))
<1>1. PICK w : Path(s, w) /\ w[1] = p /\ w[Len(s) + 1] = q
  BY DEF Leads
<1> DEFINE n == Len(s)
<1>2. /\ n \in Nat /\ Len(Append(s, e)) = n + 1 /\ Append(s, e)[n + 1] = e
      /\ \A i \in 1 .. n : Append(s, e)[i] = s[i]
  BY AppendProperties
<1>3. /\ w \in [1 .. n + 1 -> States]
      /\ \A i \in 1 .. n : w[i + 1] = After(w[i], s[i])
  BY <1>1 DEF Path, States
<1>4. After(q, e) \in States
  BY AfterStates
<1> DEFINE a == After(q, e)
<1> HIDE DEF n, a
<1> DEFINE v == [i \in 1 .. n + 2 |-> IF i = n + 2 THEN a ELSE w[i]]
<1>5. v \in [1 .. n + 2 -> States]
  BY <1>2, <1>3, <1>4 DEF a
<1>6. \A i \in 1 .. n + 1 : v[i + 1] = After(v[i], Append(s, e)[i])
  <2> SUFFICES ASSUME NEW i \in 1 .. n + 1 PROVE v[i + 1] = After(v[i], Append(s, e)[i])
    OBVIOUS
  <2>1. i \in 1 .. n + 2 /\ i + 1 \in 1 .. n + 2 /\ v[i] = w[i]
    BY <1>2
  <2>2. CASE i \in 1 .. n
    <3>1. v[i + 1] = w[i + 1]
      BY <1>2, <2>1, <2>2
    <3>q. QED
      BY <1>2, <1>3, <2>1, <2>2, <3>1
  <2>3. CASE i = n + 1
    <3>1. v[i + 1] = a /\ w[i] = q
      BY <1>1, <1>2, <2>1, <2>3 DEF n
    <3>q. QED
      BY <1>2, <2>1, <2>3, <3>1 DEF a
  <2>q. QED
    BY <1>2, <2>2, <2>3
<1>7. v[1] = p /\ v[n + 2] = a
  BY <1>1, <1>2
<1>8. (n + 1) + 1 = n + 2
  BY <1>2
<1> HIDE DEF v
<1>9. Path(Append(s, e), v)
  BY <1>2, <1>5, <1>6, <1>8 DEF Path, States
<1>q. QED
  BY <1>2, <1>7, <1>8, <1>9 DEF Leads, a

\* KeyEvents that are read, and that are taken from the queue, stay in order.
LEMMA ConcatTail ==
    ASSUME NEW q \in Seq(KeyEvents), q # <<>>, NEW p \in Seq(KeyEvents)
    PROVE  /\ q \o p \in Seq(KeyEvents) /\ q \o p # <<>>
           /\ Head(q \o p) = Head(q) /\ Tail(q \o p) = Tail(q) \o p
<1>1. /\ q \o p \in Seq(KeyEvents) /\ Len(q \o p) = Len(q) + Len(p)
      /\ \A i \in 1 .. Len(q) + Len(p) :
            (q \o p)[i] = IF i <= Len(q) THEN q[i] ELSE p[i - Len(q)]
  BY ConcatProperties
<1>2. Len(q) \in Nat \ {0} /\ Len(p) \in Nat
  BY EmptySeq, LenProperties
<1>3. q \o p # <<>>
  BY <1>1, <1>2, EmptySeq
<1>4. Head(q \o p) = Head(q)
  BY <1>1, <1>2, <1>3
<1>5. /\ Tail(q) \in Seq(KeyEvents) /\ Len(Tail(q)) = Len(q) - 1
      /\ \A i \in 1 .. Len(q) - 1 : Tail(q)[i] = q[i + 1]
  BY HeadTailProperties
<1>6. /\ Tail(q \o p) \in Seq(KeyEvents) /\ Len(Tail(q \o p)) = Len(q) + Len(p) - 1
      /\ \A i \in 1 .. Len(q) + Len(p) - 1 : Tail(q \o p)[i] = (q \o p)[i + 1]
  BY <1>1, <1>3, HeadTailProperties
<1>7. /\ Tail(q) \o p \in Seq(KeyEvents) /\ Len(Tail(q) \o p) = Len(q) - 1 + Len(p)
      /\ \A i \in 1 .. Len(q) - 1 + Len(p) :
            (Tail(q) \o p)[i] = IF i <= Len(q) - 1 THEN Tail(q)[i] ELSE p[i - (Len(q) - 1)]
  <2>1. /\ Tail(q) \o p \in Seq(KeyEvents) /\ Len(Tail(q) \o p) = Len(Tail(q)) + Len(p)
        /\ \A i \in 1 .. Len(Tail(q)) + Len(p) :
              (Tail(q) \o p)[i] = IF i <= Len(Tail(q)) THEN Tail(q)[i] ELSE p[i - Len(Tail(q))]
    BY <1>5, ConcatProperties
  <2>q. QED
    BY <2>1, <1>5
<1> DEFINE n == Len(q)
<1> DEFINE m == Len(p)
<1> DEFINE a == Tail(q \o p)
<1> DEFINE b == Tail(q) \o p
<1>8. ASSUME NEW i \in 1 .. n + m - 1 PROVE a[i] = b[i]
  <2>1. i \in 1 .. n - 1 + m /\ i + 1 \in 1 .. n + m
    BY <1>2
  <2>2. a[i] = IF i + 1 <= n THEN q[i + 1] ELSE p[(i + 1) - n]
    BY <1>1, <1>6, <2>1
  <2>3. b[i] = IF i <= n - 1 THEN Tail(q)[i] ELSE p[i - (n - 1)]
    BY <1>7, <2>1
  <2>4. (i + 1) - n = i - (n - 1) /\ (i + 1 <= n <=> i <= n - 1)
    BY <1>2, <2>1
  <2>5. i <= n - 1 => Tail(q)[i] = q[i + 1]
    BY <1>2, <1>5, <2>1
  <2>q. QED
    BY <2>2, <2>3, <2>4, <2>5
<1>9. n + m - 1 = n - 1 + m
  BY <1>2
<1>10. a = b
  BY <1>6, <1>7, <1>8, <1>9, SeqEqual
<1>q. QED
  BY <1>1, <1>3, <1>4, <1>10

LEMMA ConcatAppend ==
    ASSUME NEW q \in Seq(KeyEvents), NEW p \in Seq(KeyEvents), NEW e \in KeyEvents
    PROVE  q \o Append(p, e) = Append(q \o p, e)
<1>1. <<e>> \in Seq(KeyEvents) /\ q \o p \in Seq(KeyEvents)
  BY ConcatProperties
<1>2. q \o (p \o <<e>>) = (q \o p) \o <<e>>
  BY <1>1, ConcatAssociative
<1>q. QED
  BY <1>1, <1>2, AppendIsConcat

-----------------------------------------------------------------------------
(* Steps                                                                   *)

LEMMA NoCall == None \notin Calls
  BY KbAssumption DEF Calls

\* Where the driver knows and does nothing new, the scancodes on their way stay right.
LEMMA WaySame ==
    /\ OnTheWay /\ (lost => lost') /\ UNCHANGED <<queue, port, keys, locks, held, toggles>>
    /\ \A c \in Calls : /\ pc'[c] = "changed" <=> pc[c] = "changed"
                        /\ pc[c] = "changed" => key'[c] = key[c]
    => OnTheWay'
<1> SUFFICES ASSUME OnTheWay, lost => lost',
                    UNCHANGED <<queue, port, keys, locks, held, toggles>>,
                    \A c \in Calls : /\ pc'[c] = "changed" <=> pc[c] = "changed"
                                     /\ pc[c] = "changed" => key'[c] = key[c]
             PROVE  OnTheWay'
  OBVIOUS
<1>1. ASSUME NEW l, Known(l) PROVE Known(l)'
  <2>1. ASSUME NEW k PROVE Applied(k)' = Applied(k)
    BY DEF Applied
  <2>2. (\A d \in Calls : pc[d] # "changed")' => l = locks'
    BY <1>1 DEF Known
  <2>3. ASSUME NEW d \in Calls, pc'[d] = "changed" PROVE (l = Applied(key[d][1]))'
    <3>1. l = Applied(key[d][1]) /\ key'[d] = key[d]
      BY <1>1, <2>3 DEF Known
    <3>q. QED
      BY <2>1, <3>1
  <2>q. QED
    BY <2>2, <2>3 DEF Known
<1>2. Pressed' = Pressed
  BY DEF Pressed
<1>3. \A p, q : Leads(queue \o port, p, q) => Leads(queue \o port, p, q)'
  BY DEF Leads, Path
<1>q. QED
  BY <1>1, <1>2, <1>3 DEF OnTheWay

LEMMA VirtualSame ==
    /\ VirtualKnown /\ UNCHANGED keys
    /\ \A c \in Calls : /\ pc'[c] = "changed" <=> pc[c] = "changed"
                        /\ pc[c] = "changed" => key'[c] = key[c]
    => VirtualKnown'
  BY DEF VirtualKnown

LEMMA Update_Keeps ==
    ASSUME KeysInTurn, KbInv, NEW c \in Calls, Turn(c), Update(c)
    PROVE  KbInv'
<1>0. KbTypes /\ OneRuns /\ MutexHeld /\ OnTheWay /\ VirtualKnown /\ InLine /\ LedsTold /\ FlagsTold
  BY DEF KbInv
<1>t. \A d \in Calls \ {c} : pc[d] \in {"runs", "mutex", "waits"}
  BY DEF KeysInTurn, Turn, Yields
<1>1. KbTypes'
  BY <1>0 DEF Update, kbHw, kbCalls, kbOut, kbOrder, KbTypes, Running, KeyEvents
<1>2. OneRuns'
  BY <1>0, <1>t DEF Update, kbHw, kbCalls, kbOut, kbOrder, KbTypes, OneRuns, Running
<1>3. MutexHeld'
  BY <1>0, NoCall DEF Update, kbHw, kbCalls, kbOut, kbOrder, KbTypes, MutexHeld
<1>4. OnTheWay'
  BY <1>0, WaySame DEF Update, kbHw, KbTypes
<1>5. VirtualKnown'
  BY <1>0, VirtualSame DEF Update, kbHw, kbCalls, kbOut, kbOrder, KbTypes
<1>6. InLine'
  BY <1>0 DEF Update, kbOrder, KbTypes, InLine
<1>7. LedsTold'
  BY <1>0, <1>t, NoCall DEF Update, kbHw, kbCalls, kbOut, kbOrder, KbTypes, OneRuns, MutexHeld, Running, Newest, Others, Busy, LedsKnown, LedsTold
<1>8. FlagsTold'
  BY <1>0, NoCall DEF Update, kbHw, kbCalls, kbOut, kbOrder, KbTypes, Running, Busy, FlagsTold
<1>q. QED
  BY <1>1, <1>2, <1>3, <1>4, <1>5, <1>6, <1>7, <1>8 DEF KbInv

LEMMA Begin_Keeps ==
    ASSUME KeysInTurn, KbInv, NEW c \in Calls, Turn(c), Begin(c)
    PROVE  KbInv'
<1>0. KbTypes /\ OneRuns /\ MutexHeld /\ OnTheWay /\ VirtualKnown /\ InLine /\ LedsTold /\ FlagsTold
  BY DEF KbInv
<1>t. \A d \in Calls \ {c} : pc[d] \in {"runs", "mutex", "waits"}
  BY DEF KeysInTurn, Turn, Yields
<1>1. KbTypes'
  <2>1. ahead' \in [Calls -> SUBSET Calls]
    BY <1>0 DEF Begin, Take, Others, KbTypes
  <2>2. pc' \in [Calls -> Running \cup {"runs", "mutex", "waits"}] /\ pc'[c] # "changed"
        /\ \A d \in Calls \ {c} : pc'[d] = pc[d]
    BY <1>0 DEF Begin, Take, KbTypes, Running
  <2>3. UNCHANGED <<queue, port, held, toggles, locks, keys, key, arg>>
    BY DEF Begin, Take, kbHw
  <2>q. QED
    BY <1>0, <2>1, <2>2, <2>3 DEF KbTypes
<1>2. OneRuns'
  BY <1>0, <1>t DEF Begin, Take, KeysInTurn, kbHw, kbCalls, kbOut, kbOrder, KbTypes, OneRuns, Running
<1>3. MutexHeld'
  BY <1>0, NoCall DEF Begin, Take, KeysInTurn, kbHw, kbCalls, kbOut, kbOrder, KbTypes, MutexHeld
<1>4. OnTheWay'
  BY <1>0, WaySame DEF Begin, Take, kbHw, KbTypes
<1>5. VirtualKnown'
  BY <1>0, VirtualSame DEF Begin, Take, KeysInTurn, kbHw, kbCalls, kbOut, kbOrder, KbTypes
<1>6. InLine'
  <2>1. CASE Take(c)
    BY <1>0, <1>t, <2>1 DEF Begin, Take, KbTypes, InLine
  <2>2. CASE ~Take(c)
    <3>1. /\ \A d \in Calls : pc'[d] = IF d = c THEN "mutex" ELSE pc[d]
          /\ \A d \in Calls : ahead'[d] = IF d = c THEN Others(c) ELSE ahead[d]
          /\ pc[c] = "command"
      BY <1>0, <2>2 DEF Begin, KbTypes
    <3>2. ASSUME NEW d \in Calls, NEW e \in Calls, e \in ahead'[d]
          PROVE  pc'[d] = "mutex" /\ pc'[e] = "mutex" /\ d # e
      BY <1>0, <3>1, <3>2 DEF InLine, Others
    <3>3. ASSUME NEW d \in Calls, NEW e \in Calls, d # e, pc'[d] = "mutex", pc'[e] = "mutex"
          PROVE  d \in ahead'[e] \/ e \in ahead'[d]
      BY <1>0, <3>1, <3>3 DEF InLine, Others
    <3>q. QED
      BY <3>2, <3>3 DEF InLine
  <2>q. QED
    BY <2>1, <2>2
<1>7. LedsTold'
  <2>1. CASE Take(c)
    <3>1. CASE Others(c) = {}
      <4>1. /\ \A d \in Calls : pc'[d] = IF d = c THEN "waits" ELSE pc[d]
            /\ \A d \in Calls \ {c} : pc[d] = "runs"
            /\ arg[c] = locks /\ UNCHANGED <<arg, locks, leds>>
        <5>1. \A d \in Calls : pc'[d] = IF d = c THEN "waits" ELSE pc[d]
          BY <1>0, <2>1 DEF Take, KbTypes
        <5>2. \A d \in Calls \ {c} : pc[d] # "mutex" /\ pc[d] # "waits"
          BY <1>0, <2>1, <3>1, NoCall DEF Take, MutexHeld, Others
        <5>3. pc[c] = "command" /\ arg[c] = locks
          BY <1>0 DEF Begin, LedsTold
        <5>q. QED
          BY <1>t, <2>1, <5>1, <5>2, <5>3 DEF Take, kbOut
      <4>q. QED
        BY <4>1 DEF LedsTold, LedsKnown, Newest, Busy
    <3>2. CASE Others(c) # {}
      BY <1>0, <1>t, <2>1, <3>2 DEF Begin, Take, KbTypes, LedsTold
    <3>q. QED
      BY <3>1, <3>2
  <2>2. CASE ~Take(c)
    <3>1. /\ \A d \in Calls : pc'[d] = IF d = c THEN "mutex" ELSE pc[d]
          /\ \A d \in Calls : ahead'[d] = IF d = c THEN Others(c) ELSE ahead[d]
          /\ pc[c] = "command" /\ arg[c] = locks /\ mutex # None
          /\ UNCHANGED <<arg, locks, leds, lost, overtaken, mutex>>
      BY <1>0, <2>2 DEF Begin, kbOut, KbTypes, LedsTold
    <3>2. \A d \in Calls \ {c} : ~Newest(d)'
      BY <1>0, <1>t, <3>1 DEF Newest, Others, InLine
    <3>q. QED
      BY <1>0, <1>t, <3>1, <3>2 DEF LedsTold, LedsKnown, Newest, Busy
  <2>q. QED
    BY <2>1, <2>2
<1>8. FlagsTold'
  BY <1>0, NoCall DEF Begin, Take, KeysInTurn, kbHw, kbCalls, kbOut, kbOrder, KbTypes, Running, Busy, FlagsTold
<1>q. QED
  BY <1>1, <1>2, <1>3, <1>4, <1>5, <1>6, <1>7, <1>8 DEF KbInv

LEMMA Acquire_Keeps ==
    ASSUME KeysInTurn, KbInv, NEW c \in Calls, Turn(c), Acquire(c)
    PROVE  KbInv'
<1>0. KbTypes /\ OneRuns /\ MutexHeld /\ OnTheWay /\ VirtualKnown /\ InLine /\ LedsTold /\ FlagsTold
  BY DEF KbInv
<1>t. \A d \in Calls \ {c} : pc[d] \in {"runs", "mutex", "waits"}
  BY DEF KeysInTurn, Turn, Yields
<1>1. KbTypes'
  BY <1>0 DEF Acquire, Take, kbHw, kbOut, KbTypes, Running, KeyEvents
<1>2. OneRuns'
  BY <1>0, <1>t DEF Acquire, Take, KeysInTurn, kbHw, kbCalls, kbOut, kbOrder, KbTypes, OneRuns, Running
<1>3. MutexHeld'
  BY <1>0, NoCall DEF Acquire, Take, KeysInTurn, kbHw, kbCalls, kbOut, kbOrder, KbTypes, MutexHeld
<1>4. OnTheWay'
  BY <1>0, WaySame DEF Acquire, Take, kbHw, KbTypes
<1>5. VirtualKnown'
  BY <1>0, VirtualSame DEF Acquire, Take, KeysInTurn, kbHw, kbCalls, kbOut, kbOrder, KbTypes
<1>6. InLine'
  BY <1>0, <1>t DEF Acquire, Take, KbTypes, InLine
<1>7. LedsTold'
  <2>1. /\ \A d \in Calls : pc'[d] = IF d = c THEN "waits" ELSE pc[d]
        /\ \A d \in Calls : ahead'[d] = IF d = c THEN {} ELSE ahead[d] \ {c}
        /\ pc[c] = "mutex" /\ UNCHANGED <<arg, locks, leds, lost>>
        /\ overtaken' = (overtaken \/ Others(c) \cap ahead[c] # {})
    BY <1>0 DEF Acquire, Take, kbOut, KbTypes
  <2>2. \A d \in Calls : pc'[d] = "command" => arg'[d] = locks'
    BY <1>0, <2>1 DEF LedsTold
  <2>3. ASSUME ~lost', ~overtaken' PROVE LedsKnown'
    <3>1. LedsKnown /\ Others(c) \cap ahead[c] = {}
      BY <1>0, <2>1, <2>3 DEF LedsTold
    <3>2. ASSUME NEW d \in Calls, Newest(d)' PROVE arg'[d] = locks'
      <4>1. CASE d = c
        <5>1. Others(c) = {} /\ \A e \in Calls : pc[e] # "command"
          BY <2>1, <3>2, <4>1 DEF Newest, Others
        <5>2. Newest(c)
          BY <2>1, <5>1 DEF Newest
        <5>q. QED
          BY <2>1, <3>1, <4>1, <5>2 DEF LedsKnown
      <4>2. CASE d # c /\ pc[d] = "mutex"
        <5>1. c \in ahead[d]
          BY <1>0, <2>1, <3>1, <4>2 DEF InLine, Others
        <5>2. Newest(d)
          BY <2>1, <3>2, <4>2, <5>1 DEF Newest, Others
        <5>q. QED
          BY <2>1, <3>1, <5>2 DEF LedsKnown
      <4>3. CASE d # c /\ pc[d] # "mutex"
        BY <1>0, <2>1, <3>2, <4>3, NoCall DEF Newest, Acquire, Take, MutexHeld
      <4>q. QED
        BY <4>1, <4>2, <4>3
    <3>q. QED
      BY <2>1, <3>2 DEF LedsKnown, Busy
  <2>q. QED
    BY <2>2, <2>3 DEF LedsTold
<1>8. FlagsTold'
  BY <1>0, NoCall DEF Acquire, Take, KeysInTurn, kbHw, kbCalls, kbOut, kbOrder, KbTypes, Running, Busy, FlagsTold
<1>q. QED
  BY <1>1, <1>2, <1>3, <1>4, <1>5, <1>6, <1>7, <1>8 DEF KbInv

LEMMA Answer_Keeps ==
    ASSUME KeysInTurn, KbInv, NEW c \in Calls, Turn(c), Answer(c)
    PROVE  KbInv'
<1>0. KbTypes /\ OneRuns /\ MutexHeld /\ OnTheWay /\ VirtualKnown /\ InLine /\ LedsTold /\ FlagsTold
  BY DEF KbInv
<1>t. \A d \in Calls \ {c} : pc[d] \in {"runs", "mutex", "waits"}
  BY DEF KeysInTurn, Turn, Yields
<1>1. KbTypes'
  <2>1. port # <<>> => Tail(port) \in Seq(KeyEvents)
    BY <1>0, HeadTailProperties DEF KbTypes
  <2>q. QED
    BY <1>0, <2>1 DEF Answer, kbOrder, KbTypes, Running
<1>2. OneRuns'
  BY <1>0, <1>t DEF Answer, kbHw, kbCalls, kbOut, kbOrder, KbTypes, OneRuns, Running
<1>3. MutexHeld'
  BY <1>0, NoCall DEF Answer, kbHw, kbCalls, kbOut, kbOrder, KbTypes, MutexHeld
<1>4. OnTheWay'
  <2>1. CASE port # <<>>
    BY <2>1 DEF Answer, OnTheWay
  <2>2. CASE port = <<>>
    BY <1>0, <2>2, WaySame DEF Answer, KbTypes
  <2>q. QED
    BY <2>1, <2>2
<1>5. VirtualKnown'
  BY <1>0, VirtualSame DEF Answer, kbHw, kbCalls, kbOut, kbOrder, KbTypes
<1>6. InLine'
  BY <1>0 DEF Answer, kbOrder, KbTypes, InLine
<1>7. LedsTold'
  BY <1>0, <1>t, NoCall DEF Answer, kbHw, kbCalls, kbOut, kbOrder, KbTypes, OneRuns, MutexHeld, Running, Newest, Others, Busy, LedsKnown, LedsTold
<1>8. FlagsTold'
  BY <1>0, NoCall DEF Answer, kbHw, kbCalls, kbOut, kbOrder, KbTypes, Running, Busy, FlagsTold
<1>q. QED
  BY <1>1, <1>2, <1>3, <1>4, <1>5, <1>6, <1>7, <1>8 DEF KbInv

LEMMA Fail_Keeps ==
    ASSUME KeysInTurn, KbInv, NEW c \in Calls, Turn(c), Fail(c)
    PROVE  KbInv'
<1>0. KbTypes /\ OneRuns /\ MutexHeld /\ OnTheWay /\ VirtualKnown /\ InLine /\ LedsTold /\ FlagsTold
  BY DEF KbInv
<1>t. \A d \in Calls \ {c} : pc[d] \in {"runs", "mutex", "waits"}
  BY DEF KeysInTurn, Turn, Yields
<1>1. KbTypes'
  BY <1>0 DEF Fail, kbHw, kbCalls, kbOut, kbOrder, KbTypes, Running, KeyEvents
<1>2. OneRuns'
  BY <1>0, <1>t DEF Fail, kbHw, kbCalls, kbOut, kbOrder, KbTypes, OneRuns, Running
<1>3. MutexHeld'
  BY <1>0, NoCall DEF Fail, kbHw, kbCalls, kbOut, kbOrder, KbTypes, MutexHeld
<1>4. OnTheWay'
  BY <1>0, WaySame DEF Fail, kbHw, KbTypes
<1>5. VirtualKnown'
  BY <1>0, VirtualSame DEF Fail, kbHw, kbCalls, kbOut, kbOrder, KbTypes
<1>6. InLine'
  BY <1>0 DEF Fail, kbOrder, KbTypes, InLine
<1>7. LedsTold'
  BY <1>0, <1>t, NoCall DEF Fail, kbHw, kbCalls, kbOut, kbOrder, KbTypes, OneRuns, MutexHeld, Running, Newest, Others, Busy, LedsKnown, LedsTold
<1>8. FlagsTold'
  BY <1>0, NoCall DEF Fail, kbHw, kbCalls, kbOut, kbOrder, KbTypes, Running, Busy, FlagsTold
<1>q. QED
  BY <1>1, <1>2, <1>3, <1>4, <1>5, <1>6, <1>7, <1>8 DEF KbInv

LEMMA SetFlags_Keeps ==
    ASSUME KeysInTurn, KbInv, NEW c \in Calls, Turn(c), SetFlags(c)
    PROVE  KbInv'
<1>0. KbTypes /\ OneRuns /\ MutexHeld /\ OnTheWay /\ VirtualKnown /\ InLine /\ LedsTold /\ FlagsTold
  BY DEF KbInv
<1>t. \A d \in Calls \ {c} : pc[d] \in {"runs", "mutex", "waits"}
  BY DEF KeysInTurn, Turn, Yields
<1>1. KbTypes'
  BY <1>0 DEF SetFlags, kbHw, kbCalls, kbOut, kbOrder, KbTypes, Running, KeyEvents
<1>2. OneRuns'
  BY <1>0, <1>t DEF SetFlags, kbHw, kbCalls, kbOut, kbOrder, KbTypes, OneRuns, Running
<1>3. MutexHeld'
  BY <1>0, NoCall DEF SetFlags, kbHw, kbCalls, kbOut, kbOrder, KbTypes, MutexHeld
<1>4. OnTheWay'
  BY <1>0, WaySame DEF SetFlags, kbHw, KbTypes
<1>5. VirtualKnown'
  BY <1>0, VirtualSame DEF SetFlags, kbHw, kbCalls, kbOut, kbOrder, KbTypes
<1>6. InLine'
  BY <1>0 DEF SetFlags, kbOrder, KbTypes, InLine
<1>7. LedsTold'
  BY <1>0, <1>t, NoCall DEF SetFlags, kbHw, kbCalls, kbOut, kbOrder, KbTypes, OneRuns, MutexHeld, Running, Newest, Others, Busy, LedsKnown, LedsTold
<1>8. FlagsTold'
  BY <1>0, NoCall DEF SetFlags, kbHw, kbCalls, kbOut, kbOrder, KbTypes, Running, Busy, FlagsTold
<1>q. QED
  BY <1>1, <1>2, <1>3, <1>4, <1>5, <1>6, <1>7, <1>8 DEF KbInv

\* A key that is taken from the queue
LEMMA Handled ==
    ASSUME KbTypes, NEW e \in KeyEvents, keys' = Handle(keys, e[1], State(e[2])),
           UNCHANGED locks, NEW l, l = Applied(e[1])'
    PROVE  /\ keys' \in [Keys \cup {Any} -> {"up", "down", "repeat"}]
           /\ keys' = [keys EXCEPT ![e[1]] = keys'[e[1]]]
           /\ <<Pressed', l>> = After(<<Pressed, locks>>, e)
<1> DEFINE k == e[1]
<1>1. k \in Keys /\ k \in Keys \cup {Any} /\ e[2] \in BOOLEAN
  BY DEF KeyEvents
<1>2. State(e[2]) \in {"up", "down"} /\ (State(e[2]) = "down" <=> e[2])
  BY <1>1 DEF State
<1>3. keys \in [Keys \cup {Any} -> {"up", "down", "repeat"}]
  BY DEF KbTypes
<1>4. /\ keys'[k] = IF keys[k] # "up" /\ State(e[2]) # "up" THEN "repeat" ELSE State(e[2])
      /\ keys' = [keys EXCEPT ![k] = keys'[k]]
  BY <1>1, <1>3 DEF Handle
<1> DEFINE s == State(e[2])
<1> HIDE DEF s
<1>5. keys'[k] \in {"up", "down", "repeat"}
  BY <1>2, <1>4 DEF s
<1>6. Pressed' = IF e[2] THEN Pressed \cup {k} ELSE Pressed \ {k}
  <2> HIDE DEF k
  <2>1. keys'[k] # "up" <=> e[2]
    BY <1>2, <1>4
  <2>2. \A j \in Keys \ {k} : keys'[j] = keys[j]
    BY <1>3, <1>4
  <2>q. QED
    BY <1>1, <2>1, <2>2 DEF Pressed
<1>7. keys'[k] = "down" <=> e[2] /\ k \notin Pressed
  BY <1>1, <1>2, <1>4 DEF Pressed
<1>8. l = IF e[2] /\ k \in LockKeys \ Pressed THEN Flip(locks, k) ELSE locks
  <2>1. Applied(k)' = IF k \in LockKeys /\ keys'[k] = "down" THEN Flip(locks, k) ELSE locks
    BY DEF Applied, Flip
  <2>q. QED
    BY <1>7, <2>1
<1>q. QED
  BY <1>3, <1>4, <1>5, <1>6, <1>8 DEF After

LEMMA Decode_Keeps ==
    ASSUME KeysInTurn, KbInv, NEW c \in Calls, Turn(c), Decode(c)
    PROVE  KbInv'
<1>0. KbTypes /\ OneRuns /\ MutexHeld /\ OnTheWay /\ VirtualKnown /\ InLine /\ LedsTold /\ FlagsTold
  BY DEF KbInv
<1>n. \A d \in Calls : pc[d] # "changed"
  BY <1>0 DEF Decode, OneRuns, Running
<1>o. \A d \in Calls \ {c} : pc[d] \in {"runs", "mutex", "waits"} /\ pc'[d] = pc[d]
  BY <1>0 DEF Decode, Turn, Yields, KeysInTurn, KbTypes
<1>1. CASE queue = <<>>
  <2>0. pc' = [pc EXCEPT ![c] = "runs"] /\ pc[c] = "loop" /\ UNCHANGED <<queue, keys, key>>
    BY <1>1 DEF Decode
  <2>1. KbTypes'
    BY <1>0, <2>0 DEF Decode, kbHw, kbOrder, KbTypes, Running
  <2>2. OneRuns' /\ MutexHeld'
    BY <1>0, <1>o, <2>0 DEF Decode, KbTypes, OneRuns, MutexHeld, Running
  <2>3. OnTheWay' /\ VirtualKnown'
    BY <1>0, <2>0, WaySame, VirtualSame DEF Decode, kbHw, KbTypes
  <2>4. InLine' /\ LedsTold' /\ FlagsTold'
    BY <1>0, <2>0 DEF Decode, kbOut, kbOrder, KbTypes, InLine, LedsTold, LedsKnown, Newest, Others, Busy, FlagsTold
  <2>q. QED
    BY <2>1, <2>2, <2>3, <2>4 DEF KbInv
<1>2. CASE queue # <<>>
  <2>e. PICK e : e = Head(queue)
    OBVIOUS
  <2>l. PICK l : l = Applied(e[1])'
    OBVIOUS
  <2>0. /\ pc' = [pc EXCEPT ![c] = "changed"] /\ pc[c] = "loop"
        /\ queue' = Tail(queue) /\ key' = [key EXCEPT ![c] = e]
        /\ keys' = Handle(keys, e[1], State(e[2]))
        /\ UNCHANGED <<kbHw, masked, locks, arg, mutex, kbOut, toggles, lost, kbOrder>>
    BY <1>2, <2>e DEF Decode
  <2>a. e \in KeyEvents /\ Tail(queue) \in Seq(KeyEvents)
    BY <1>0, <1>2, <2>e, HeadTailProperties DEF KbTypes
  <2>b. /\ keys' \in [Keys \cup {Any} -> {"up", "down", "repeat"}]
        /\ keys' = [keys EXCEPT ![e[1]] = keys'[e[1]]]
        /\ <<Pressed', l>> = After(<<Pressed, locks>>, e)
    BY <1>0, <2>0, <2>a, <2>l, Handled
  <2>1. KbTypes'
    <3>1. pc' \in [Calls -> Running \cup {"runs", "mutex", "waits"}]
      BY <1>0, <2>0 DEF KbTypes, Running
    <3>2. key' \in [Calls -> KeyEvents \cup {NoKey}]
      BY <1>0, <2>0, <2>a DEF KbTypes
    <3>3. \A d \in Calls : pc'[d] = "changed" => key'[d] \in KeyEvents
      BY <1>0, <1>n, <2>0, <2>a DEF KbTypes
    <3>q. QED
      BY <1>0, <2>0, <2>a, <2>b, <3>1, <3>2, <3>3 DEF KbTypes, kbHw, kbOrder
  <2>2. OneRuns' /\ MutexHeld'
    BY <1>0, <1>o, <2>0 DEF KbTypes, OneRuns, MutexHeld, Running
  <2>3. OnTheWay'
    <3> SUFFICES ASSUME ~lost PROVE OnTheWay'
      BY <2>0 DEF OnTheWay
    <3>1. PICK m \in SUBSET LockKeys :
            Known(m) /\ Leads(queue \o port, <<Pressed, m>>, <<held, toggles>>)
      BY <1>0 DEF OnTheWay
    <3>2. m = locks
      BY <1>n, <3>1 DEF Known
    <3>3. <<Pressed, locks>> \in States /\ After(<<Pressed, locks>>, e) \in States
      BY <1>0, <2>a, AfterStates DEF States, Pressed, KbTypes
    <3>4. /\ queue \o port \in Seq(KeyEvents) /\ queue \o port # <<>>
          /\ Head(queue \o port) = e /\ Tail(queue \o port) = Tail(queue) \o port
      BY <1>0, <1>2, <2>e, ConcatTail DEF KbTypes
    <3>5. Leads(Tail(queue) \o port, <<Pressed', l>>, <<held, toggles>>)
      <4>1. Leads(queue \o port, <<Pressed, locks>>, <<held, toggles>>)
        BY <3>1, <3>2
      <4>2. Leads(Tail(queue \o port), After(<<Pressed, locks>>, Head(queue \o port)),
                  <<held, toggles>>)
        BY <3>3, <3>4, <4>1, TailLeads, Zenon
      <4>q. QED
        BY <2>b, <3>4, <4>2
    <3>6. Leads(queue \o port, <<Pressed, l>>, <<held, toggles>>)'
      BY <2>0, <3>5 DEF kbHw
    <3>7. l \in SUBSET LockKeys
      BY <2>b, <3>3 DEF States
    <3>8. Known(l)'
      <4>1. \A d \in Calls : pc'[d] = "changed" <=> d = c
        BY <1>0, <1>n, <2>0 DEF KbTypes
      <4>2. key'[c] = e
        BY <1>0, <2>0 DEF KbTypes
      <4>3. (l = Applied(key[c][1]))'
        BY <2>l, <4>2
      <4>4. ASSUME NEW d \in Calls, pc'[d] = "changed" PROVE (l = Applied(key[d][1]))'
        BY <4>1, <4>3, <4>4
      <4>5. (\A d \in Calls : pc[d] # "changed")' => l = locks'
        BY <4>1
      <4>q. QED
        BY <4>4, <4>5 DEF Known
    <3>q. QED
      BY <3>6, <3>7, <3>8 DEF OnTheWay
  <2>4. VirtualKnown'
    <3> SUFFICES ASSUME e[1] \notin {Left, Right} PROVE VirtualKnown'
      <4>1. pc'[c] = "changed" /\ key'[c] = e
        BY <1>0, <2>0 DEF KbTypes
      <4>q. QED
        BY <4>1 DEF VirtualKnown
    <3>1. e[1] # Any
      BY <2>a, KbAssumption DEF KeyEvents, Keys
    <3>2. keys'[Any] = keys[Any] /\ keys'[Left] = keys[Left] /\ keys'[Right] = keys[Right]
      BY <1>0, <2>b, <3>1 DEF KbTypes, Keys
    <3>3. (keys[Any] # "up") <=> (keys[Left] # "up" \/ keys[Right] # "up")
      BY <1>0, <1>n DEF VirtualKnown
    <3>q. QED
      BY <3>2, <3>3 DEF VirtualKnown
  <2>5. InLine' /\ LedsTold' /\ FlagsTold'
    BY <1>0, <2>0 DEF kbOut, kbOrder, KbTypes, InLine, LedsTold, LedsKnown, Newest, Others, Busy, FlagsTold
  <2>q. QED
    BY <2>1, <2>2, <2>3, <2>4, <2>5 DEF KbInv
<1>q. QED
  BY <1>1, <1>2

LEMMA Apply_Keeps ==
    ASSUME KeysInTurn, KbInv, NEW c \in Calls, Turn(c), Apply(c)
    PROVE  KbInv'
<1>0. KbTypes /\ OneRuns /\ MutexHeld /\ OnTheWay /\ VirtualKnown /\ InLine /\ LedsTold /\ FlagsTold
  BY DEF KbInv
<1>k. PICK k : k = key[c][1]
  OBVIOUS
<1>a. k \in Keys /\ pc[c] = "changed"
  BY <1>0, <1>k DEF Apply, KbTypes, KeyEvents
<1>n. \A d \in Calls \ {c} : pc[d] # "changed" /\ pc[d] \notin Running /\ pc'[d] = pc[d]
  BY <1>0, <1>a DEF Apply, KbTypes, OneRuns, Running
<1>b. /\ pc' = [pc EXCEPT ![c] = pc'[c]] /\ pc'[c] \in {"command", "loop"}
      /\ key' = [key EXCEPT ![c] = NoKey]
  BY <1>0 DEF Apply, KbTypes
<1>c. UNCHANGED <<held, typed, port, masked, queue, mutex, leds, flags, toggles, lost, ahead,
                overtaken>>
  BY DEF Apply, kbHw, kbOut, kbOrder
<1>d. \A d \in Calls : pc'[d] # "changed"
  BY <1>b, <1>n
<1>e. OneRuns' /\ MutexHeld'
  BY <1>0, <1>a, <1>b, <1>c, <1>n DEF KbTypes, OneRuns, MutexHeld, Running
\* What the driver knows once the key is applied is what it knew before.
<1>f. ASSUME locks' = Applied(k), Pressed' = Pressed PROVE OnTheWay'
  <2> SUFFICES ASSUME ~lost PROVE OnTheWay'
    BY <1>c DEF OnTheWay
  <2>1. PICK l \in SUBSET LockKeys :
          Known(l) /\ Leads(queue \o port, <<Pressed, l>>, <<held, toggles>>)
    BY <1>0 DEF OnTheWay
  <2>2. l = locks'
    BY <1>a, <1>f, <1>k, <2>1 DEF Known
  <2>3. Known(l)'
    BY <1>d, <2>2 DEF Known
  <2>4. Leads(queue \o port, <<Pressed, l>>, <<held, toggles>>)'
    BY <1>c, <1>f, <2>1
  <2>q. QED
    BY <2>3, <2>4 DEF OnTheWay
<1>1. CASE k \in LockKeys
  <2>0. /\ locks' = Toggle(k) /\ arg' = [arg EXCEPT ![c] = locks'] /\ keys' = keys
        /\ pc'[c] = "command"
    BY <1>0, <1>1, <1>k DEF Apply, KbTypes
  <2>1. KbTypes'
    <3>1. locks' \in SUBSET LockKeys
      BY <1>0, <1>1, <2>0 DEF KbTypes, Toggle, Flip
    <3>q. QED
      BY <1>0, <1>b, <1>c, <1>d, <2>0, <3>1 DEF KbTypes, Running
  <2>2. locks' = Applied(k) /\ Pressed' = Pressed
    BY <1>1, <2>0 DEF Toggle, Applied, Pressed
  <2>3. VirtualKnown'
    <3>1. k \notin {Left, Right}
      BY <1>1, KbAssumption
    <3>q. QED
      BY <1>0, <1>k, <1>n, <2>0, <3>1 DEF VirtualKnown
  <2>4. InLine' /\ LedsTold' /\ FlagsTold'
    BY <1>0, <1>a, <1>b, <1>c, <1>n, <2>0 DEF KbTypes, InLine, LedsTold, LedsKnown, Newest, Others, Busy, Running, FlagsTold
  <2>q. QED
    BY <1>e, <1>f, <2>1, <2>2, <2>3, <2>4 DEF KbInv
<1>2. CASE k \notin LockKeys
  <2>0. keys' = Virtual(keys, k) /\ pc'[c] = "loop" /\ UNCHANGED <<locks, arg>>
    BY <1>0, <1>2, <1>k DEF Apply, KbTypes
  <2>v. /\ keys' \in [Keys \cup {Any} -> {"up", "down", "repeat"}]
        /\ \A j \in Keys : keys'[j] = keys[j]
        /\ k \notin {Left, Right} => keys' = keys
        /\ k \in {Left, Right} =>
             (keys'[Any] # "up" <=> (keys[Left] # "up" \/ keys[Right] # "up"))
    <3>1. Any \notin Keys /\ Left \in Keys /\ Right \in Keys
      BY KbAssumption DEF Keys
    <3>2. keys \in [Keys \cup {Any} -> {"up", "down", "repeat"}]
      BY <1>0 DEF KbTypes
    <3>3. CASE k \in {Left, Right}
      <4> DEFINE s == IF "repeat" \in {keys[Left], keys[Right]} THEN "repeat"
                      ELSE IF "down" \in {keys[Left], keys[Right]} THEN "down" ELSE "up"
      <4>1. keys' = Handle(keys, Any, s)
        BY <2>0, <3>3 DEF Virtual
      <4>2. s \in {"up", "down", "repeat"}
        OBVIOUS
      <4>3. s # "up" <=> (keys[Left] # "up" \/ keys[Right] # "up")
        BY <3>1, <3>2
      <4> HIDE DEF s
      <4>q. QED
        BY <3>1, <3>2, <3>3, <4>1, <4>2, <4>3 DEF Handle
    <3>4. CASE k \notin {Left, Right}
      BY <2>0, <3>2, <3>4 DEF Virtual
    <3>q. QED
      BY <3>3, <3>4
  <2>1. KbTypes'
    BY <1>0, <1>b, <1>c, <1>d, <2>0, <2>v DEF KbTypes, Running
  <2>2. locks' = Applied(k) /\ Pressed' = Pressed
    BY <1>2, <2>0, <2>v DEF Applied, Pressed
  <2>3. VirtualKnown'
    <3>1. keys'[Left] = keys[Left] /\ keys'[Right] = keys[Right]
      BY <2>v DEF Keys
    <3>2. k \notin {Left, Right} =>
            ((keys[Any] # "up") <=> (keys[Left] # "up" \/ keys[Right] # "up"))
      BY <1>0, <1>k, <1>n DEF VirtualKnown
    <3>q. QED
      BY <2>v, <3>1, <3>2 DEF VirtualKnown
  <2>4. InLine' /\ LedsTold' /\ FlagsTold'
    BY <1>0, <1>a, <1>b, <1>c, <1>n, <2>0 DEF KbTypes, InLine, LedsTold, LedsKnown, Newest, Others, Busy, Running, FlagsTold
  <2>q. QED
    BY <1>e, <1>f, <2>1, <2>2, <2>3, <2>4 DEF KbInv
<1>q. QED
  BY <1>1, <1>2

LEMMA Type_Keeps ==
    ASSUME KbInv, NEW k \in Keys, Type(k)
    PROVE  KbInv'
<1>0. KbTypes /\ OneRuns /\ MutexHeld /\ OnTheWay /\ VirtualKnown /\ InLine /\ LedsTold /\ FlagsTold
  BY DEF KbInv
<1>1. PICK b \in BOOLEAN :
         /\ port' = Append(port, <<k, b>>)
         /\ held' = IF b THEN held \cup {k} ELSE held \ {k}
         /\ ~b => k \in held
  BY DEF Type
<1>2. UNCHANGED <<masked, queue, keys, locks, pc, key, arg, mutex, leds, flags, lost, ahead,
                overtaken>>
  BY DEF Type, kbCalls, kbOut, kbOrder
<1> DEFINE e == <<k, b>>
<1>3. e \in KeyEvents /\ e[1] = k /\ e[2] = b
  BY DEF KeyEvents
<1>4. <<held', toggles'>> = After(<<held, toggles>>, e)
  <2>1. toggles' = IF held' # held /\ k \in LockKeys \cap held' THEN Flip(toggles, k) ELSE toggles
    BY DEF Type
  <2>2. (held' # held /\ k \in LockKeys \cap held') <=> (b /\ k \in LockKeys \ held)
    BY <1>0, <1>1 DEF KbTypes
  <2>q. QED
    BY <1>1, <1>3, <2>1, <2>2 DEF After
<1>5. <<held, toggles>> \in States /\ <<held', toggles'>> \in States
  BY <1>0, <1>3, <1>4, AfterStates DEF KbTypes, States
<1> HIDE DEF e
<1>6. port' = Append(port, e) /\ port' \in Seq(KeyEvents)
  BY <1>0, <1>1, <1>3, AppendProperties DEF e, KbTypes
<1>7. KbTypes'
  BY <1>0, <1>2, <1>5, <1>6 DEF KbTypes, States
<1>8. OnTheWay'
  <2> SUFFICES ASSUME ~lost PROVE OnTheWay'
    BY <1>2 DEF OnTheWay
  <2>1. PICK l \in SUBSET LockKeys :
          Known(l) /\ Leads(queue \o port, <<Pressed, l>>, <<held, toggles>>)
    BY <1>0 DEF OnTheWay
  <2>2. queue \o port \in Seq(KeyEvents) /\ queue \o port' = Append(queue \o port, e)
    BY <1>0, <1>3, <1>6, ConcatAppend, ConcatProperties DEF KbTypes
  <2>3. Leads(Append(queue \o port, e), <<Pressed, l>>, After(<<held, toggles>>, e))
    BY <1>3, <1>5, <2>1, <2>2, AppendLeads, Zenon
  <2>4. Pressed' = Pressed
    BY <1>2 DEF Pressed
  <2>5. Leads(queue \o port, <<Pressed, l>>, <<held, toggles>>)'
    BY <1>2, <1>4, <2>2, <2>3, <2>4
  <2>6. Known(l)'
    BY <1>2, <2>1 DEF Known, Applied
  <2>q. QED
    BY <2>5, <2>6 DEF OnTheWay
<1>9. OneRuns' /\ MutexHeld' /\ VirtualKnown' /\ InLine' /\ LedsTold' /\ FlagsTold'
  BY <1>0, <1>2 DEF OneRuns, MutexHeld, VirtualKnown, InLine, LedsTold, LedsKnown, Newest, Others, FlagsTold
<1>q. QED
  BY <1>7, <1>8, <1>9 DEF KbInv

LEMMA Irq1_Keeps == KbInv /\ Irq1 => KbInv'
<1> SUFFICES ASSUME KbInv, Irq1 PROVE KbInv'
  OBVIOUS
<1>0. KbTypes /\ OneRuns /\ MutexHeld /\ OnTheWay /\ VirtualKnown /\ InLine /\ LedsTold /\ FlagsTold
  BY DEF KbInv
<1>1. /\ queue' = queue \o port /\ port' = <<>>
      /\ UNCHANGED <<held, typed, masked, keys, locks, pc, key, arg, mutex, leds, flags, toggles,
                     lost, ahead, overtaken>>
  BY DEF Irq1, kbCalls, kbOut, kbOrder
<1>2. queue' \in Seq(KeyEvents) /\ port' \in Seq(KeyEvents) /\ queue' \o port' = queue \o port
  BY <1>0, <1>1, ConcatProperties, ConcatEmptySeq DEF KbTypes
<1>3. KbTypes'
  BY <1>0, <1>1, <1>2 DEF KbTypes
<1>4. OnTheWay'
  <2>1. Pressed' = Pressed
    BY <1>1 DEF Pressed
  <2>2. ASSUME NEW l, Known(l) PROVE Known(l)'
    BY <1>1, <2>2 DEF Known, Applied
  <2>3. ASSUME NEW p, NEW q, Leads(queue \o port, p, q) PROVE Leads(queue \o port, p, q)'
    BY <1>2, <2>3
  <2>4. ~lost' => \E l \in SUBSET LockKeys :
          Known(l)' /\ Leads(queue \o port, <<Pressed, l>>, <<held, toggles>>)'
    BY <1>0, <1>1, <1>2, <2>1, <2>2, <2>3 DEF OnTheWay
  <2>q. QED
    BY <2>4 DEF OnTheWay
<1>5. OneRuns' /\ MutexHeld' /\ VirtualKnown' /\ InLine' /\ LedsTold' /\ FlagsTold'
  BY <1>0, <1>1 DEF OneRuns, MutexHeld, VirtualKnown, InLine, LedsTold, LedsKnown, Newest, Others, FlagsTold
<1>q. QED
  BY <1>3, <1>4, <1>5 DEF KbInv

\* Unless a handler of key_changed yields, a command fails or one takes a scancode for its answer:
\* once all scancodes are handled every press of a lock key has toggled it, the BIOS flags show it
\* and the virtual modifiers follow the real ones, however many keys are typed, threads call
\* do_update(), and calls run above each other on a thread; and the LEDs show it unless a call got
\* the mutex before one that waited for it first (keyboard.cpp).
THEOREM LocksStayAgreed == KeysInTurn => (KbSpec => []LocksAgree)
<1> SUFFICES ASSUME KeysInTurn PROVE KbSpec => []LocksAgree
  OBVIOUS
<1>1. KbInit => KbInv
  <2> SUFFICES ASSUME KbInit PROVE KbInv
    OBVIOUS
  <2>1. KbTypes
    BY DEF KbInit, KbTypes, Running, Keys
  <2>2. OneRuns /\ MutexHeld /\ VirtualKnown /\ InLine /\ LedsTold /\ FlagsTold
    BY NoCall, KbAssumption
       DEF KbInit, OneRuns, MutexHeld, VirtualKnown, InLine, LedsTold, LedsKnown, Newest,
           FlagsTold, Running, Keys
  <2>3. OnTheWay
    <3>1. Known(locks) /\ locks \in SUBSET LockKeys
      BY DEF KbInit, Known
    <3>2. queue \o port = <<>> /\ <<Pressed, locks>> = <<held, toggles>>
      BY DEF KbInit, Pressed
    <3>3. Leads(queue \o port, <<Pressed, locks>>, <<held, toggles>>)
      BY <2>1, <3>2, EmptyLeads DEF KbTypes, States
    <3>q. QED
      BY <3>1, <3>3 DEF OnTheWay
  <2>q. QED
    BY <2>1, <2>2, <2>3 DEF KbInv
<1>2. KbInv /\ [KbNext]_kbVars => KbInv'
  <2> SUFFICES ASSUME KbInv, [KbNext]_kbVars PROVE KbInv'
    OBVIOUS
  <2>1. CASE \E k \in Keys : Type(k)
    BY <2>1, Type_Keeps
  <2>2. CASE Irq1
    BY <2>2, Irq1_Keeps
  <2>3. ASSUME NEW c \in Calls, Turn(c),
               \/ Update(c) \/ Decode(c) \/ Apply(c) \/ Begin(c) \/ Acquire(c)
               \/ Answer(c) \/ Fail(c) \/ SetFlags(c)
        PROVE  KbInv'
    BY <2>3, Update_Keeps, Decode_Keeps, Apply_Keeps, Begin_Keeps, Acquire_Keeps, Answer_Keeps,
       Fail_Keeps, SetFlags_Keeps
  <2>4. CASE UNCHANGED kbVars
    <3>1. OnTheWay' /\ VirtualKnown'
      BY <2>4, WaySame, VirtualSame DEF kbVars, KbInv
    <3>2. KbTypes' /\ OneRuns' /\ MutexHeld' /\ InLine' /\ LedsTold' /\ FlagsTold'
      BY <2>4 DEF kbVars, KbInv, KbTypes, OneRuns, MutexHeld, InLine, LedsTold, LedsKnown, Newest,
                   Others, FlagsTold
    <3>q. QED
      BY <3>1, <3>2 DEF KbInv
  <2>q. QED
    BY <2>1, <2>2, <2>3, <2>4 DEF KbNext
<1>3. KbInv => LocksAgree
  <2> SUFFICES ASSUME KbInv, queue = <<>>, port = <<>>, ~lost,
                      \A c \in Calls : pc[c] \in {"runs", "loop"}
               PROVE  /\ locks = toggles /\ flags = toggles /\ (overtaken \/ leds = toggles)
                      /\ (keys[Any] # "up") = (held \cap {Left, Right} # {})
    BY DEF LocksAgree
  <2>1. PICK l \in SUBSET LockKeys :
          Known(l) /\ Leads(queue \o port, <<Pressed, l>>, <<held, toggles>>)
    BY DEF KbInv, OnTheWay
  <2>2. l = locks /\ (overtaken \/ leds = locks) /\ flags = locks
    BY <2>1 DEF KbInv, Known, LedsTold, LedsKnown, FlagsTold, Busy
  <2>3. Pressed = held /\ l = toggles
    <3>1. queue \o port = <<>>
      OBVIOUS
    <3>2. <<Pressed, l>> \in States /\ <<held, toggles>> \in States
      BY DEF KbInv, KbTypes, States, Pressed
    <3>3. <<Pressed, l>> = <<held, toggles>>
      BY <2>1, <3>1, <3>2, EmptyLeads, Zenon
    <3>q. QED
      BY <3>3
  <2>4. (keys[Any] # "up") <=> (keys[Left] # "up" \/ keys[Right] # "up")
    BY DEF KbInv, VirtualKnown
  <2>5. (keys[Left] # "up" \/ keys[Right] # "up") <=> Pressed \cap {Left, Right} # {}
    BY DEF Pressed, Keys
  <2>q. QED
    BY <2>2, <2>3, <2>4, <2>5
<1>q. QED
  BY <1>1, <1>2, <1>3, PTL DEF KbSpec

-----------------------------------------------------------------------------
(* Rs232: the inductive invariant                                          *)

\* No character is put back that the queue no longer holds, and no handler finds the FIFO overrun
\* later than at its start, or comes between test and removal of a mark.
RsCalm ==
    RsOps = {} /\ Fifo \in Nat \ {0} /\ RsPutback \in Nat /\ RsKinds \subseteq {"good", "framing", "break"}

RsErrors == {"overflow", "break", "framing"}
RsChar == [id : Nat, kind : {"good", "framing", "break", "xoff", "xon"}]
RsMark == [pos : Nat, st : SUBSET RsErrors]

RsTypes ==
    /\ rsNextId \in Nat /\ rsNextId > 0 /\ fifo \in Seq(RsChar) /\ overrun \in BOOLEAN
    /\ rsBuf \in Seq(RsChar) /\ rsMarks \in Seq(RsMark)
    /\ rsGptr \in Int /\ rsEgptr \in Int /\ rsNewEnd \in Int /\ rsTop \in Nat /\ rsTop > 0
    /\ rsBegin \in Int /\ rsEback \in Int /\ eofOnBreak \in BOOLEAN
    /\ rsReader \in {"runs", "looks", "pops", "drops", "waits"}
    /\ rsHandler \in [at : {"off", "get", "put"}, n : Nat, min : Int, over : BOOLEAN]
    /\ rsHigh \in Nat /\ rsWarned \subseteq RsErrors

\* The handler took over what it found when it began: the overrun is at the end of the FIFO.
RsHandlerKnows ==
    /\ Len(fifo) <= Fifo
    /\ overrun => Len(fifo) = Fifo /\ rsHandler.at = "off"
    /\ rsHandler.over => /\ rsHandler.at # "off" /\ rsHandler.min = Fifo
                         /\ rsHandler.n + Len(fifo) = Fifo
    /\ rsHandler.at = "get" => fifo # <<>>
    /\ rsHandler.at = "put" /\ rsHandler.over => fifo = <<>>
    /\ rsReader = "drops" => rsHandler.at = "off"

\* The get area ends before the first mark, and marks are in order, behind what was read.
RsPlaces ==
    /\ rsGptr <= rsTop /\ rsTop <= RsEnd /\ rsGptr <= rsEgptr /\ rsEgptr <= RsEnd
    /\ rsReader # "runs" => rsGptr = rsEgptr
    /\ rsReader = "looks" => rsEgptr <= rsNewEnd /\ rsNewEnd <= RsEnd
    /\ rsReader \in {"pops", "drops"} => rsMarks # <<>> /\ rsMarks[1].pos = rsGptr
    /\ rsReader = "drops" => rsMarks[1].st = {}

RsMarksInOrder ==
    /\ \A i \in DOMAIN rsMarks : rsEgptr <= rsMarks[i].pos /\ rsTop <= rsMarks[i].pos /\ rsMarks[i].pos <= RsEnd
    /\ \A i, j \in DOMAIN rsMarks : i < j => rsMarks[i].pos < rsMarks[j].pos
    /\ \A i \in DOMAIN rsMarks : rsMarks[i].st # {} \/ (i = 1 /\ rsReader \in {"pops", "drops"})

\* The get area begins where the queue does, or where the ring wraps.
RsRun == rsBegin <= rsGptr /\ rsEback <= rsGptr /\ (rsEback <= rsBegin \/ (rsEback - 1) % Slots = 0)

\* A break that is told by no end of the file is a character.
RsBreaks ==
    eofOnBreak \/ \A i \in DOMAIN rsMarks : "break" \in rsMarks[i].st =>
                      rsMarks[i].pos \in DOMAIN rsBuf /\ rsBuf[rsMarks[i].pos].kind = "break"

\* The character before position p
LastId(p) == IF p = 1 THEN 0 ELSE rsBuf[p - 1].id

\* The reader gets one of these errors before it reads on from position p.
MarkAt(ms, p, errors) == \E i \in DOMAIN ms : ms[i].pos = p /\ ms[i].st \cap errors # {}
Told(p, errors) == MarkAt(rsMarks, p, errors) \/ (p = rsTop /\ rsWarned \cap errors # {})

RsStored ==
    /\ \A p \in DOMAIN rsBuf : LastId(p) < rsBuf[p].id
    /\ rsHigh = LastId(rsTop)
    /\ \A p \in DOMAIN rsBuf : p >= rsTop =>
          /\ rsBuf[p].id # LastId(p) + 1 => Told(p, {"overflow"})
          /\ rsBuf[p].kind = "framing" => Told(p, {"framing", "break"})

\* What is a character, and has a number
CharKinds == {k \in {"good", "framing", "break"} : IsChar(k)}

\* e[i] is the number of the next character from the i-th in the FIFO on.
Numbers(e, ks, q, first, last) ==
    /\ e \in [1 .. Len(q) + 1 -> Nat] /\ e[1] = first /\ e[Len(q) + 1] = last
    /\ \A i \in DOMAIN q :
          IF q[i].kind \in ks THEN q[i].id = e[i] /\ e[i + 1] = e[i] + 1
          ELSE q[i].id = 0 /\ e[i + 1] = e[i]
RsLeads(ks, q, first, last) == \E e \in [1 .. Len(q) + 1 -> Nat] : Numbers(e, ks, q, first, last)

\* What is missing between the queue and the FIFO is marked; behind the FIFO it is an overrun.
RsOnTheWay ==
    \E first \in Nat, last \in Nat :
        /\ RsLeads(CharKinds, fifo, first, last)
        /\ LastId(RsEnd) < first
        /\ first # LastId(RsEnd) + 1 => Told(RsEnd, {"overflow"})
        /\ last <= rsNextId
        /\ last # rsNextId => overrun \/ rsHandler.over

RsInv ==
    /\ RsTypes /\ RsHandlerKnows /\ RsPlaces /\ RsMarksInOrder /\ RsRun /\ RsBreaks
    /\ RsStored /\ RsOnTheWay

-----------------------------------------------------------------------------
\* An empty FIFO is followed by the character it would begin with.
LEMMA LeadsEmpty == ASSUME NEW ks PROVE
    /\ \A n \in Nat : RsLeads(ks, <<>>, n, n)
    /\ \A n, m \in Nat : RsLeads(ks, <<>>, n, m) => n = m
<1>1. ASSUME NEW n \in Nat PROVE RsLeads(ks, <<>>, n, n)
  <2> DEFINE e == [i \in 1 .. 1 |-> n]
  <2>1. Numbers(e, ks, <<>>, n, n) /\ e \in [1 .. Len(<<>>) + 1 -> Nat]
    BY DEF Numbers
  <2>2. QED BY <2>1 DEF RsLeads
<1>2. \A n, m \in Nat : RsLeads(ks, <<>>, n, m) => n = m
  BY DEF RsLeads, Numbers
<1>3. QED BY <1>1, <1>2

\* A character at the end of the FIFO has the number that was next.
LEMMA LeadsAppend ==
  ASSUME NEW ks, NEW q \in Seq(RsChar), NEW c \in RsChar, NEW first \in Nat, NEW last \in Nat,
         RsLeads(ks, q, first, last)
  PROVE  /\ c.kind \in ks /\ c.id = last => RsLeads(ks, Append(q, c), first, last + 1)
         /\ c.kind \notin ks /\ c.id = 0 => RsLeads(ks, Append(q, c), first, last)
<1> DEFINE n == Len(q)
           r == Append(q, c)
<1>1. PICK e \in [1 .. n + 1 -> Nat] : Numbers(e, ks, q, first, last)
  BY DEF RsLeads
<1>2. n \in Nat /\ Len(r) = n + 1 /\ DOMAIN r = 1 .. n + 1 /\ DOMAIN q = 1 .. n /\ r[n + 1] = c
      /\ \A i \in 1 .. n : r[i] = q[i]
  BY AppendProperties, LenProperties
<1>3. ASSUME NEW d \in Nat,
             IF c.kind \in ks THEN c.id = last /\ d = last + 1 ELSE c.id = 0 /\ d = last
      PROVE  RsLeads(ks, r, first, d)
  <2> DEFINE f == [i \in 1 .. n + 2 |-> IF i = n + 2 THEN d ELSE e[i]]
  <2>0. Len(r) + 1 = n + 2
    BY <1>2
  <2>1. f \in [1 .. Len(r) + 1 -> Nat]
    BY <1>2, <2>0
  <2>2. f[1] = first /\ f[Len(r) + 1] = d /\ f[n + 1] = last
    BY <1>1, <1>2, <2>0 DEF Numbers
  <2>3. ASSUME NEW i \in DOMAIN r
        PROVE  IF r[i].kind \in ks THEN r[i].id = f[i] /\ f[i + 1] = f[i] + 1
               ELSE r[i].id = 0 /\ f[i + 1] = f[i]
    <3>1. CASE i = n + 1
      <4>1. r[i] = c /\ f[i] = last /\ f[i + 1] = d
        BY <3>1, <1>2, <2>0, <2>2
      <4>2. QED BY <4>1, <1>3
    <3>2. CASE i # n + 1
      <4>1. i \in 1 .. n
        BY <3>2, <1>2
      <4>2. f[i] = e[i] /\ f[i + 1] = e[i + 1] /\ r[i] = q[i] /\ i \in DOMAIN q
        BY <4>1, <1>2
      <4> HIDE DEF f
      <4>3. QED BY <4>2, <1>1 DEF Numbers
    <3>3. QED BY <3>1, <3>2
  <2> HIDE DEF f
  <2>4. Numbers(f, ks, r, first, d)
    BY <2>1, <2>2, <2>3 DEF Numbers
  <2>5. QED BY <2>1, <2>4 DEF RsLeads
<1>4. QED BY <1>3

\* The first character of the FIFO has the number expected, and the next one follows it.
LEMMA LeadsTail ==
  ASSUME NEW ks, NEW q \in Seq(RsChar), q # <<>>, NEW first \in Nat, NEW last \in Nat, RsLeads(ks, q, first, last)
  PROVE  /\ Head(q).kind \in ks =>
              Head(q).id = first /\ RsLeads(ks, Tail(q), first + 1, last)
         /\ Head(q).kind \notin ks => RsLeads(ks, Tail(q), first, last)
<1> DEFINE n == Len(q)
           r == Tail(q)
           f == IF Head(q).kind \in ks THEN first + 1 ELSE first
<1>1. PICK e \in [1 .. n + 1 -> Nat] : Numbers(e, ks, q, first, last)
  BY DEF RsLeads
<1>2. n \in Nat \ {0} /\ Len(r) = n - 1 /\ DOMAIN r = 1 .. n - 1 /\ DOMAIN q = 1 .. n /\ q[1] = Head(q)
      /\ \A i \in 1 .. n - 1 : r[i] = q[i + 1]
  BY HeadTailProperties, LenProperties, EmptySeq
<1>3. e[1] = first /\ e[2] = f /\ (Head(q).kind \in ks => Head(q).id = first)
  BY <1>1, <1>2 DEF Numbers
<1>4. RsLeads(ks, r, f, last)
  <2> DEFINE g == [i \in 1 .. n |-> e[i + 1]]
  <2>1. g \in [1 .. Len(r) + 1 -> Nat]
    BY <1>2
  <2>2. g[1] = f /\ g[Len(r) + 1] = last
    BY <1>1, <1>2, <1>3 DEF Numbers
  <2>3. ASSUME NEW i \in DOMAIN r
        PROVE  IF r[i].kind \in ks THEN r[i].id = g[i] /\ g[i + 1] = g[i] + 1
               ELSE r[i].id = 0 /\ g[i + 1] = g[i]
    <3>1. i + 1 \in DOMAIN q /\ r[i] = q[i + 1] /\ g[i] = e[i + 1] /\ g[i + 1] = e[i + 1 + 1]
      BY <1>2
    <3> HIDE DEF g
    <3>2. QED BY <3>1, <1>1 DEF Numbers
  <2> HIDE DEF g
  <2>4. Numbers(g, ks, r, f, last)
    BY <2>1, <2>2, <2>3 DEF Numbers
  <2>5. QED BY <2>1, <2>4 DEF RsLeads
<1>5. QED BY <1>3, <1>4

\* m is ms with the errors s marked at p, behind all others.
Grown(ms, m, p, s) ==
    /\ m \in Seq(RsMark) /\ Len(ms) <= Len(m) /\ Len(m) > 0
    /\ \A i \in DOMAIN ms : m[i].pos = ms[i].pos /\ ms[i].st \subseteq m[i].st
    /\ \A i \in DOMAIN m : i \in DOMAIN ms \/ (i = Len(ms) + 1 /\ (ms # <<>> => ms[Len(ms)].pos # p))
    /\ m[Len(m)].pos = p /\ s \subseteq m[Len(m)].st
    /\ \A i \in DOMAIN m : \A e \in m[i].st : (i \in DOMAIN ms /\ e \in ms[i].st) \/ (e \in s /\ m[i].pos = p)

\* add_error_mark() adds the errors to the last mark, or a mark behind it.
LEMMA MarkGrows ==
  ASSUME NEW ms \in Seq(RsMark), NEW p \in Nat, NEW s \in SUBSET RsErrors
  PROVE  Grown(ms, Mark(ms, p, s), p, s)
<1> DEFINE n == Len(ms)
<1>0. n \in Nat /\ DOMAIN ms = 1 .. n /\ (ms # <<>> => n > 0) /\ \A i \in 1 .. n : ms[i] \in RsMark
  BY LenProperties, ElementOfSeq, EmptySeq
<1>1. CASE ms # <<>> /\ ms[n].pos = p
  <2> DEFINE x == [ms[n] EXCEPT !.st = @ \cup s]
             m == [ms EXCEPT ![n] = x]
  <2>1. x \in RsMark /\ x.pos = p /\ x.st = ms[n].st \cup s
    BY <1>0, <1>1 DEF RsMark
  <2>2. Mark(ms, p, s) = m
    BY <1>1 DEF Mark
  <2> HIDE DEF x
  <2>3. m \in Seq(RsMark) /\ Len(m) = n /\ \A j \in 1 .. n : m[j] = IF j = n THEN x ELSE ms[j]
    BY <2>1, <1>0, <1>1, ExceptSeq
  <2>4. DOMAIN m = 1 .. n
    BY <2>3, LenProperties
  <2> HIDE DEF m
  <2>5. \A i \in 1 .. n : m[i].pos = ms[i].pos /\ ms[i].st \subseteq m[i].st
    BY <2>1, <2>3, <1>1
  <2>6. m[n].pos = p /\ s \subseteq m[n].st
    BY <2>1, <2>3, <1>0, <1>1
  <2>7. n > 0 /\ DOMAIN m = DOMAIN ms /\ Len(m) = Len(ms)
    BY <2>3, <2>4, <1>0, <1>1
  <2>8. n <= Len(m) /\ Len(m) > 0
    BY <2>7, <1>0
  <2>9. Grown(ms, m, p, s)
    <3>1. \A i \in DOMAIN m : \A err \in m[i].st : (i \in DOMAIN ms /\ err \in ms[i].st) \/ (err \in s /\ m[i].pos = p)
      BY <2>1, <2>3, <2>4, <2>7
    <3>2. QED BY <2>3, <2>5, <2>6, <2>7, <2>8, <3>1, <1>0, Zenon DEF Grown
  <2>10. QED BY <2>2, <2>9
<1>2. CASE ~(ms # <<>> /\ ms[n].pos = p)
  <2> DEFINE x == [pos |-> p, st |-> s]
             m == Append(ms, x)
  <2>1. x \in RsMark /\ x.pos = p /\ x.st = s
    BY DEF RsMark
  <2>2. Mark(ms, p, s) = m
    BY <1>2 DEF Mark
  <2> HIDE DEF x
  <2>3. m \in Seq(RsMark) /\ Len(m) = n + 1 /\ m[n + 1] = x /\ \A j \in 1 .. n : m[j] = ms[j]
    BY <2>1, AppendProperties
  <2>4. DOMAIN m = 1 .. n + 1
    BY <2>3, LenProperties, <1>0
  <2> HIDE DEF m
  <2>5. QED BY <2>1, <2>2, <2>3, <2>4, <1>0, <1>2 DEF Grown
<1>3. QED BY <1>1, <1>2

\* A mark at the end of the queue takes nothing from what the reader gets.
LEMMA MarkAdded ==
  ASSUME RsInv, NEW s \in SUBSET RsErrors, s # {}, Grown(rsMarks, rsMarks', RsEnd, s), rsReader # "drops",
         RsEnd' \in Nat, RsEnd <= RsEnd',
         UNCHANGED <<rsGptr, rsEgptr, rsNewEnd, rsReader, rsTop, rsWarned>>
  PROVE  /\ rsMarks' \in Seq(RsMark) /\ RsPlaces' /\ RsMarksInOrder'
         /\ \A q, errors : Told(q, errors) => Told(q, errors)'
         /\ \A errors : s \cap errors # {} => MarkAt(rsMarks', RsEnd, errors)
<1> DEFINE ms == rsMarks
           m == rsMarks'
           n == Len(ms)
           k == Len(m)
<1>0. n \in Nat /\ DOMAIN ms = 1 .. n /\ (ms # <<>> <=> n > 0) /\ RsEnd \in Nat
      /\ \A i \in 1 .. n : ms[i] \in RsMark
  BY LenProperties, ElementOfSeq, EmptySeq DEF RsInv, RsTypes, RsEnd
<1>1. m \in Seq(RsMark) /\ DOMAIN m = 1 .. k /\ k \in Nat /\ k > 0 /\ n <= k /\ k <= n + 1
  <2>1. m \in Seq(RsMark) /\ n <= k /\ k > 0
    BY DEF Grown
  <2>2. DOMAIN m = 1 .. k /\ k \in Nat
    BY <2>1, LenProperties
  <2>3. k \in 1 .. n \/ k = n + 1
    <3>1. k \in DOMAIN m
      BY <2>1, <2>2
    <3>2. \A i \in DOMAIN m : i \in DOMAIN ms \/ i = n + 1
      BY DEF Grown
    <3>3. QED BY <3>1, <3>2, <1>0
  <2> HIDE DEF n, k
  <2>4. k <= n + 1
    BY <2>2, <2>3, <1>0
  <2>5. QED BY <2>1, <2>2, <2>4
<1>2. \A i \in 1 .. n : m[i].pos = ms[i].pos /\ ms[i].st \subseteq m[i].st
  BY <1>0 DEF Grown
<1>3. m[k].pos = RsEnd /\ s \subseteq m[k].st
  BY DEF Grown
<1>4. k = n + 1 => (ms # <<>> => ms[n].pos # RsEnd)
  BY <1>0, <1>1 DEF Grown
<1>5. \A i \in 1 .. n : rsEgptr <= ms[i].pos /\ rsTop <= ms[i].pos /\ ms[i].pos <= RsEnd
  BY <1>0 DEF RsInv, RsMarksInOrder
<1>6. \A i \in 1 .. n : ms[i].pos \in Nat
  BY <1>0 DEF RsMark
<1> HIDE DEF n, k
<1>7. RsPlaces'
  <2>1. rsReader \in {"pops", "drops"} => m # <<>> /\ m[1].pos = rsGptr
    <3>1. ASSUME rsReader \in {"pops", "drops"} PROVE n > 0 /\ ms[1].pos = rsGptr
      BY <3>1, <1>0 DEF RsInv, RsPlaces
    <3>2. m # <<>>
      BY <1>1
    <3>3. QED BY <3>1, <3>2, <1>0, <1>2
  <2>2. rsTop <= RsEnd' /\ rsEgptr <= RsEnd' /\ (rsReader = "looks" => rsNewEnd <= RsEnd')
    BY <1>0 DEF RsInv, RsPlaces, RsTypes
  <2>3. QED BY <2>1, <2>2 DEF RsInv, RsPlaces
<1>8. RsMarksInOrder'
  <2>1. \A i \in 1 .. k : rsEgptr <= m[i].pos /\ rsTop <= m[i].pos /\ m[i].pos <= RsEnd'
    <3>1. rsEgptr <= RsEnd /\ rsTop <= RsEnd
      BY DEF RsInv, RsPlaces
    <3>2. rsEgptr \in Int /\ rsTop \in Int
      BY DEF RsInv, RsTypes
    <3> SUFFICES ASSUME NEW i \in 1 .. k
                 PROVE  rsEgptr <= m[i].pos /\ rsTop <= m[i].pos /\ m[i].pos <= RsEnd'
      OBVIOUS
    <3>3. CASE i \in 1 .. n
      <4>1. rsEgptr <= ms[i].pos /\ rsTop <= ms[i].pos /\ ms[i].pos <= RsEnd /\ ms[i].pos \in Nat /\ m[i].pos = ms[i].pos
        BY <3>3, <1>2, <1>5, <1>6
      <4>2. QED BY <4>1, <3>2, <1>0
    <3>4. CASE i \notin 1 .. n
      <4>1. i = k
        BY <3>4, <1>0, <1>1
      <4>2. QED BY <4>1, <3>1, <3>2, <1>0, <1>3
    <3>5. QED BY <3>3, <3>4
  <2>2. \A i, j \in 1 .. n : i < j => m[i].pos < m[j].pos
    BY <1>0, <1>2 DEF RsInv, RsMarksInOrder
  <2>3. k = n + 1 => \A i \in 1 .. n : m[i].pos < RsEnd
    <3> SUFFICES ASSUME k = n + 1, NEW i \in 1 .. n PROVE ms[i].pos < RsEnd
      BY <1>2
    <3>1. n \in 1 .. n /\ ms[n].pos # RsEnd /\ ms[n].pos <= RsEnd /\ ms[n].pos \in Nat /\ ms[i].pos \in Nat
      BY <1>0, <1>4, <1>5, <1>6
    <3>2. i < n => ms[i].pos < ms[n].pos
      BY <3>1, <1>0 DEF RsInv, RsMarksInOrder
    <3>3. QED BY <3>1, <3>2, <1>0
  <2>4. \A i, j \in 1 .. k : i < j => m[i].pos < m[j].pos
    <3> SUFFICES ASSUME NEW i \in 1 .. k, NEW j \in 1 .. k, i < j PROVE m[i].pos < m[j].pos
      OBVIOUS
    <3>1. i \in 1 .. n
      BY <1>0, <1>1
    <3>2. CASE j \in 1 .. n
      BY <3>1, <3>2, <2>2
    <3>3. CASE j \notin 1 .. n
      <4>1. j = k /\ k = n + 1
        BY <3>3, <1>0, <1>1
      <4>2. QED BY <4>1, <3>1, <2>3, <1>3
    <3>4. QED BY <3>2, <3>3
  <2>5. \A i \in 1 .. k : m[i].st # {} \/ (i = 1 /\ rsReader \in {"pops", "drops"})
    <3> SUFFICES ASSUME NEW i \in 1 .. k, m[i].st = {} PROVE i = 1 /\ rsReader \in {"pops", "drops"}
      OBVIOUS
    <3>1. i # k
      BY <1>3
    <3>2. i \in 1 .. n
      BY <3>1, <1>0, <1>1
    <3>3. ms[i].st = {}
      BY <3>2, <1>2
    <3>4. QED BY <3>2, <3>3, <1>0 DEF RsInv, RsMarksInOrder
  <2>6. QED BY <2>1, <2>4, <2>5, <1>1 DEF RsMarksInOrder
<1>9. ASSUME NEW q, NEW errors, Told(q, errors) PROVE Told(q, errors)'
  <2>1. MarkAt(ms, q, errors) => MarkAt(m, q, errors)
    <3> SUFFICES ASSUME NEW i \in 1 .. n, ms[i].pos = q, ms[i].st \cap errors # {}
                 PROVE  m[i].pos = q /\ m[i].st \cap errors # {} /\ i \in DOMAIN m
      BY <1>0 DEF MarkAt
    <3>1. QED BY <1>0, <1>1, <1>2
  <2>2. QED BY <1>9, <2>1 DEF Told
<1>10. ASSUME NEW errors, s \cap errors # {} PROVE MarkAt(m, RsEnd, errors)
  <2>1. k \in DOMAIN m /\ m[k].st \cap errors # {}
    BY <1>1, <1>3, <1>10
  <2>2. QED BY <2>1, <1>3 DEF MarkAt
<1>11. QED BY <1>1, <1>7, <1>8, <1>9, <1>10

\* A mark at the end of the queue with a break in it sits on that break.
LEMMA BreaksMarked ==
  ASSUME RsInv, NEW s \in SUBSET RsErrors, Grown(rsMarks, rsMarks', RsEnd, s), UNCHANGED eofOnBreak,
         \A p \in DOMAIN rsBuf : p \in DOMAIN rsBuf' /\ rsBuf'[p] = rsBuf[p],
         "break" \in s => eofOnBreak \/ (RsEnd \in DOMAIN rsBuf' /\ rsBuf'[RsEnd].kind = "break")
  PROVE  RsBreaks'
<1> SUFFICES ASSUME ~eofOnBreak, NEW i \in DOMAIN rsMarks', "break" \in rsMarks'[i].st
             PROVE  rsMarks'[i].pos \in DOMAIN rsBuf' /\ rsBuf'[rsMarks'[i].pos].kind = "break"
  BY DEF RsBreaks
<1>1. (i \in DOMAIN rsMarks /\ "break" \in rsMarks[i].st) \/ ("break" \in s /\ rsMarks'[i].pos = RsEnd)
  BY DEF Grown
<1>2. CASE i \in DOMAIN rsMarks /\ "break" \in rsMarks[i].st
  <2>1. rsMarks'[i].pos = rsMarks[i].pos
    BY <1>2 DEF Grown
  <2>2. rsMarks[i].pos \in DOMAIN rsBuf /\ rsBuf[rsMarks[i].pos].kind = "break"
    BY <1>2 DEF RsInv, RsBreaks
  <2>3. QED BY <2>1, <2>2
<1>3. QED BY <1>1, <1>2

\* The peer, the UART and the handlers' heads leave the queue alone.
LEMMA QueueAlone ==
  ASSUME RsInv, UNCHANGED <<eofOnBreak, rsBuf, rsBegin, rsEback, rsGptr, rsEgptr, rsNewEnd, rsMarks, rsReader, rsTop, rsHigh, rsWarned>>
  PROVE  RsPlaces' /\ RsMarksInOrder' /\ RsRun' /\ RsBreaks' /\ RsStored'
<1>1. RsPlaces'
  BY DEF RsInv, RsPlaces, RsEnd
<1>2. RsMarksInOrder'
  BY DEF RsInv, RsMarksInOrder, RsEnd
<1>3. RsStored'
  BY DEF RsInv, RsStored, LastId, Told, MarkAt
<1>4. RsRun' /\ RsBreaks'
  BY DEF RsInv, RsRun, RsBreaks
<1>5. QED BY <1>1, <1>2, <1>3, <1>4

\* A character goes to the FIFO, or overruns it.
LEMMA Arrives ==
  ASSUME RsCalm, RsInv, NEW c \in RsChar, Arrive(c),
         \/ c.kind \in CharKinds /\ c.id = rsNextId /\ rsNextId' = rsNextId + 1
         \/ c.kind \notin CharKinds /\ c.id = 0 /\ rsNextId' = rsNextId,
         UNCHANGED <<eofOnBreak, rsBuf, rsMarks, rsHandler, rsArea, rsGhosts>>
  PROVE  RsInv'
<1> DEFINE k == Len(fifo)
<1>0. k \in Nat /\ k <= Fifo /\ Fifo \in Nat \ {0} /\ fifo \in Seq(RsChar) /\ rsNextId \in Nat
  BY LenProperties DEF RsInv, RsTypes, RsHandlerKnows, RsCalm
<1>1. ~rsHandler.over /\ (rsHandler.at # "off" => k # Fifo)
  BY DEF Arrive, RsCalm, RsInv, RsHandlerKnows
<1>2. UNCHANGED <<eofOnBreak, rsBuf, rsBegin, rsEback, rsGptr, rsEgptr, rsNewEnd, rsMarks, rsReader, rsTop, rsHigh, rsWarned, rsHandler>>
  BY DEF rsArea, rsGhosts
<1>q. CharKinds' = CharKinds
  BY <1>2 DEF CharKinds, IsChar
<1>3. RsPlaces' /\ RsMarksInOrder' /\ RsRun' /\ RsBreaks' /\ RsStored'
  BY <1>2, QueueAlone
<1>4. CASE k < Fifo
  <2>1. fifo' = Append(fifo, c) /\ overrun' = overrun /\ ~overrun
    BY <1>0, <1>4 DEF Arrive, RsInv, RsHandlerKnows
  <2>2. fifo' \in Seq(RsChar) /\ fifo' # <<>> /\ Len(fifo') = k + 1
    BY <1>0, <2>1, AppendProperties
  <2>3. RsTypes'
    BY <1>0, <1>2, <2>1, <2>2 DEF RsInv, RsTypes
  <2>4. RsHandlerKnows'
    BY <1>0, <1>1, <1>2, <1>4, <2>1, <2>2 DEF RsInv, RsHandlerKnows
  <2>5. PICK first \in Nat, last \in Nat :
          /\ RsLeads(CharKinds, fifo, first, last) /\ LastId(RsEnd) < first
          /\ first # LastId(RsEnd) + 1 => Told(RsEnd, {"overflow"})
          /\ last = rsNextId
    BY <1>1, <2>1 DEF RsInv, RsOnTheWay
  <2>6. RsLeads(CharKinds, fifo', first, rsNextId')
    BY <1>0, <2>1, <2>5, LeadsAppend
  <2>7. LastId(RsEnd)' = LastId(RsEnd) /\ Told(RsEnd, {"overflow"})' = Told(RsEnd, {"overflow"})
    BY <1>2 DEF LastId, RsEnd, Told, MarkAt
  <2>8. RsOnTheWay'
    <3>1. rsNextId' \in Nat
      BY <1>0
    <3>2. QED BY <2>5, <2>6, <2>7, <3>1, <1>q DEF RsOnTheWay
  <2>9. QED BY <1>3, <2>3, <2>4, <2>8 DEF RsInv
<1>5. CASE k = Fifo
  <2>1. fifo' = fifo /\ overrun' = TRUE /\ rsHandler.at = "off"
    BY <1>0, <1>1, <1>5 DEF Arrive
  <2>2. RsTypes'
    BY <1>0, <1>2, <2>1 DEF RsInv, RsTypes
  <2>3. RsHandlerKnows'
    BY <1>0, <1>1, <1>2, <1>5, <2>1 DEF RsInv, RsHandlerKnows
  <2>4. PICK first \in Nat, last \in Nat :
          /\ RsLeads(CharKinds, fifo, first, last) /\ LastId(RsEnd) < first
          /\ first # LastId(RsEnd) + 1 => Told(RsEnd, {"overflow"})
          /\ last <= rsNextId
    BY DEF RsInv, RsOnTheWay
  <2>5. LastId(RsEnd)' = LastId(RsEnd) /\ Told(RsEnd, {"overflow"})' = Told(RsEnd, {"overflow"})
    BY <1>2 DEF LastId, RsEnd, Told, MarkAt
  <2>6. RsOnTheWay'
    <3>1. last <= rsNextId'
      BY <1>0, <2>4
    <3>2. QED BY <2>1, <2>4, <2>5, <3>1, <1>q DEF RsOnTheWay
  <2>7. QED BY <1>3, <2>2, <2>3, <2>6 DEF RsInv
<1>6. QED BY <1>0, <1>4, <1>5

LEMMA RsReceiveKeeps == ASSUME RsCalm, RsInv, NEW k \in RsKinds, RsReceive(k) PROVE RsInv'
<1> DEFINE c == [id |-> IF IsChar(k) THEN rsNextId ELSE 0, kind |-> k]
<1>1. c \in RsChar /\ Arrive(c)
  BY DEF RsReceive, RsChar, RsCalm, RsInv, RsTypes
<1>2. \/ c.kind \in CharKinds /\ c.id = rsNextId /\ rsNextId' = rsNextId + 1
      \/ c.kind \notin CharKinds /\ c.id = 0 /\ rsNextId' = rsNextId
  BY DEF RsReceive, RsCalm, CharKinds
<1>3. UNCHANGED <<eofOnBreak, rsBuf, rsMarks, rsHandler, rsArea, rsGhosts>>
  BY DEF RsReceive, rsConfig
<1> HIDE DEF c
<1>4. QED BY <1>1, <1>2, <1>3, Arrives

\* What the driver and the peer do besides receiving leaves the receiver alone.
LEMMA ReceiverAlone ==
  ASSUME RsInv, UNCHANGED <<rsNextId, fifo, overrun, rsHandler>>,
         UNCHANGED <<eofOnBreak, rsBuf, rsBegin, rsEback, rsGptr, rsEgptr, rsNewEnd, rsMarks, rsReader, rsTop, rsHigh, rsWarned>>
  PROVE  RsInv'
<1>1. RsPlaces' /\ RsMarksInOrder' /\ RsRun' /\ RsBreaks' /\ RsStored'
  BY QueueAlone
<1>2. RsTypes' /\ RsHandlerKnows'
  BY DEF RsInv, RsTypes, RsHandlerKnows
<1>3. LastId(RsEnd)' = LastId(RsEnd) /\ Told(RsEnd, {"overflow"})' = Told(RsEnd, {"overflow"})
  BY DEF LastId, RsEnd, Told, MarkAt
<1>4. RsOnTheWay'
  BY <1>3 DEF CharKinds, IsChar, RsInv, RsOnTheWay
<1>5. QED BY <1>1, <1>2, <1>4 DEF RsInv

LEMMA XonXoffKeep == ASSUME RsCalm, RsInv, Stop \/ GoOn PROVE RsInv'
<1>1. UNCHANGED <<rsNextId, eofOnBreak, rsBuf, rsMarks, rsHandler, rsArea, rsGhosts>>
  BY DEF Stop, GoOn, rsConfig
<1>2. \/ UNCHANGED <<fifo, overrun>>
      \/ Arrive([id |-> 0, kind |-> "xoff"])
      \/ Arrive([id |-> 0, kind |-> "xon"])
  BY DEF Stop, GoOn
<1>3. CASE UNCHANGED <<fifo, overrun>>
  BY <1>1, <1>3, ReceiverAlone DEF rsArea, rsGhosts
<1>4. ASSUME NEW kind \in {"xoff", "xon"}, Arrive([id |-> 0, kind |-> kind]) PROVE RsInv'
  <2> DEFINE c == [id |-> 0, kind |-> kind]
  <2>1. c \in RsChar /\ Arrive(c) /\ c.kind \notin CharKinds /\ c.id = 0
    BY <1>4 DEF RsChar, CharKinds
  <2> HIDE DEF c
  <2>2. QED BY <2>1, <1>1, Arrives
<1>5. QED BY <1>2, <1>3, <1>4

\* do_sync() takes the overrun over when it begins.
LEMMA HandlersBegin ==
  ASSUME RsCalm, RsInv, DataAvailable \/ TransmitterEmpty \/ ModemStatus PROVE RsInv'
<1>1. PICK min \in Int : Enter(min)
  <2>1. 0 \in Int /\ 1 \in Int /\ (Fifo \div 2) \in Int
    BY DEF RsCalm
  <2>2. DataAvailable => Enter(IF 2 * Len(fifo) < Fifo THEN 1 ELSE Fifo \div 2)
    BY DEF DataAvailable
  <2>3. TransmitterEmpty \/ ModemStatus => Enter(0)
    BY DEF TransmitterEmpty, ModemStatus
  <2>4. QED BY <2>1, <2>2, <2>3
<1>2. UNCHANGED <<rsNextId, fifo, eofOnBreak, rsBuf, rsBegin, rsEback, rsGptr, rsEgptr, rsNewEnd, rsMarks, rsReader, rsTop, rsHigh, rsWarned>>
  BY DEF DataAvailable, TransmitterEmpty, ModemStatus, rsConfig, rsArea, rsGhosts
<1>3. /\ rsHandler.at = "off" /\ rsReader # "drops" /\ overrun' = FALSE
      /\ rsHandler'.over = overrun /\ rsHandler'.at \in {"get", "put"}
      /\ rsHandler'.at = "get" => fifo # <<>>
      /\ rsHandler'.at = "put" => fifo = <<>>
      /\ overrun => rsHandler'.min = Fifo /\ rsHandler'.n = 0
      /\ rsHandler' \in [at : {"off", "get", "put"}, n : Nat, min : Int, over : BOOLEAN]
  <2>1. rsHandler' = [at |-> IF fifo = <<>> THEN "put" ELSE "get", n |-> 0,
                      min |-> IF overrun THEN Fifo ELSE min, over |-> overrun]
    BY <1>1 DEF Enter
  <2>2. (IF overrun THEN Fifo ELSE min) \in Int /\ overrun \in BOOLEAN
    BY DEF RsCalm, RsInv, RsTypes
  <2>3. rsHandler' \in [at : {"off", "get", "put"}, n : Nat, min : Int, over : BOOLEAN]
    BY <2>1, <2>2
  <2>4. rsHandler.at = "off" /\ rsReader # "drops" /\ overrun' = FALSE
    <3>1. rsHandler.at = "off"
      BY DEF DataAvailable, TransmitterEmpty, ModemStatus
    <3>2. (rsReader = "drops" => "torn" \in RsOps) /\ overrun' = FALSE
      BY <1>1, <3>1 DEF Enter
    <3>3. QED BY <3>1, <3>2 DEF RsCalm
  <2>5. QED BY <2>1, <2>3, <2>4
<1>4. RsPlaces' /\ RsMarksInOrder' /\ RsRun' /\ RsBreaks' /\ RsStored'
  BY <1>2, QueueAlone
<1>5. RsTypes'
  BY <1>2, <1>3 DEF RsInv, RsTypes
<1>6. RsHandlerKnows'
  <2>1. Len(fifo) \in Nat
    BY LenProperties DEF RsInv, RsTypes
  <2>2. QED BY <2>1, <1>2, <1>3 DEF RsInv, RsHandlerKnows
<1>7. RsOnTheWay'
  <2>1. LastId(RsEnd)' = LastId(RsEnd) /\ Told(RsEnd, {"overflow"})' = Told(RsEnd, {"overflow"})
    BY <1>2 DEF LastId, RsEnd, Told, MarkAt
  <2>2. ~rsHandler.over
    BY <1>3 DEF RsInv, RsHandlerKnows
  <2>3. CharKinds' = CharKinds
    BY <1>2 DEF CharKinds, IsChar
  <2>4. QED BY <2>1, <2>2, <2>3, <1>2, <1>3 DEF RsInv, RsOnTheWay
<1>8. QED BY <1>4, <1>5, <1>6, <1>7 DEF RsInv

\* A character goes to the queue with its errors, or leaves a mark there.
LEMMA GetKeeps == ASSUME RsCalm, RsInv, Get PROVE RsInv'
<1> DEFINE c == Head(fifo)
           k == Len(fifo)
           h == rsHandler
<1>0. /\ fifo \in Seq(RsChar) /\ fifo # <<>> /\ k \in Nat /\ k > 0 /\ k <= Fifo /\ Fifo \in Nat
      /\ h.at = "get" /\ ~overrun /\ rsReader # "drops"
      /\ h \in [at : {"off", "get", "put"}, n : Nat, min : Int, over : BOOLEAN]
  BY LenProperties, EmptySeq DEF RsInv, RsTypes, RsHandlerKnows, RsCalm, Get
<1>1. c \in RsChar /\ Tail(fifo) \in Seq(RsChar) /\ Len(Tail(fifo)) = k - 1
  BY <1>0, HeadTailProperties
<1>2. /\ fifo' = Tail(fifo) /\ overrun' = FALSE /\ rsNextId' = rsNextId
      /\ h' = [h EXCEPT !.n = @ + 1, !.at = IF fifo' = <<>> THEN "put" ELSE "get"]
      /\ UNCHANGED <<eofOnBreak, rsBegin, rsEback, rsGptr, rsEgptr, rsNewEnd, rsReader, rsTop, rsHigh, rsWarned>>
      /\ CharKinds' = CharKinds
  BY DEF Get, rsArea, rsGhosts, rsConfig, CharKinds, IsChar
<1>3. RsEnd \in Nat /\ RsEnd > 0 /\ DOMAIN rsBuf = 1 .. RsEnd - 1 /\ rsBuf \in Seq(RsChar) /\ Len(rsBuf) = RsEnd - 1
  BY LenProperties DEF RsInv, RsTypes, RsEnd
<1>4. RsHandlerKnows'
  <2>1. h'.n = h.n + 1 /\ h'.min = h.min /\ h'.over = h.over /\ h'.at = IF fifo' = <<>> THEN "put" ELSE "get"
    BY <1>0, <1>2
  <2>2. Len(fifo') = k - 1
    BY <1>1, <1>2
  <2>3. h.over => h.min = Fifo /\ h.n + k = Fifo
    BY DEF RsInv, RsHandlerKnows
  <2>4. h'.over => h'.min = Fifo /\ h'.n + Len(fifo') = Fifo
    BY <2>1, <2>2, <2>3, <1>0
  <2>5. QED BY <2>1, <2>2, <2>4, <1>0, <1>2 DEF RsHandlerKnows
<1>5. h' \in [at : {"off", "get", "put"}, n : Nat, min : Int, over : BOOLEAN]
  <2>1. h.n + 1 \in Nat /\ (IF fifo' = <<>> THEN "put" ELSE "get") \in {"off", "get", "put"}
    BY <1>0
  <2>2. QED BY <2>1, <1>0, <1>2
<1>r. RsRun'
  BY <1>2 DEF RsInv, RsRun
<1>6. ASSUME rsBuf' \in Seq(RsChar), rsMarks' \in Seq(RsMark) PROVE RsTypes'
  BY <1>1, <1>2, <1>5, <1>6 DEF RsInv, RsTypes
<1>7. PICK first \in Nat, last \in Nat :
        /\ RsLeads(CharKinds, fifo, first, last) /\ LastId(RsEnd) < first
        /\ first # LastId(RsEnd) + 1 => Told(RsEnd, {"overflow"})
        /\ last <= rsNextId /\ (last # rsNextId => h.over)
  BY <1>0 DEF RsInv, RsOnTheWay
<1>8. /\ c.kind \in CharKinds => c.id = first /\ RsLeads(CharKinds, fifo', first + 1, last)
      /\ c.kind \notin CharKinds => RsLeads(CharKinds, fifo', first, last)
  BY <1>0, <1>2, <1>7, LeadsTail
<1>9. last <= rsNextId' /\ (last # rsNextId' => h'.over)
  BY <1>0, <1>2, <1>7
<1>10. LastId(RsEnd) \in Nat
  <2>1. ASSUME RsEnd # 1 PROVE rsBuf[RsEnd - 1].id \in Nat
    <3>1. rsBuf[RsEnd - 1] \in RsChar
      BY <1>3, <2>1, ElementOfSeq
    <3>2. QED BY <3>1 DEF RsChar
  <2>2. QED BY <2>1 DEF LastId
<1> HIDE DEF c, k, h
<1>11. CASE UNCHANGED <<rsBuf, rsMarks>> /\ c.kind \notin CharKinds
  <2>1. RsPlaces' /\ RsMarksInOrder' /\ RsRun' /\ RsBreaks' /\ RsStored'
    BY <1>2, <1>11, QueueAlone
  <2>2. LastId(RsEnd)' = LastId(RsEnd) /\ Told(RsEnd, {"overflow"})' = Told(RsEnd, {"overflow"})
    BY <1>2, <1>11 DEF LastId, RsEnd, Told, MarkAt
  <2>3. RsOnTheWay'
    BY <1>2, <1>7, <1>8, <1>9, <1>11, <2>2 DEF RsOnTheWay, h
  <2>4. RsTypes'
    BY <1>6, <1>11 DEF RsInv, RsTypes
  <2>5. QED BY <1>4, <2>1, <2>3, <2>4 DEF RsInv
<1>12. ASSUME NEW s \in SUBSET RsErrors, s # {}, UNCHANGED rsBuf, rsMarks' = Mark(rsMarks, RsEnd, s),
              c.kind \in CharKinds => "overflow" \in s,
              "break" \in s => eofOnBreak
       PROVE  RsInv'
  <2>1. Grown(rsMarks, rsMarks', RsEnd, s)
    BY <1>3, <1>12, MarkGrows DEF RsInv, RsTypes
  <2>2. RsEnd' = RsEnd
    BY <1>12 DEF RsEnd
  <2>3. /\ rsMarks' \in Seq(RsMark) /\ RsPlaces' /\ RsMarksInOrder'
        /\ \A q, errors : Told(q, errors) => Told(q, errors)'
        /\ \A errors : s \cap errors # {} => MarkAt(rsMarks', RsEnd, errors)
    BY <1>0, <1>2, <1>3, <1>12, <2>1, <2>2, MarkAdded
  <2>4. RsStored'
    <3>1. \A p : LastId(p)' = LastId(p)
      BY <1>12 DEF LastId
    <3>2. LastId(rsTop)' = LastId(rsTop)
      BY <1>2, <1>12 DEF LastId
    <3>3. QED BY <1>2, <1>12, <2>3, <3>1, <3>2 DEF RsInv, RsStored
  <2>5. LastId(RsEnd)' = LastId(RsEnd)
    BY <2>2, <1>12 DEF LastId
  <2>6. "overflow" \in s => Told(RsEnd, {"overflow"})'
    BY <2>2, <2>3 DEF Told
  <2>7. Told(RsEnd, {"overflow"}) => Told(RsEnd, {"overflow"})'
    BY <2>2, <2>3 DEF Told
  <2>8. RsOnTheWay'
    <3>1. CASE c.kind \in CharKinds
      <4>1. first + 1 \in Nat /\ LastId(RsEnd) < first + 1
        BY <1>7, <1>10
      <4>2. QED BY <4>1, <3>1, <1>2, <1>8, <1>9, <1>12, <2>5, <2>6 DEF RsOnTheWay, h
    <3>2. CASE c.kind \notin CharKinds
      BY <3>2, <1>2, <1>7, <1>8, <1>9, <2>5, <2>7 DEF RsOnTheWay, h
    <3>3. QED BY <3>1, <3>2
  <2>9. RsTypes'
    BY <1>6, <1>12, <2>3 DEF RsInv, RsTypes
  <2>10. RsBreaks'
    BY <1>2, <1>12, <2>1, BreaksMarked
  <2>11. QED BY <1>4, <1>r, <2>3, <2>4, <2>8, <2>9, <2>10 DEF RsInv
<1>13. ASSUME c.kind \in CharKinds, rsBuf' = Append(rsBuf, c),
              \/ UNCHANGED rsMarks /\ c.kind = "good"
              \/ rsMarks' = Mark(rsMarks, RsEnd, {c.kind}) /\ c.kind \in {"framing", "break"}
       PROVE  RsInv'
  <2>1. /\ rsBuf' \in Seq(RsChar) /\ Len(rsBuf') = RsEnd /\ RsEnd' = RsEnd + 1 /\ rsBuf'[RsEnd] = c
        /\ DOMAIN rsBuf' = 1 .. RsEnd /\ \A p \in 1 .. RsEnd - 1 : rsBuf'[p] = rsBuf[p]
    <3>1. /\ rsBuf' \in Seq(RsChar) /\ Len(rsBuf') = Len(rsBuf) + 1 /\ rsBuf'[Len(rsBuf) + 1] = c
          /\ \A p \in 1 .. Len(rsBuf) : rsBuf'[p] = rsBuf[p]
      BY <1>1, <1>3, <1>13, AppendProperties DEF c
    <3>2. DOMAIN rsBuf' = 1 .. Len(rsBuf')
      BY <3>1, LenProperties
    <3>3. QED BY <3>1, <3>2, <1>3 DEF RsEnd
  <2>2. /\ rsMarks' \in Seq(RsMark) /\ RsPlaces' /\ RsMarksInOrder'
        /\ \A q, errors : Told(q, errors) => Told(q, errors)'
        /\ c.kind = "framing" => MarkAt(rsMarks', RsEnd, {"framing", "break"})
        /\ RsBreaks'
    <3>1. CASE UNCHANGED rsMarks /\ c.kind = "good"
      <4>1. RsPlaces'
        <5>1. rsTop <= RsEnd' /\ rsEgptr <= RsEnd' /\ (rsReader = "looks" => rsNewEnd <= RsEnd')
          BY <1>3, <2>1 DEF RsInv, RsPlaces, RsTypes
        <5>2. QED BY <1>2, <3>1, <5>1 DEF RsInv, RsPlaces
      <4>2. RsMarksInOrder'
        <5>1. \A i \in DOMAIN rsMarks : rsMarks[i].pos \in Nat
          <6>1. rsMarks \in Seq(RsMark) /\ DOMAIN rsMarks = 1 .. Len(rsMarks)
            BY LenProperties DEF RsInv, RsTypes
          <6>2. \A i \in DOMAIN rsMarks : rsMarks[i] \in RsMark
            BY <6>1, ElementOfSeq
          <6>3. QED BY <6>2 DEF RsMark
        <5>2. QED BY <1>2, <1>3, <2>1, <3>1, <5>1 DEF RsInv, RsMarksInOrder
      <4>3. \A q, errors : Told(q, errors) => Told(q, errors)'
        BY <1>2, <3>1 DEF Told
      <4>4. RsBreaks'
        BY <1>2, <1>3, <2>1, <3>1 DEF RsInv, RsBreaks
      <4>5. QED BY <4>1, <4>2, <4>3, <4>4, <3>1 DEF RsInv, RsTypes
    <3>2. CASE rsMarks' = Mark(rsMarks, RsEnd, {c.kind}) /\ c.kind \in {"framing", "break"}
      <4> DEFINE s == {c.kind}
      <4>1. s \in SUBSET RsErrors /\ s # {} /\ s \cap {"framing", "break"} # {}
        BY <3>2 DEF RsErrors
      <4>2. Grown(rsMarks, rsMarks', RsEnd, s)
        BY <1>3, <3>2, <4>1, MarkGrows DEF RsInv, RsTypes
      <4>3. RsEnd' \in Nat /\ RsEnd <= RsEnd'
        BY <1>3, <2>1
      <4>4. /\ rsMarks' \in Seq(RsMark) /\ RsPlaces' /\ RsMarksInOrder'
            /\ \A q, errors : Told(q, errors) => Told(q, errors)'
            /\ \A errors : s \cap errors # {} => MarkAt(rsMarks', RsEnd, errors)
        BY <1>0, <1>2, <4>1, <4>2, <4>3, MarkAdded
      <4>5. RsBreaks'
        <5>1. "break" \in s => RsEnd \in DOMAIN rsBuf' /\ rsBuf'[RsEnd].kind = "break"
          BY <1>3, <2>1
        <5>2. \A p \in DOMAIN rsBuf : p \in DOMAIN rsBuf' /\ rsBuf'[p] = rsBuf[p]
          BY <1>3, <2>1
        <5> HIDE DEF s
        <5>3. QED BY <1>2, <4>1, <4>2, <5>1, <5>2, BreaksMarked
      <4>6. QED BY <4>1, <4>4, <4>5
    <3>3. QED BY <1>13, <3>1, <3>2
  <2>3. \A p \in 1 .. RsEnd : LastId(p)' = LastId(p)
    <3> SUFFICES ASSUME NEW p \in 1 .. RsEnd, p # 1 PROVE rsBuf'[p - 1] = rsBuf[p - 1]
      BY DEF LastId
    <3>1. QED BY <1>3, <2>1
  <2>4. RsStored'
    <3>1. \A p \in DOMAIN rsBuf' : (LastId(p) < rsBuf[p].id)'
      <4> SUFFICES ASSUME NEW p \in 1 .. RsEnd PROVE LastId(p)' < rsBuf'[p].id
        BY <2>1
      <4>1. CASE p = RsEnd
        BY <4>1, <1>3, <1>7, <1>8, <1>13, <2>1, <2>3
      <4>2. CASE p # RsEnd
        <5>1. p \in DOMAIN rsBuf /\ LastId(p)' = LastId(p) /\ rsBuf'[p] = rsBuf[p]
          BY <4>2, <1>3, <2>1, <2>3
        <5>2. QED BY <5>1 DEF RsInv, RsStored
      <4>3. QED BY <4>1, <4>2
    <3>2. LastId(rsTop)' = LastId(rsTop)
      <4>1. rsTop \in 1 .. RsEnd
        BY <1>3 DEF RsInv, RsTypes, RsPlaces
      <4>2. rsTop' = rsTop
        BY <1>2
      <4>3. QED BY <4>1, <4>2, <2>3, <2>1, <1>3 DEF LastId
    <3>3. ASSUME NEW p \in 1 .. RsEnd, p >= rsTop
          PROVE  /\ rsBuf'[p].id # LastId(p)' + 1 => Told(p, {"overflow"})'
                 /\ rsBuf'[p].kind = "framing" => Told(p, {"framing", "break"})'
      <4>1. CASE p = RsEnd
        <5>1. rsBuf'[p] = c /\ LastId(p)' = LastId(RsEnd)
          BY <4>1, <2>1, <2>3, <1>3
        <5>2. c.id = first
          BY <1>8, <1>13
        <5>3. first # LastId(RsEnd) + 1 => Told(p, {"overflow"})'
          BY <4>1, <1>7, <2>2
        <5>4. c.kind = "framing" => Told(p, {"framing", "break"})'
          BY <4>1, <2>2 DEF Told
        <5>5. QED BY <5>1, <5>2, <5>3, <5>4
      <4>2. CASE p # RsEnd
        <5>1. p \in DOMAIN rsBuf /\ LastId(p)' = LastId(p) /\ rsBuf'[p] = rsBuf[p]
          BY <4>2, <1>3, <2>1, <2>3
        <5>2. QED BY <5>1, <3>3, <2>2 DEF RsInv, RsStored
      <4>3. QED BY <4>1, <4>2
    <3>4. QED BY <3>1, <3>2, <3>3, <2>1, <1>2 DEF RsInv, RsStored
  <2>5. LastId(RsEnd)' = first
    <3>1. LastId(RsEnd)' = rsBuf'[RsEnd].id
      BY <1>3, <2>1 DEF LastId
    <3>2. QED BY <3>1, <1>8, <1>13, <2>1
  <2>6. RsOnTheWay'
    <3>1. first + 1 \in Nat /\ RsLeads(CharKinds, fifo', first + 1, last) /\ LastId(RsEnd)' = first
      BY <1>7, <1>8, <1>13, <2>5
    <3>2. QED BY <3>1, <1>2, <1>7, <1>9 DEF RsOnTheWay, h
  <2>7. RsTypes'
    BY <1>6, <2>1, <2>2 DEF RsInv, RsTypes
  <2>8. QED BY <1>4, <1>r, <2>2, <2>4, <2>6, <2>7 DEF RsInv
<1>14. QED
  <2>1. CASE c.kind \in {"xon", "xoff"}
    BY <2>1, <1>0, <1>11 DEF Get, c, CharKinds
  <2>2. CASE c.kind = "break" /\ eofOnBreak
    <3>1. Status(c) = {"break"} /\ {"break"} \in SUBSET RsErrors
      BY <2>2, <1>0 DEF Status, RsErrors
    <3>2. UNCHANGED rsBuf /\ rsMarks' = Mark(rsMarks, RsEnd, {"break"})
      BY <2>2, <3>1, <1>0 DEF Get, c
    <3>3. c.kind \notin CharKinds
      BY <2>2 DEF CharKinds, IsChar
    <3>4. QED BY <2>2, <3>1, <3>2, <3>3, <1>12
  <2>3. CASE c.kind \in CharKinds /\ Room = 0
    <3>1. c.kind \notin {"xon", "xoff"} /\ ~(c.kind = "break" /\ eofOnBreak)
      BY <2>3 DEF CharKinds, IsChar
    <3>2. UNCHANGED rsBuf /\ rsMarks' = Mark(rsMarks, RsEnd, {"overflow"})
      BY <2>3, <3>1, <1>0 DEF Get, c
    <3>3. QED BY <3>2, <1>12 DEF RsErrors
  <2>4. CASE c.kind \in CharKinds /\ Room # 0
    <3>1. c.kind \in {"good", "framing", "break"} /\ ~(c.kind = "break" /\ eofOnBreak)
      BY <2>4 DEF CharKinds, IsChar
    <3>2. Status(c) = IF c.kind = "good" THEN {} ELSE {c.kind}
      BY <3>1, <1>0 DEF Status
    <3>3. rsBuf' = Append(rsBuf, c) /\ rsMarks' = IF Status(c) = {} THEN rsMarks ELSE Mark(rsMarks, RsEnd, Status(c))
      BY <2>4, <3>1, <1>0 DEF Get, c
    <3>4. QED BY <2>4, <3>1, <3>2, <3>3, <1>13
  <2>5. c.kind \in {"xon", "xoff"} \/ (c.kind = "break" /\ eofOnBreak) \/ c.kind \in CharKinds
    BY <1>1 DEF RsChar, CharKinds, IsChar
  <2>6. QED BY <2>1, <2>2, <2>3, <2>4, <2>5

\* do_sync() ends with the overrun's mark at the end of the queue, where the characters are missing.
LEMMA PutKeeps == ASSUME RsCalm, RsInv, Put PROVE RsInv'
<1> DEFINE h == rsHandler
<1>0. /\ h.at = "put" /\ rsReader # "drops" /\ ~overrun /\ fifo \in Seq(RsChar) /\ Len(fifo) \in Nat
      /\ h \in [at : {"off", "get", "put"}, n : Nat, min : Int, over : BOOLEAN]
      /\ h.over => fifo = <<>> /\ h.min = Fifo /\ h.n = Fifo
      /\ Fifo \in Nat
  <2>1. Len(fifo) \in Nat /\ (fifo = <<>> => Len(fifo) = 0)
    BY LenProperties, EmptySeq DEF RsInv, RsTypes
  <2>2. QED BY <2>1 DEF RsInv, RsTypes, RsHandlerKnows, RsCalm, Put
<1>1. UNCHANGED <<rsNextId, fifo, overrun, eofOnBreak, rsBuf, rsBegin, rsEback, rsGptr, rsEgptr, rsNewEnd, rsReader, rsTop, rsHigh, rsWarned>>
  BY DEF Put, rsArea, rsGhosts, rsConfig
<1>q. CharKinds' = CharKinds
  BY <1>1 DEF CharKinds, IsChar
<1>2. CASE h.n < h.min
  <2>1. fifo # <<>> /\ h' = [h EXCEPT !.at = "get"] /\ rsMarks' = rsMarks
    BY <1>2 DEF Put
  <2>2. ~h.over
    BY <1>0, <2>1
  <2>3. RsPlaces' /\ RsMarksInOrder' /\ RsRun' /\ RsBreaks' /\ RsStored'
    BY <1>1, <2>1, QueueAlone
  <2>4. h'.at = "get" /\ ~h'.over /\ h' \in [at : {"off", "get", "put"}, n : Nat, min : Int, over : BOOLEAN]
    BY <1>0, <2>1, <2>2
  <2>5. RsTypes' /\ RsHandlerKnows'
    BY <1>0, <1>1, <2>1, <2>4 DEF RsInv, RsTypes, RsHandlerKnows
  <2>6. LastId(RsEnd)' = LastId(RsEnd) /\ Told(RsEnd, {"overflow"})' = Told(RsEnd, {"overflow"})
    BY <1>1, <2>1 DEF LastId, RsEnd, Told, MarkAt
  <2>7. RsOnTheWay'
    BY <1>1, <1>q, <2>2, <2>4, <2>6 DEF RsInv, RsOnTheWay
  <2>8. QED BY <2>3, <2>5, <2>7 DEF RsInv
<1>3. CASE ~(h.n < h.min) /\ ~h.over
  <2>1. h' = Idle /\ rsMarks' = rsMarks
    BY <1>3 DEF Put
  <2>2. RsPlaces' /\ RsMarksInOrder' /\ RsRun' /\ RsBreaks' /\ RsStored'
    BY <1>1, <2>1, QueueAlone
  <2>3. RsTypes' /\ RsHandlerKnows'
    BY <1>0, <1>1, <2>1 DEF RsInv, RsTypes, RsHandlerKnows, Idle
  <2>4. LastId(RsEnd)' = LastId(RsEnd) /\ Told(RsEnd, {"overflow"})' = Told(RsEnd, {"overflow"})
    BY <1>1, <2>1 DEF LastId, RsEnd, Told, MarkAt
  <2>5. RsOnTheWay'
    BY <1>1, <1>q, <1>3, <2>4 DEF RsInv, RsOnTheWay
  <2>6. QED BY <2>2, <2>3, <2>5 DEF RsInv
<1>4. CASE ~(h.n < h.min) /\ h.over
  <2> DEFINE s == {"overflow"}
  <2>0. RsEnd \in Nat /\ RsEnd' = RsEnd
    BY <1>1, LenProperties DEF RsInv, RsTypes, RsEnd
  <2>1. h' = Idle /\ rsMarks' = Mark(rsMarks, RsEnd, s)
    <3>1. h' = Idle /\ rsMarks' = Mark(rsMarks, RsEnd - (h.n - Fifo), s)
      BY <1>4 DEF Put
    <3>2. RsEnd - (h.n - Fifo) = RsEnd
      BY <1>0, <1>4, <2>0
    <3>3. QED BY <3>1, <3>2
  <2>2. s \in SUBSET RsErrors /\ s # {} /\ s \cap {"overflow"} # {}
    BY DEF RsErrors
  <2>3. Grown(rsMarks, rsMarks', RsEnd, s)
    BY <2>0, <2>1, <2>2, MarkGrows DEF RsInv, RsTypes
  <2>4. /\ rsMarks' \in Seq(RsMark) /\ RsPlaces' /\ RsMarksInOrder'
        /\ \A q, errors : Told(q, errors) => Told(q, errors)'
        /\ \A errors : s \cap errors # {} => MarkAt(rsMarks', RsEnd, errors)
    <3>1. RsEnd' \in Nat /\ RsEnd <= RsEnd'
      BY <2>0
    <3>2. QED BY <1>0, <1>1, <2>2, <2>3, <3>1, MarkAdded
  <2>5. RsTypes' /\ RsHandlerKnows'
    BY <1>0, <1>1, <2>1, <2>4 DEF RsInv, RsTypes, RsHandlerKnows, Idle
  <2>6. RsStored'
    <3>1. \A p : LastId(p)' = LastId(p)
      BY <1>1 DEF LastId
    <3>2. LastId(rsTop)' = LastId(rsTop)
      BY <1>1 DEF LastId
    <3>3. QED BY <1>1, <2>4, <3>1, <3>2 DEF RsInv, RsStored
  <2>7. RsOnTheWay'
    <3>1. PICK first \in Nat, last \in Nat :
            RsLeads(CharKinds, fifo, first, last) /\ LastId(RsEnd) < first /\ last <= rsNextId
      BY DEF RsInv, RsOnTheWay
    <3>2. first = last /\ fifo = <<>>
      BY <1>0, <1>4, <3>1, LeadsEmpty
    <3>3. LastId(RsEnd) \in Nat
      <4>1. ASSUME RsEnd # 1 PROVE rsBuf[RsEnd - 1].id \in Nat
        <5>1. RsEnd - 1 \in 1 .. Len(rsBuf)
          BY <2>0, <4>1 DEF RsEnd, RsInv, RsTypes
        <5>2. rsBuf[RsEnd - 1] \in RsChar
          BY <5>1, ElementOfSeq DEF RsInv, RsTypes
        <5>3. QED BY <5>2 DEF RsChar
      <4>2. QED BY <4>1 DEF LastId
    <3>4. rsNextId \in Nat /\ LastId(RsEnd) < rsNextId
      BY <3>1, <3>2, <3>3 DEF RsInv, RsTypes
    <3>5. RsLeads(CharKinds, fifo, rsNextId, rsNextId)
      BY <3>2, <3>4, LeadsEmpty
    <3>6. Told(RsEnd, {"overflow"})' /\ LastId(RsEnd)' = LastId(RsEnd)
      BY <1>1, <2>0, <2>2, <2>4 DEF Told, LastId
    <3>7. rsNextId <= rsNextId
      BY <3>4
    <3>8. QED BY <1>1, <1>q, <3>4, <3>5, <3>6, <3>7 DEF RsOnTheWay
  <2>8. RsRun'
    BY <1>1 DEF RsInv, RsRun
  <2>9. RsBreaks'
    BY <1>1, <2>3, <2>2, BreaksMarked
  <2>10. QED BY <2>4, <2>5, <2>6, <2>7, <2>8, <2>9 DEF RsInv
<1>5. QED BY <1>2, <1>3, <1>4

\* The marks and the get area lie behind what was read.
LEMMA MarksTyped ==
  ASSUME RsInv
  PROVE  /\ DOMAIN rsMarks = 1 .. Len(rsMarks) /\ Len(rsMarks) \in Nat /\ (rsMarks # <<>> => 1 \in DOMAIN rsMarks)
         /\ \A i \in DOMAIN rsMarks : rsMarks[i].pos \in Nat /\ rsMarks[i].st \subseteq RsErrors /\ rsMarks[i] \in RsMark
         /\ RsEnd \in Nat /\ RsEnd > 0 /\ DOMAIN rsBuf = 1 .. RsEnd - 1 /\ \A p \in DOMAIN rsBuf : rsBuf[p] \in RsChar
<1>1. DOMAIN rsMarks = 1 .. Len(rsMarks) /\ Len(rsMarks) \in Nat /\ (rsMarks # <<>> => Len(rsMarks) > 0)
  BY LenProperties, EmptySeq DEF RsInv, RsTypes
<1>2. \A i \in DOMAIN rsMarks : rsMarks[i] \in RsMark
  BY <1>1, ElementOfSeq DEF RsInv, RsTypes
<1>3. RsEnd \in Nat /\ RsEnd > 0 /\ DOMAIN rsBuf = 1 .. RsEnd - 1
  BY LenProperties DEF RsInv, RsTypes, RsEnd
<1>4. \A p \in DOMAIN rsBuf : rsBuf[p] \in RsChar
  <2>1. DOMAIN rsBuf = 1 .. Len(rsBuf)
    BY LenProperties DEF RsInv, RsTypes
  <2>2. QED BY <2>1, ElementOfSeq DEF RsInv, RsTypes
<1>5. QED BY <1>1, <1>2, <1>3, <1>4 DEF RsMark

\* A character is read for the first time when everything before it was.
LEMMA GetCharKeeps == ASSUME RsInv, RsGetChar PROVE RsInv'
<1>1. /\ rsGptr < rsEgptr /\ rsGptr' = rsGptr + 1 /\ rsReader = "runs"
      /\ UNCHANGED <<rsNextId, fifo, overrun, rsBuf, rsEgptr, rsNewEnd, rsMarks, rsReader, rsHandler>>
      /\ UNCHANGED <<eofOnBreak, rsBegin, rsEback>>
  BY DEF RsGetChar, peer, rsConfig
<1>2. /\ rsGptr \in Int /\ rsEgptr \in Int /\ rsTop \in Nat /\ rsTop > 0 /\ rsGptr <= rsTop /\ rsTop <= RsEnd
      /\ rsEgptr <= RsEnd /\ rsBegin \in Int /\ rsEback \in Int /\ rsBegin <= rsGptr /\ rsEback <= rsGptr
  BY DEF RsInv, RsTypes, RsPlaces, RsRun
<1>q. CharKinds' = CharKinds
  BY <1>1 DEF CharKinds, IsChar
<1>r. RsRun'
  <2>1. rsBegin <= rsGptr + 1 /\ rsEback <= rsGptr + 1
    BY <1>1, <1>2 DEF RsInv, RsTypes
  <2>2. QED BY <1>1, <2>1 DEF RsInv, RsRun
<1>b. RsBreaks'
  BY <1>1 DEF RsInv, RsBreaks
<1>3. CASE rsGptr # rsTop
  <2>1. UNCHANGED <<rsTop, rsHigh, rsWarned>>
    BY <1>3 DEF RsGetChar, rsGhosts
  <2>2. RsTypes' /\ RsHandlerKnows' /\ RsPlaces'
    <3>1. rsGptr' \in Int /\ rsGptr' <= rsTop' /\ rsGptr' <= rsEgptr
      BY <1>1, <1>2, <1>3, <2>1
    <3>2. RsEnd' = RsEnd
      BY <1>1 DEF RsEnd
    <3>3. QED BY <1>1, <2>1, <3>1, <3>2 DEF RsInv, RsTypes, RsHandlerKnows, RsPlaces
  <2>3. RsMarksInOrder'
    BY <1>1, <2>1 DEF RsInv, RsMarksInOrder, RsEnd
  <2>4. RsStored'
    BY <1>1, <2>1 DEF RsInv, RsStored, LastId, Told, MarkAt
  <2>5. LastId(RsEnd)' = LastId(RsEnd) /\ Told(RsEnd, {"overflow"})' = Told(RsEnd, {"overflow"})
    BY <1>1, <2>1 DEF LastId, RsEnd, Told, MarkAt
  <2>6. RsOnTheWay'
    BY <1>1, <1>q, <2>5 DEF RsInv, RsOnTheWay
  <2>7. QED BY <1>r, <1>b, <2>2, <2>3, <2>4, <2>6 DEF RsInv
<1>4. CASE rsGptr = rsTop
  <2>1. rsTop' = rsTop + 1 /\ rsWarned' = {} /\ rsHigh' = rsBuf[rsTop].id
    BY <1>4 DEF RsGetChar
  <2>2. rsTop \in DOMAIN rsBuf /\ rsHigh' \in Nat /\ rsTop < RsEnd
    BY <1>1, <1>2, <1>4, <2>1, MarksTyped DEF RsChar
  <2>3. RsTypes' /\ RsHandlerKnows' /\ RsPlaces'
    <3>1. rsGptr' \in Int /\ rsGptr' <= rsTop' /\ rsGptr' <= rsEgptr /\ rsTop' <= RsEnd /\ rsTop' \in Nat /\ rsTop' > 0
      <4>1. rsGptr + 1 <= rsEgptr /\ rsTop + 1 <= rsEgptr /\ rsEgptr <= RsEnd
        BY <1>1, <1>2, <1>4 DEF RsInv, RsTypes
      <4>2. rsTop + 1 <= RsEnd
        BY <4>1, <1>2, MarksTyped DEF RsInv, RsTypes
      <4>3. QED BY <4>1, <4>2, <1>1, <1>2, <1>4, <2>1
    <3>2. RsEnd' = RsEnd
      BY <1>1 DEF RsEnd
    <3>3. QED BY <1>1, <2>1, <2>2, <3>1, <3>2 DEF RsInv, RsTypes, RsHandlerKnows, RsPlaces
  <2>4. RsMarksInOrder'
    <3>1. \A i \in DOMAIN rsMarks : rsTop' <= rsMarks[i].pos
      <4> SUFFICES ASSUME NEW i \in DOMAIN rsMarks PROVE rsTop + 1 <= rsMarks[i].pos
        BY <2>1
      <4>1. rsEgptr <= rsMarks[i].pos /\ rsMarks[i].pos \in Nat
        BY MarksTyped DEF RsInv, RsMarksInOrder
      <4>2. QED BY <4>1, <1>1, <1>2, <1>4 DEF RsInv, RsTypes
    <3>2. QED BY <1>1, <3>1 DEF RsInv, RsMarksInOrder, RsEnd
  <2>5. \A p, errors : p > rsTop /\ Told(p, errors) => Told(p, errors)'
    <3> SUFFICES ASSUME NEW p, NEW errors, p > rsTop, Told(p, errors) PROVE Told(p, errors)'
      OBVIOUS
    <3>1. p # rsTop
      BY <1>2
    <3>2. MarkAt(rsMarks, p, errors)
      BY <3>1 DEF Told
    <3>3. QED BY <3>2, <1>1 DEF Told
  <2>6. RsStored'
    <3>1. LastId(rsTop)' = rsHigh'
      BY <1>1, <1>2, <2>1 DEF LastId
    <3>2. \A p : LastId(p)' = LastId(p)
      BY <1>1 DEF LastId
    <3>3. ASSUME NEW p \in DOMAIN rsBuf, p >= rsTop'
          PROVE  /\ rsBuf[p].id # LastId(p) + 1 => Told(p, {"overflow"})'
                 /\ rsBuf[p].kind = "framing" => Told(p, {"framing", "break"})'
      <4>1. p > rsTop
        BY <1>2, <2>1, <3>3, MarksTyped
      <4>2. p >= rsTop
        BY <4>1, <1>2, MarksTyped
      <4>3. QED BY <4>1, <4>2, <2>5 DEF RsInv, RsStored
    <3>4. QED BY <1>1, <3>1, <3>2, <3>3 DEF RsInv, RsStored
  <2>7. RsOnTheWay'
    <3>1. LastId(RsEnd)' = LastId(RsEnd)
      BY <1>1 DEF LastId, RsEnd
    <3>2. Told(RsEnd, {"overflow"}) => Told(RsEnd, {"overflow"})'
      <4>1. RsEnd # rsTop /\ RsEnd' = RsEnd
        BY <1>1, <1>2, <2>2, MarksTyped DEF RsEnd
      <4>2. QED BY <4>1, <1>1 DEF Told
    <3>3. QED BY <1>1, <1>q, <3>1, <3>2 DEF RsInv, RsOnTheWay
  <2>8. QED BY <1>r, <1>b, <2>3, <2>4, <2>6, <2>7 DEF RsInv
<1>5. QED BY <1>3, <1>4

\* A ring of K slots is cut where it wraps: the part that holds p begins at b and ends behind p, ...
LEMMA PartHolds ==
  ASSUME NEW K \in Nat \ {0}, NEW p \in Int, NEW b, b = p - ((p - 1) % K)
  PROVE  b \in Int /\ b <= p /\ p < b + K /\ (b - 1) % K = 0
<1> DEFINE q == (p - 1) \div K
           r == (p - 1) % K
<1>2. p - 1 = K * q + r /\ 0 <= r /\ r < K /\ q \in Int /\ r \in Int
  BY Divided
<1>3. b = p - r
  OBVIOUS
<1> HIDE DEF q, r
<1>6. K * q \in Int
  BY <1>2
<1>4. b - 1 = K * q
  <2>1. K * q = p - 1 - r
    BY <1>2, <1>6
  <2>2. QED BY <2>1, <1>2, <1>3
<1>5. (K * q) % K = K * q - K * q
  <2>1. K * q <= K * q /\ K * q < K * q + K
    BY <1>6
  <2>2. QED BY <1>2, <1>6, <2>1, Quotient
<1>7. (b - 1) % K = 0
  BY <1>4, <1>5, <1>6
<1>8. QED BY <1>2, <1>3, <1>7

\* ... and where the ring wraps, the part before ends.
LEMMA PartBefore ==
  ASSUME NEW K \in Nat \ {0, 1}, NEW p \in Int, (p - 1) % K = 0
  PROVE  (p - 1) - ((p - 1 - 1) % K) + K = p
<1> DEFINE q == (p - 1) \div K
<1>2. p - 1 = K * q + ((p - 1) % K) /\ q \in Int
  <2>1. p - 1 \in Int
    OBVIOUS
  <2>2. QED BY <2>1, Divided DEF q
<1>3. p - 1 = K * q
  BY <1>2
<1> HIDE DEF q
<1>4. K * (q - 1) = K * q - K /\ q - 1 \in Int
  BY <1>2
<1>5. (p - 2) % K = p - 2 - K * (q - 1)
  <2>1. K * (q - 1) <= p - 2 /\ p - 2 < K * (q - 1) + K /\ p - 2 \in Int
    BY <1>2, <1>3, <1>4
  <2>2. QED BY <1>4, <2>1, Quotient
<1>6. (p - 2) % K = K - 1
  BY <1>2, <1>3, <1>4, <1>5
<1>7. p - 1 - 1 = p - 2
  OBVIOUS
<1>8. QED BY <1>6, <1>7

\* The part of the receive queue's ring that holds a position
LEMMA RunHolds ==
  ASSUME NEW p \in Int
  PROVE  /\ RunBegin(p) \in Int /\ RunEnd(p) \in Int /\ RunBegin(p) <= p /\ p < RunEnd(p)
         /\ (RunBegin(p) - 1) % Slots = 0
<1>1. Slots \in Nat \ {0}
  BY RsAssumption DEF Slots
<1>2. PICK b : b = p - ((p - 1) % Slots)
  OBVIOUS
<1>3. b \in Int /\ b <= p /\ p < b + Slots /\ (b - 1) % Slots = 0
  BY <1>1, <1>2, PartHolds
<1>4. RunBegin(p) = b /\ RunEnd(p) = b + Slots
  BY <1>2 DEF RunBegin, RunEnd
<1>5. QED BY <1>1, <1>3, <1>4

LEMMA RunBefore ==
  ASSUME NEW p \in Int, (p - 1) % Slots = 0
  PROVE  RunEnd(p - 1) = p
<1>1. Slots \in Nat \ {0, 1}
  BY RsAssumption DEF Slots
<1>2. QED BY <1>1, PartBefore DEF RunEnd, RunBegin

LEMMA LowerOf == ASSUME NEW a \in Int, NEW b \in Int
                 PROVE  Min({a, b}) = IF a <= b THEN a ELSE b
<1> DEFINE c == IF a <= b THEN a ELSE b
<1>1. Min({a, b}) = CHOOSE x \in {a, b} : \A y \in {a, b} : x <= y
  BY DEF Min
<1>2. \A x \in {a, b} : (\A y \in {a, b} : x <= y) => x = c
  OBVIOUS
<1>3. c \in {a, b} /\ \A y \in {a, b} : c <= y
  OBVIOUS
<1> HIDE DEF c
<1>4. Min({a, b}) = c
  BY <1>1, <1>2, <1>3
<1>5. QED BY <1>4 DEF c

LEMMA UpperOf == ASSUME NEW a \in Int, NEW b \in Int
                 PROVE  Max({a, b}) = IF a <= b THEN b ELSE a
<1> DEFINE c == IF a <= b THEN b ELSE a
<1>1. Max({a, b}) = CHOOSE x \in {a, b} : \A y \in {a, b} : x >= y
  BY DEF Max
<1>2. \A x \in {a, b} : (\A y \in {a, b} : x >= y) => x = c
  OBVIOUS
<1>3. c \in {a, b} /\ \A y \in {a, b} : c >= y
  OBVIOUS
<1> HIDE DEF c
<1>4. Max({a, b}) = c
  BY <1>1, <1>2, <1>3
<1>5. QED BY <1>4 DEF c

\* A character read again moves nothing but the reader's place, and the get area with it to the part
\* of the ring before, which ends where the reader is.
LEMMA PutBackKeeps == ASSUME RsCalm, RsInv, RsPutBack \/ RsPutBackRun PROVE RsInv'
<1>1. /\ rsGptr' = rsGptr - 1 /\ rsReader = "runs" /\ rsBegin < rsGptr
      /\ UNCHANGED <<rsNextId, fifo, overrun, rsBuf, rsBegin, rsNewEnd, rsMarks, rsReader, rsHandler, rsTop, rsHigh,
                     rsWarned, eofOnBreak>>
      /\ \/ UNCHANGED <<rsEback, rsEgptr>> /\ rsEback < rsGptr
         \/ /\ rsEback >= rsGptr /\ rsEback' = Max({rsBegin, RunBegin(rsGptr - 1)})
            /\ rsEgptr' = Min({RsEnd, RunEnd(rsGptr - 1)})
  BY DEF RsPutBack, RsPutBackRun, RsCalm, peer, rsConfig, rsGhosts
<1>2. /\ rsGptr \in Int /\ rsTop \in Int /\ rsBegin \in Int /\ rsEback \in Int /\ rsEgptr \in Int /\ RsEnd \in Int
      /\ rsGptr <= rsTop /\ rsTop <= RsEnd /\ rsGptr <= rsEgptr /\ rsEgptr <= RsEnd /\ rsEback <= rsGptr
      /\ RsEnd' = RsEnd
  BY <1>1, MarksTyped DEF RsInv, RsTypes, RsPlaces, RsRun, RsEnd
<1>3. PICK g \in Int : g = rsGptr - 1
  BY <1>2
<1>4. g < rsGptr /\ g <= rsTop /\ rsBegin <= g
  BY <1>1, <1>2, <1>3
<1>5. /\ rsEback' \in Int /\ rsEback' <= g /\ (rsEback' <= rsBegin \/ (rsEback' - 1) % Slots = 0)
      /\ rsEgptr' \in Int /\ g <= rsEgptr' /\ rsEgptr' <= rsEgptr
  <2>1. CASE UNCHANGED <<rsEback, rsEgptr>> /\ rsEback < rsGptr
    <3>1. rsEback <= g /\ g <= rsEgptr
      BY <2>1, <1>2, <1>3
    <3>2. rsEback <= rsBegin \/ (rsEback - 1) % Slots = 0
      BY DEF RsInv, RsRun
    <3>3. rsEgptr <= rsEgptr
      BY <1>2
    <3>4. QED BY <2>1, <1>2, <3>1, <3>2, <3>3
  <2>2. CASE /\ rsEback >= rsGptr /\ rsEback' = Max({rsBegin, RunBegin(rsGptr - 1)})
             /\ rsEgptr' = Min({RsEnd, RunEnd(rsGptr - 1)})
    <3>1. rsEback = rsGptr /\ ~(rsEback <= rsBegin)
      BY <2>2, <1>1, <1>2
    <3>2. (rsGptr - 1) % Slots = 0
      BY <3>1 DEF RsInv, RsRun
    <3>3. RunEnd(g) = rsGptr
      BY <3>2, <1>2, <1>3, RunBefore
    <3>4. rsEgptr' = rsGptr
      BY <2>2, <1>2, <1>3, <3>3, LowerOf
    <3>5. RunBegin(g) \in Int /\ RunBegin(g) <= g /\ (RunBegin(g) - 1) % Slots = 0
      BY <1>3, RunHolds
    <3>6. rsEback' = IF rsBegin <= RunBegin(g) THEN RunBegin(g) ELSE rsBegin
      BY <2>2, <1>2, <1>3, <3>5, UpperOf
    <3>7. CASE rsBegin <= RunBegin(g)
      <4>1. rsEback' = RunBegin(g)
        BY <3>6, <3>7
      <4>2. QED BY <4>1, <3>4, <3>5, <1>2, <1>4
    <3>8. CASE ~(rsBegin <= RunBegin(g))
      <4>1. rsEback' = rsBegin
        BY <3>6, <3>8
      <4>2. rsBegin <= rsBegin
        BY <1>2
      <4>3. QED BY <4>1, <4>2, <3>4, <1>2, <1>4
    <3>9. QED BY <3>7, <3>8
  <2>3. QED BY <1>1, <2>1, <2>2
<1>6. RsTypes' /\ RsHandlerKnows' /\ RsPlaces' /\ RsRun'
  <2>1. rsGptr' = g
    BY <1>1, <1>3
  <2>2. RsTypes' /\ RsHandlerKnows'
    BY <1>1, <1>5, <2>1 DEF RsInv, RsTypes, RsHandlerKnows
  <2>3. RsPlaces'
    <3>1. rsEgptr' <= RsEnd
      BY <1>2, <1>5
    <3>2. QED BY <1>1, <1>2, <1>4, <1>5, <2>1, <3>1 DEF RsPlaces
  <2>4. RsRun'
    BY <1>1, <1>4, <1>5, <2>1 DEF RsRun
  <2>5. QED BY <2>2, <2>3, <2>4
<1>7. RsMarksInOrder'
  <2>1. \A i \in DOMAIN rsMarks : rsEgptr' <= rsMarks[i].pos
    <3> SUFFICES ASSUME NEW i \in DOMAIN rsMarks PROVE rsEgptr' <= rsMarks[i].pos
      OBVIOUS
    <3>1. rsEgptr <= rsMarks[i].pos /\ rsMarks[i].pos \in Nat
      BY MarksTyped DEF RsInv, RsMarksInOrder
    <3>2. QED BY <3>1, <1>2, <1>5
  <2>2. QED BY <1>1, <1>2, <2>1 DEF RsInv, RsMarksInOrder
<1>8. RsStored' /\ RsBreaks'
  BY <1>1 DEF RsInv, RsStored, RsBreaks, LastId, Told, MarkAt
<1>9. LastId(RsEnd)' = LastId(RsEnd) /\ Told(RsEnd, {"overflow"})' = Told(RsEnd, {"overflow"})
  BY <1>1 DEF LastId, RsEnd, Told, MarkAt
<1>10. RsOnTheWay'
  BY <1>1, <1>9 DEF RsInv, RsOnTheWay, CharKinds, IsChar
<1>11. QED BY <1>6, <1>7, <1>8, <1>10 DEF RsInv

\* underflow() looks at what is in the queue up to where the ring wraps, and ends the get area at the
\* first mark.
LEMMA UnderflowKeeps == ASSUME RsCalm, RsInv, RsUnderflow \/ RsLookAhead \/ TestMark PROVE RsInv'
<1>1. UNCHANGED <<rsNextId, fifo, overrun, eofOnBreak, rsBuf, rsGptr, rsMarks, rsHandler, rsTop, rsHigh, rsWarned>>
  BY DEF RsUnderflow, RsLookAhead, TestMark, SetArea, peer, rsConfig, rsGhosts
<1>2. /\ rsGptr \in Int /\ rsEgptr \in Int /\ rsNewEnd \in Int /\ rsTop \in Nat /\ rsGptr <= rsTop /\ rsTop <= RsEnd
      /\ rsGptr <= rsEgptr /\ rsEgptr <= RsEnd /\ RsEnd \in Nat /\ RsEnd' = RsEnd
      /\ rsBegin \in Int /\ rsBegin <= rsGptr /\ rsEback \in Int /\ rsEback <= rsGptr
  BY <1>1, MarksTyped DEF RsInv, RsTypes, RsPlaces, RsRun, RsEnd
<1>3. RsStored' /\ RsBreaks'
  BY <1>1 DEF RsInv, RsStored, RsBreaks, LastId, Told, MarkAt
<1>4. RsOnTheWay'
  <2>1. LastId(RsEnd)' = LastId(RsEnd) /\ Told(RsEnd, {"overflow"})' = Told(RsEnd, {"overflow"})
    BY <1>1 DEF LastId, RsEnd, Told, MarkAt
  <2>2. QED BY <1>1, <2>1 DEF RsInv, RsOnTheWay, CharKinds, IsChar
<1>5. CASE RsUnderflow
  <2>1. /\ rsGptr = rsEgptr /\ rsReader \in {"runs", "waits"} /\ rsReader' = "looks"
        /\ UNCHANGED <<rsEback, rsEgptr>>
    BY <1>5 DEF RsUnderflow, RsInv, RsPlaces
  <2>2. rsNewEnd' \in Int /\ rsEgptr <= rsNewEnd' /\ rsNewEnd' <= RsEnd
    <3>1. PICK e : e = RunEnd(rsGptr)
      OBVIOUS
    <3>2. e \in Int /\ rsGptr < e
      BY <3>1, <1>2, RunHolds
    <3>3. rsNewEnd' = IF RsEnd <= e THEN RsEnd ELSE e
      BY <1>2, <1>5, <3>1, <3>2, LowerOf DEF RsUnderflow
    <3>4. QED BY <3>2, <3>3, <1>2, <2>1
  <2>3. rsBegin' \in Int /\ rsBegin <= rsBegin' /\ rsBegin' <= rsGptr
    <3>1. PICK b : b = rsGptr - RsPutback
      OBVIOUS
    <3>2. b \in Int /\ b <= rsGptr
      BY <3>1, <1>2 DEF RsCalm
    <3>3. rsBegin' = IF rsBegin <= b THEN b ELSE rsBegin
      BY <1>2, <1>5, <3>1, <3>2, UpperOf DEF RsUnderflow
    <3>4. QED BY <3>2, <3>3, <1>2
  <2>4. RsTypes' /\ RsPlaces'
    BY <1>1, <1>2, <2>1, <2>2, <2>3 DEF RsInv, RsTypes, RsPlaces
  <2>5. RsHandlerKnows' /\ RsMarksInOrder'
    BY <1>1, <1>2, <2>1 DEF RsInv, RsHandlerKnows, RsMarksInOrder
  <2>6. RsRun'
    <3>1. rsEback <= rsBegin => rsEback <= rsBegin'
      BY <1>2, <2>3
    <3>2. QED BY <3>1, <1>1, <2>1, <2>3 DEF RsInv, RsRun
  <2>7. QED BY <1>3, <1>4, <2>4, <2>5, <2>6 DEF RsInv
<1>6. CASE RsLookAhead
  <2> DEFINE end == IF rsMarks # <<>> /\ rsMarks[1].pos < rsNewEnd THEN rsMarks[1].pos ELSE rsNewEnd
  <2>1. rsReader = "looks" /\ rsGptr = rsEgptr /\ rsEgptr <= rsNewEnd /\ rsNewEnd <= RsEnd /\ SetArea(end)
    BY <1>6 DEF RsLookAhead, RsInv, RsPlaces
  <2>2. rsMarks # <<>> => rsEgptr <= rsMarks[1].pos /\ rsMarks[1].pos \in Nat
    BY MarksTyped DEF RsInv, RsMarksInOrder
  <2>3. end \in Int /\ rsEgptr <= end /\ end <= rsNewEnd /\ (rsMarks # <<>> => end <= rsMarks[1].pos)
    BY <1>2, <2>1, <2>2
  <2>4. end <= RsEnd
    BY <1>2, <2>1, <2>3
  <2> HIDE DEF end
  <2>5. /\ rsEgptr' \in {rsEgptr, end} /\ rsReader' \in {"runs", "waits"} /\ UNCHANGED <<rsBegin, rsNewEnd>>
        /\ rsEback' \in Int /\ rsEback' <= rsGptr /\ (rsEback' <= rsBegin \/ (rsEback' - 1) % Slots = 0)
        /\ rsReader' # "runs" => rsEgptr' = rsEgptr
    <3>1. CASE end = rsGptr
      <4>1. UNCHANGED <<rsEback, rsEgptr, rsBegin, rsNewEnd>> /\ rsReader' = "waits"
        BY <2>1, <3>1 DEF SetArea
      <4>2. rsEback <= rsBegin \/ (rsEback - 1) % Slots = 0
        BY DEF RsInv, RsRun
      <4>3. QED BY <4>1, <4>2, <1>2
    <3>2. CASE end # rsGptr
      <4>1. /\ rsEback' = Max({rsBegin, RunBegin(rsGptr)}) /\ rsEgptr' = end /\ rsReader' = "runs"
            /\ UNCHANGED <<rsBegin, rsNewEnd>>
        BY <2>1, <3>2 DEF SetArea
      <4>2. PICK b : b = RunBegin(rsGptr)
        OBVIOUS
      <4>3. b \in Int /\ b <= rsGptr /\ (b - 1) % Slots = 0
        BY <4>2, <1>2, RunHolds
      <4>4. rsEback' = IF rsBegin <= b THEN b ELSE rsBegin
        BY <4>1, <4>2, <4>3, <1>2, UpperOf
      <4>5. CASE rsBegin <= b
        BY <4>1, <4>3, <4>4, <4>5, <1>2
      <4>6. CASE ~(rsBegin <= b)
        <5>1. rsEback' = rsBegin /\ rsBegin <= rsBegin
          BY <4>4, <4>6, <1>2
        <5>2. QED BY <4>1, <5>1, <1>2
      <4>7. QED BY <4>5, <4>6
    <3>3. QED BY <3>1, <3>2
  <2>6. RsTypes' /\ RsPlaces' /\ RsHandlerKnows' /\ RsRun'
    <3>1. rsGptr <= rsEgptr' /\ rsEgptr' <= RsEnd /\ rsEgptr' \in Int
      BY <1>2, <2>1, <2>3, <2>4, <2>5
    <3>2. RsTypes' /\ RsHandlerKnows'
      BY <1>1, <1>2, <2>1, <2>5, <3>1 DEF RsInv, RsTypes, RsHandlerKnows
    <3>3. RsPlaces'
      BY <1>1, <1>2, <2>1, <2>5, <3>1 DEF RsInv, RsPlaces
    <3>4. RsRun'
      BY <1>1, <1>2, <2>5 DEF RsRun
    <3>5. QED BY <3>2, <3>3, <3>4
  <2>7. RsMarksInOrder'
    <3>1. \A i \in DOMAIN rsMarks : end <= rsMarks[i].pos
      <4> SUFFICES ASSUME NEW i \in DOMAIN rsMarks PROVE end <= rsMarks[i].pos
        OBVIOUS
      <4>1. rsMarks # <<>> /\ 1 \in DOMAIN rsMarks /\ i \in 1 .. Len(rsMarks) /\ Len(rsMarks) \in Nat
        BY MarksTyped
      <4>2. i = 1 \/ rsMarks[1].pos < rsMarks[i].pos
        BY <4>1 DEF RsInv, RsMarksInOrder
      <4>3. rsMarks[1].pos \in Nat /\ rsMarks[i].pos \in Nat
        BY <4>1, MarksTyped
      <4>4. QED BY <4>1, <4>2, <4>3, <2>3
    <3>2. \A i \in DOMAIN rsMarks : rsEgptr' <= rsMarks[i].pos
      BY <3>1, <2>5 DEF RsInv, RsMarksInOrder
    <3>3. rsReader \notin {"pops", "drops"}
      BY <2>1
    <3>4. QED BY <1>1, <1>2, <3>2, <3>3 DEF RsInv, RsMarksInOrder
  <2>8. QED BY <1>3, <1>4, <2>6, <2>7 DEF RsInv
<1>7. CASE TestMark
  <2>1. /\ rsReader = "pops" /\ rsReader' \in {"drops", "runs", "waits"} /\ rsHandler.at = "off"
        /\ rsReader' = "drops" <=> rsMarks[1].st = {}
        /\ UNCHANGED <<rsBegin, rsEback, rsEgptr, rsNewEnd>>
    BY <1>7 DEF TestMark, Thread, Popped
  <2>2. RsTypes' /\ RsPlaces' /\ RsHandlerKnows'
    BY <1>1, <1>2, <2>1 DEF RsInv, RsTypes, RsPlaces, RsHandlerKnows
  <2>3. RsMarksInOrder' /\ RsRun'
    BY <1>1, <1>2, <2>1 DEF RsInv, RsMarksInOrder, RsRun
  <2>4. QED BY <1>3, <1>4, <2>2, <2>3 DEF RsInv
<1>8. QED BY <1>5, <1>6, <1>7

\* The error raised is one of the mark's, and a break only when no overflow is left.
LEMMA RaisedOnce ==
  ASSUME NEW st \in SUBSET RsErrors, st # {}, NEW e,
         e = CHOOSE x \in st : x = "overflow" \/ (x = "break" /\ "overflow" \notin st) \/ st = {x}
  PROVE  /\ e \in st
         /\ "overflow" \in st => e = "overflow"
         /\ e = "framing" => st = {"framing"}
<1> DEFINE P(x) == x = "overflow" \/ (x = "break" /\ "overflow" \notin st) \/ st = {x}
<1>1. \E x \in st : P(x)
  <2>1. CASE "overflow" \in st
    <3>1. P("overflow")
      OBVIOUS
    <3>2. QED BY <2>1, <3>1
  <2>2. CASE "overflow" \notin st /\ "break" \in st
    <3>1. P("break")
      BY <2>2
    <3>2. QED BY <2>2, <3>1
  <2>3. CASE "overflow" \notin st /\ "break" \notin st
    <3>1. st = {"framing"}
      BY <2>3 DEF RsErrors
    <3>2. P("framing") /\ "framing" \in st
      BY <3>1
    <3>3. QED BY <3>2
  <2>4. QED BY <2>1, <2>2, <2>3
<1>2. e = CHOOSE x \in st : P(x)
  OBVIOUS
<1> HIDE DEF P
<1>3. e \in st /\ P(e)
  BY <1>1, <1>2
<1>4. QED BY <1>3 DEF P

\* At a mark one of its errors is raised; the reader got it, or still gets it.
LEMMA RaiseKeeps == ASSUME RsInv, RsRaise PROVE RsInv'
<1> DEFINE st == rsMarks[1].st
           e == CHOOSE x \in st : x = "overflow" \/ (x = "break" /\ "overflow" \notin st) \/ st = {x}
           m == rsMarks'
           left == IF e = "break" THEN {} ELSE st \ {e}
<1>1. /\ rsReader = "looks" /\ rsReader' = "pops" /\ rsMarks # <<>> /\ rsGptr = rsMarks[1].pos
      /\ rsMarks' = [rsMarks EXCEPT ![1].st = left]
      /\ rsWarned' = IF e = "break" /\ ~eofOnBreak THEN rsWarned ELSE rsWarned \cup {e}
      /\ UNCHANGED <<rsNextId, fifo, overrun, rsBuf, rsGptr, rsEgptr, rsNewEnd, rsHandler, rsTop, rsHigh>>
      /\ UNCHANGED <<eofOnBreak, rsBegin, rsEback>>
  <2>1. /\ rsMarks' = [rsMarks EXCEPT ![1].st = left] /\ rsQuiet' = (e = "break" /\ ~eofOnBreak)
        /\ rsWarned' = IF rsQuiet' THEN rsWarned ELSE rsWarned \cup {e}
    BY Zenon DEF RsRaise
  <2>2. rsWarned' = IF e = "break" /\ ~eofOnBreak THEN rsWarned ELSE rsWarned \cup {e}
    <3> HIDE DEF e
    <3>1. QED BY <2>1
  <2>3. QED BY <2>1, <2>2 DEF RsRaise, peer, rsConfig
<1>2. rsGptr = rsEgptr /\ rsTop = rsGptr
  <2>1. rsTop <= rsMarks[1].pos /\ rsGptr <= rsTop /\ rsGptr = rsEgptr
    BY <1>1, MarksTyped DEF RsInv, RsPlaces, RsMarksInOrder
  <2>2. QED BY <2>1, <1>1, MarksTyped DEF RsInv, RsTypes
<1>3. 1 \in DOMAIN rsMarks /\ st \in SUBSET RsErrors /\ st # {}
  BY <1>1, MarksTyped DEF RsInv, RsMarksInOrder
<1>4. e \in st /\ ("overflow" \in st => e = "overflow") /\ (e = "framing" => st = {"framing"})
  BY <1>3, RaisedOnce
<1> HIDE DEF e
<1>5. left \in SUBSET RsErrors
  BY <1>3
<1>6. /\ m \in Seq(RsMark) /\ DOMAIN m = DOMAIN rsMarks /\ m # <<>>
      /\ \A i \in DOMAIN rsMarks : m[i].pos = rsMarks[i].pos /\ (i # 1 => m[i] = rsMarks[i])
      /\ m[1].st = left
  <2> DEFINE x == [rsMarks[1] EXCEPT !.st = left]
  <2>1. x \in RsMark /\ x.pos = rsMarks[1].pos /\ x.st = left
    BY <1>3, <1>5, MarksTyped DEF RsMark
  <2>2. m = [rsMarks EXCEPT ![1] = x]
    BY <1>1
  <2> HIDE DEF x, left
  <2>3. rsMarks \in Seq(RsMark) /\ 1 \in 1 .. Len(rsMarks) /\ DOMAIN rsMarks = 1 .. Len(rsMarks)
    BY <1>3, MarksTyped DEF RsInv, RsTypes
  <2>4. /\ m \in Seq(RsMark) /\ Len(m) = Len(rsMarks)
        /\ \A j \in 1 .. Len(rsMarks) : m[j] = IF j = 1 THEN x ELSE rsMarks[j]
    BY <2>1, <2>2, <2>3, ExceptSeq
  <2>5. DOMAIN m = 1 .. Len(rsMarks)
    BY <2>4, LenProperties
  <2>6. m # <<>>
    BY <2>3, <2>5
  <2> HIDE DEF m
  <2>7. QED BY <2>1, <2>3, <2>4, <2>5, <2>6
<1> HIDE DEF m
<1>7. RsTypes' /\ RsHandlerKnows'
  <2>1. rsWarned' \subseteq RsErrors
    BY <1>1, <1>3, <1>4 DEF RsInv, RsTypes
  <2>2. QED BY <1>1, <1>6, <2>1 DEF RsInv, RsTypes, RsHandlerKnows, m
<1>8. RsPlaces'
  <2>1. RsEnd' = RsEnd /\ m[1].pos = rsGptr
    BY <1>1, <1>3, <1>6 DEF RsEnd
  <2>2. QED BY <1>1, <1>2, <1>6, <2>1 DEF RsInv, RsPlaces, m
<1>9. RsMarksInOrder'
  <2>1. RsEnd' = RsEnd
    BY <1>1 DEF RsEnd
  <2>2. \A i \in DOMAIN m : rsEgptr <= m[i].pos /\ rsTop <= m[i].pos /\ m[i].pos <= RsEnd
    BY <1>6 DEF RsInv, RsMarksInOrder
  <2>3. \A i, j \in DOMAIN m : i < j => m[i].pos < m[j].pos
    BY <1>6 DEF RsInv, RsMarksInOrder
  <2>4. \A i \in DOMAIN m : i # 1 => m[i].st # {}
    BY <1>6 DEF RsInv, RsMarksInOrder
  <2>5. QED BY <1>1, <2>1, <2>2, <2>3, <2>4 DEF RsMarksInOrder, m
<1>10. ASSUME NEW p, NEW errors, Told(p, errors),
              \/ errors = {"overflow"}
              \/ errors = {"framing", "break"} /\ p \in DOMAIN rsBuf /\ rsBuf[p].kind = "framing"
       PROVE  Told(p, errors)'
  <2>1. CASE p = rsTop /\ rsWarned \cap errors # {}
    <3>1. rsWarned \subseteq rsWarned'
      BY <1>1
    <3>2. QED BY <2>1, <3>1, <1>1 DEF Told
  <2>2. CASE MarkAt(rsMarks, p, errors)
    <3>1. PICK i \in DOMAIN rsMarks : rsMarks[i].pos = p /\ rsMarks[i].st \cap errors # {}
      BY <2>2 DEF MarkAt
    <3>2. CASE i # 1
      <4>1. i \in DOMAIN m /\ m[i].pos = p /\ m[i].st \cap errors # {}
        BY <3>1, <3>2, <1>6
      <4>2. QED BY <4>1 DEF Told, MarkAt, m
    <3>3. CASE i = 1
      <4>1. p = rsTop /\ st \cap errors # {}
        BY <3>1, <3>3, <1>1, <1>2
      <4>2. CASE e \in errors
        <5>1. ~(e = "break" /\ ~eofOnBreak)
          <6> SUFFICES ASSUME e = "break", ~eofOnBreak PROVE FALSE
            OBVIOUS
          <6>1. p \in DOMAIN rsBuf /\ rsBuf[p].kind = "framing"
            BY <4>2, <1>10
          <6>2. rsBuf[rsMarks[1].pos].kind = "break"
            BY <1>3, <1>4 DEF RsInv, RsBreaks
          <6>3. QED BY <6>1, <6>2, <3>1, <3>3
        <5>2. rsWarned' = rsWarned \cup {e}
          BY <5>1, <1>1
        <5>3. rsTop' = rsTop /\ rsWarned' \cap errors # {}
          BY <4>2, <5>2, <1>1
        <5>4. QED BY <4>1, <5>3 DEF Told
      <4>3. CASE e \notin errors
        <5>1. e # "break"
          <6>1. CASE errors = {"overflow"}
            <7>1. "overflow" \in st
              BY <6>1, <4>1
            <7>2. QED BY <6>1, <7>1, <4>3, <1>4
          <6>2. CASE errors = {"framing", "break"}
            BY <6>2, <4>3
          <6>3. QED BY <6>1, <6>2, <1>10
        <5>2. left \cap errors # {}
          BY <5>1, <4>1, <4>3
        <5>3. 1 \in DOMAIN m /\ m[1].pos = p /\ m[1].st \cap errors # {}
          BY <5>2, <3>1, <3>3, <1>3, <1>6
        <5>4. QED BY <5>3 DEF Told, MarkAt, m
      <4>4. QED BY <4>2, <4>3
    <3>4. QED BY <3>2, <3>3
  <2>3. QED BY <1>10, <2>1, <2>2 DEF Told
<1>11. RsStored'
  <2>1. \A p : LastId(p)' = LastId(p)
    BY <1>1 DEF LastId
  <2>2. LastId(rsTop)' = LastId(rsTop)
    BY <1>1 DEF LastId
  <2>3. \A p \in DOMAIN rsBuf :
            /\ Told(p, {"overflow"}) => Told(p, {"overflow"})'
            /\ rsBuf[p].kind = "framing" /\ Told(p, {"framing", "break"}) => Told(p, {"framing", "break"})'
    BY <1>10
  <2>4. QED BY <1>1, <2>1, <2>2, <2>3 DEF RsInv, RsStored
<1>12. RsOnTheWay'
  <2>1. LastId(RsEnd)' = LastId(RsEnd)
    BY <1>1 DEF LastId, RsEnd
  <2>2. Told(RsEnd, {"overflow"}) => Told(RsEnd, {"overflow"})'
    <3>1. RsEnd' = RsEnd
      BY <1>1 DEF RsEnd
    <3>2. \A p : Told(p, {"overflow"}) => Told(p, {"overflow"})'
      BY <1>10
    <3>3. QED BY <3>1, <3>2 DEF Told
  <2>3. CharKinds' = CharKinds
    BY <1>1 DEF CharKinds, IsChar
  <2>4. QED BY <1>1, <2>1, <2>2, <2>3 DEF RsInv, RsOnTheWay
<1>13. RsRun' /\ RsBreaks'
  <2>1. \A i \in DOMAIN m : m[i].st \subseteq rsMarks[i].st /\ m[i].pos = rsMarks[i].pos
    BY <1>6
  <2>2. QED BY <1>1, <1>6, <2>1 DEF RsInv, RsRun, RsBreaks, m
<1>14. QED BY <1>7, <1>8, <1>9, <1>11, <1>12, <1>13 DEF RsInv

\* A mark is removed when nothing is left of it.
LEMMA DropMarkKeeps == ASSUME RsInv, DropMark PROVE RsInv'
<1> DEFINE m == rsMarks'
           n == Len(rsMarks)
<1>1. /\ rsReader = "drops" /\ rsReader' \in {"runs", "waits"} /\ rsMarks' = Tail(rsMarks) /\ rsMarks # <<>> /\ rsMarks[1].st = {}
      /\ UNCHANGED <<rsNextId, fifo, overrun, rsBuf, rsGptr, rsEgptr, rsNewEnd, rsHandler, rsTop, rsHigh, rsWarned>>
      /\ UNCHANGED <<eofOnBreak, rsBegin, rsEback>>
  BY DEF DropMark, Popped, RsInv, RsPlaces, peer, rsConfig, rsGhosts
<1>2. /\ m \in Seq(RsMark) /\ DOMAIN rsMarks = 1 .. n /\ n \in Nat /\ n > 0
      /\ DOMAIN m = 1 .. n - 1 /\ \A i \in 1 .. n - 1 : m[i] = rsMarks[i + 1]
  <2>1. rsMarks \in Seq(RsMark)
    BY DEF RsInv, RsTypes
  <2>2. m \in Seq(RsMark) /\ Len(m) = n - 1 /\ \A i \in 1 .. Len(m) : m[i] = rsMarks[i + 1]
    BY <1>1, <2>1, HeadTailProperties
  <2>3. DOMAIN m = 1 .. Len(m) /\ DOMAIN rsMarks = 1 .. n /\ n \in Nat /\ n > 0
    BY <1>1, <2>1, <2>2, LenProperties, EmptySeq
  <2>4. QED BY <2>2, <2>3
<1> HIDE DEF m, n
<1>3. RsTypes' /\ RsHandlerKnows'
  BY <1>1, <1>2 DEF RsInv, RsTypes, RsHandlerKnows, m
<1>4. RsPlaces'
  BY <1>1 DEF RsInv, RsPlaces, RsEnd
<1>5. RsMarksInOrder'
  <2>1. RsEnd' = RsEnd
    BY <1>1 DEF RsEnd
  <2>2. \A i \in 1 .. n - 1 : i + 1 \in DOMAIN rsMarks /\ i + 1 # 1
    BY <1>2
  <2>3. \A i \in DOMAIN m : rsEgptr <= m[i].pos /\ rsTop <= m[i].pos /\ m[i].pos <= RsEnd /\ m[i].st # {}
    BY <1>2, <2>2 DEF RsInv, RsMarksInOrder
  <2>4. \A i, j \in DOMAIN m : i < j => m[i].pos < m[j].pos
    <3> SUFFICES ASSUME NEW i \in 1 .. n - 1, NEW j \in 1 .. n - 1, i < j
                 PROVE  rsMarks[i + 1].pos < rsMarks[j + 1].pos
      BY <1>2
    <3>1. i + 1 < j + 1
      BY <1>2
    <3>2. QED BY <3>1, <2>2 DEF RsInv, RsMarksInOrder
  <2>5. QED BY <1>1, <2>1, <2>3, <2>4 DEF RsMarksInOrder, m
<1>6. ASSUME NEW p, NEW errors, Told(p, errors) PROVE Told(p, errors)'
  <2>1. CASE MarkAt(rsMarks, p, errors)
    <3>1. PICK i \in DOMAIN rsMarks : rsMarks[i].pos = p /\ rsMarks[i].st \cap errors # {}
      BY <2>1 DEF MarkAt
    <3>2. i # 1
      BY <3>1, <1>1
    <3>3. i - 1 \in DOMAIN m /\ m[i - 1] = rsMarks[i]
      BY <3>1, <3>2, <1>2
    <3>4. QED BY <3>1, <3>3 DEF Told, MarkAt, m
  <2>2. QED BY <1>1, <1>6, <2>1 DEF Told
<1>7. RsStored'
  <2>1. \A p : LastId(p)' = LastId(p)
    BY <1>1 DEF LastId
  <2>2. LastId(rsTop)' = LastId(rsTop)
    BY <1>1 DEF LastId
  <2>3. QED BY <1>1, <1>6, <2>1, <2>2 DEF RsInv, RsStored
<1>8. RsOnTheWay'
  <2>1. LastId(RsEnd)' = LastId(RsEnd)
    BY <1>1 DEF LastId, RsEnd
  <2>2. Told(RsEnd, {"overflow"}) => Told(RsEnd, {"overflow"})'
    <3>1. RsEnd' = RsEnd
      BY <1>1 DEF RsEnd
    <3>2. \A p : Told(p, {"overflow"}) => Told(p, {"overflow"})'
      BY <1>6
    <3>3. QED BY <3>1, <3>2 DEF Told
  <2>3. CharKinds' = CharKinds
    BY <1>1 DEF CharKinds, IsChar
  <2>4. QED BY <1>1, <2>1, <2>2, <2>3 DEF RsInv, RsOnTheWay
<1>9. RsRun' /\ RsBreaks'
  <2>1. \A i \in 1 .. n - 1 : i + 1 \in DOMAIN rsMarks
    BY <1>2
  <2>2. QED BY <1>1, <1>2, <2>1 DEF RsInv, RsRun, RsBreaks, m
<1>10. QED BY <1>3, <1>4, <1>5, <1>7, <1>8, <1>9 DEF RsInv

LEMMA RsStart == RsCalm /\ RsInit => RsInv
<1> SUFFICES ASSUME RsCalm, RsInit PROVE RsInv
  OBVIOUS
<1>1. /\ rsNextId = 1 /\ fifo = <<>> /\ overrun = FALSE /\ rsBuf = <<>> /\ rsGptr = 1 /\ rsEgptr = 1 /\ rsNewEnd = 1
      /\ rsMarks = <<>> /\ rsReader = "runs" /\ rsHandler = Idle /\ rsTop = 1 /\ rsHigh = 0 /\ rsWarned = {}
      /\ rsBegin = 1 /\ rsEback = 1 /\ eofOnBreak \in BOOLEAN
  BY DEF RsInit
<1>2. Len(rsBuf) = 0 /\ Len(fifo) = 0 /\ RsEnd = 1 /\ LastId(1) = 0 /\ DOMAIN rsBuf = {} /\ DOMAIN rsMarks = {}
  BY <1>1 DEF RsEnd, LastId
<1>3. RsTypes
  <2>1. Idle \in [at : {"off", "get", "put"}, n : Nat, min : Int, over : BOOLEAN]
    BY DEF Idle
  <2>2. fifo \in Seq(RsChar) /\ rsBuf \in Seq(RsChar) /\ rsMarks \in Seq(RsMark)
    BY <1>1, EmptySeq
  <2>3. rsHandler \in [at : {"off", "get", "put"}, n : Nat, min : Int, over : BOOLEAN]
    BY <1>1, <2>1
  <2>4. rsNextId \in Nat /\ rsNextId > 0 /\ rsGptr \in Int /\ rsEgptr \in Int /\ rsNewEnd \in Int
        /\ rsBegin \in Int /\ rsEback \in Int /\ eofOnBreak \in BOOLEAN
        /\ rsTop \in Nat /\ rsTop > 0 /\ rsHigh \in Nat
    BY <1>1
  <2>5. overrun \in BOOLEAN /\ rsReader \in {"runs", "looks", "pops", "drops", "waits"} /\ rsWarned \subseteq RsErrors
    BY <1>1
  <2>6. QED BY <2>2, <2>3, <2>4, <2>5 DEF RsTypes
<1>4. RsHandlerKnows
  BY <1>1, <1>2 DEF RsHandlerKnows, Idle, RsCalm
<1>5. RsPlaces /\ RsMarksInOrder /\ RsRun /\ RsBreaks /\ RsStored
  BY <1>1, <1>2 DEF RsPlaces, RsMarksInOrder, RsRun, RsBreaks, RsStored
<1>6. RsOnTheWay
  <2>1. RsLeads(CharKinds, fifo, 1, 1) /\ LastId(RsEnd) < 1 /\ 1 = LastId(RsEnd) + 1
    BY <1>1, <1>2, LeadsEmpty
  <2>2. QED BY <1>1, <2>1 DEF RsOnTheWay
<1>7. QED BY <1>3, <1>4, <1>5, <1>6 DEF RsInv

LEMMA RsInvNext == RsCalm /\ RsInv /\ [RsNext]_rsVars => RsInv'
<1> SUFFICES ASSUME RsCalm, RsInv, [RsNext]_rsVars PROVE RsInv'
  OBVIOUS
<1>1. ASSUME NEW k \in RsKinds, RsReceive(k) PROVE RsInv'
  BY <1>1, RsReceiveKeeps
<1>2. CASE Stop \/ GoOn
  BY <1>2, XonXoffKeep
<1>3. CASE DataAvailable \/ TransmitterEmpty \/ ModemStatus
  BY <1>3, HandlersBegin
<1>4. CASE Get
  BY <1>4, GetKeeps
<1>5. CASE Put
  BY <1>5, PutKeeps
<1>6. CASE RsGetChar
  BY <1>6, GetCharKeeps
<1>7. CASE RsPutBack \/ RsPutBackRun
  BY <1>7, PutBackKeeps
<1>8. CASE RsUnderflow \/ RsLookAhead \/ TestMark
  BY <1>8, UnderflowKeeps
<1>9. CASE RsRaise
  BY <1>9, RaiseKeeps
<1>10. CASE DropMark
  BY <1>10, DropMarkKeeps
<1>11. CASE Transmitted \/ RsWrite \/ UpdateTxStop \/ RsPutRealtime \/ Close \/ UNCHANGED rsVars
  <2>1. UNCHANGED <<rsNextId, fifo, overrun, rsHandler, eofOnBreak>>
    BY <1>11 DEF Transmitted, RsWrite, UpdateTxStop, RsPutRealtime, Close, peer, rsConfig, rsVars
  <2>2. UNCHANGED <<eofOnBreak, rsBuf, rsBegin, rsEback, rsGptr, rsEgptr, rsNewEnd, rsMarks, rsReader, rsTop, rsHigh, rsWarned>>
    BY <1>11, <2>1 DEF Transmitted, RsWrite, UpdateTxStop, RsPutRealtime, Close, rsArea, rsGhosts, rsVars
  <2>3. QED BY <2>1, <2>2, ReceiverAlone
<1>12. QED BY <1>1, <1>2, <1>3, <1>4, <1>5, <1>6, <1>7, <1>8, <1>9, <1>10, <1>11 DEF RsNext, Handling, Reading

\* A character read for the first time is the next one, or the reader was told.
LEMMA RsInvMarked == RsInv /\ [RsNext]_rsVars => (rsTop' # rsTop => NewChar(rsBuf[rsTop]))
<1> SUFFICES ASSUME RsInv, [RsNext]_rsVars, rsTop' # rsTop PROVE NewChar(rsBuf[rsTop])
  OBVIOUS
<1>1. RsGetChar
  BY DEF RsNext, Handling, Reading, rsVars, rsGhosts, RsReceive, Stop, GoOn, Transmitted, DataAvailable,
         TransmitterEmpty, ModemStatus, Get, Put, RsUnderflow, RsLookAhead, RsRaise, TestMark, DropMark, RsPutBack,
         RsPutBackRun, SetArea, RsWrite, UpdateTxStop, RsPutRealtime, Close
<1>2. rsGptr = rsTop /\ rsTop < rsEgptr
  BY <1>1 DEF RsGetChar, rsGhosts
<1>3. rsTop \in DOMAIN rsBuf /\ rsTop >= rsTop
  BY <1>2, MarksTyped DEF RsInv, RsTypes, RsPlaces
<1>4. \A errors : ~MarkAt(rsMarks, rsTop, errors)
  <2> SUFFICES ASSUME NEW i \in DOMAIN rsMarks, rsMarks[i].pos = rsTop PROVE FALSE
    BY DEF MarkAt
  <2>1. QED BY <1>2, MarksTyped DEF RsInv, RsMarksInOrder, RsTypes
<1>5. /\ rsHigh < rsBuf[rsTop].id
      /\ rsBuf[rsTop].id # rsHigh + 1 => rsWarned \cap {"overflow"} # {}
      /\ rsBuf[rsTop].kind = "framing" => rsWarned \cap {"framing", "break"} # {}
  BY <1>3, <1>4 DEF RsInv, RsStored, Told
<1>6. rsBuf[rsTop].id \in Nat /\ rsHigh \in Nat
  BY <1>3, MarksTyped DEF RsInv, RsTypes, RsChar
<1>7. QED BY <1>5, <1>6 DEF NewChar

\* rs232.cpp: characters are read once and in order, and the reader got the overflow, framing error
\* or break of what it is about to read, whenever handlers run and whichever queue was full.
THEOREM RsStays == RsCalm => (RsSpec => RsLossesMarked)
<1> SUFFICES ASSUME RsCalm PROVE RsSpec => RsLossesMarked
  OBVIOUS
<1>1. RsInit => RsInv
  BY RsStart
<1>2. RsInv /\ [RsNext]_rsVars => RsInv'
  BY RsInvNext
<1>3. RsInv /\ [RsNext]_rsVars => [rsTop' # rsTop => NewChar(rsBuf[rsTop])]_rsVars
  BY RsInvMarked
<1>4. QED BY <1>1, <1>2, <1>3, PTL DEF RsSpec, RsLossesMarked

-----------------------------------------------------------------------------

-----------------------------------------------------------------------------
(* Mpu401: the inductive invariant                                         *)

\* The device takes no command before it acknowledged the last, first_error is initialized, and
\* only what the queue still holds is put back.
MpuCalm == MpuOps = {} /\ MpuPutback \in Nat

MpuTypes ==
    /\ mpuPc \in {"drain", "reset", "ack", "open", "failed", "looks", "waits", "raises", "syncs", "realtime"}
    /\ mpuReady \in BOOLEAN /\ acks \in Nat /\ input \in Seq(Nat) /\ mpuNextId \in Nat
    /\ mpuBuf \in Seq(Nat) /\ mpuMarks \in Seq(Nat) /\ wild = FALSE
    /\ mpuBegin \in Int /\ mpuEback \in Int /\ mpuGptr \in Int /\ mpuEgptr \in Int /\ mpuNewEnd \in Int
    /\ mpuTop \in Nat /\ mpuTop > 0
    /\ mpuHigh \in Nat /\ mpuWarned \in BOOLEAN

\* One command is not acknowledged at a time, and none when the stream buffer opens.
MpuOpening ==
    /\ mpuReady => acks = 0
    /\ mpuPc = "drain" => acks = 0 /\ input = <<>>
    /\ mpuPc \in {"reset", "ack"} => acks + Len(input) <= 1
    /\ mpuPc \in {"drain", "reset", "ack"} => mpuNextId = 1 /\ mpuBuf = <<>>
    /\ Opened => acks = 0

MpuPlaces ==
    /\ mpuGptr <= mpuTop /\ mpuTop <= MpuEnd /\ mpuGptr <= mpuEgptr /\ mpuEgptr <= MpuEnd
    /\ mpuPc \in {"looks", "waits", "raises"} => mpuGptr = mpuEgptr
    /\ mpuPc = "looks" => mpuEgptr <= mpuNewEnd /\ mpuNewEnd <= MpuEnd
    /\ mpuPc = "raises" => mpuMarks # <<>> /\ mpuMarks[1] = mpuGptr

MpuMarksInOrder ==
    /\ \A i \in DOMAIN mpuMarks : mpuEgptr <= mpuMarks[i] /\ mpuTop <= mpuMarks[i] /\ mpuMarks[i] <= MpuEnd
    /\ \A i, j \in DOMAIN mpuMarks : i < j => mpuMarks[i] < mpuMarks[j]

\* The get area begins where the queue does, or where the ring wraps.
MpuRun == mpuBegin <= mpuGptr /\ mpuEback <= mpuGptr /\ (mpuEback <= mpuBegin \/ (mpuEback - 1) % MpuSlots = 0)

MpuLast(p) == IF p = 1 THEN 0 ELSE mpuBuf[p - 1]
MpuTold(p) == (\E i \in DOMAIN mpuMarks : mpuMarks[i] = p) \/ (p = mpuTop /\ mpuWarned)

MpuStored ==
    /\ \A p \in DOMAIN mpuBuf : MpuLast(p) < mpuBuf[p]
    /\ mpuHigh = MpuLast(mpuTop)
    /\ \A p \in DOMAIN mpuBuf : p >= mpuTop /\ mpuBuf[p] # MpuLast(p) + 1 => MpuTold(p)

\* The device's bytes follow each other; what is missing before them is marked.
MpuComing ==
    Opened => LET first == mpuNextId - Len(input) IN
        /\ \A i \in DOMAIN input : input[i] = first + i - 1
        /\ MpuLast(MpuEnd) < first
        /\ first # MpuLast(MpuEnd) + 1 => MpuTold(MpuEnd)

MpuInv ==
    /\ MpuTypes /\ ~stray /\ MpuOpening /\ MpuPlaces /\ MpuMarksInOrder /\ MpuRun /\ MpuStored
    /\ MpuComing

-----------------------------------------------------------------------------
LEMMA MpuTyped ==
  ASSUME MpuInv
  PROVE  /\ DOMAIN mpuMarks = 1 .. Len(mpuMarks) /\ Len(mpuMarks) \in Nat /\ (mpuMarks # <<>> => 1 \in DOMAIN mpuMarks)
         /\ \A i \in DOMAIN mpuMarks : mpuMarks[i] \in Nat
         /\ MpuEnd \in Nat /\ MpuEnd > 0 /\ Len(mpuBuf) = MpuEnd - 1
         /\ DOMAIN mpuBuf = 1 .. MpuEnd - 1 /\ \A p \in DOMAIN mpuBuf : mpuBuf[p] \in Nat
         /\ Len(input) \in Nat /\ DOMAIN input = 1 .. Len(input) /\ (input = <<>> <=> Len(input) = 0)
         /\ MpuLast(MpuEnd) \in Nat
<1>1. DOMAIN mpuMarks = 1 .. Len(mpuMarks) /\ Len(mpuMarks) \in Nat /\ (mpuMarks # <<>> => Len(mpuMarks) > 0)
  BY LenProperties, EmptySeq DEF MpuInv, MpuTypes
<1>2. \A i \in DOMAIN mpuMarks : mpuMarks[i] \in Nat
  BY <1>1, ElementOfSeq DEF MpuInv, MpuTypes
<1>3. MpuEnd \in Nat /\ MpuEnd > 0 /\ DOMAIN mpuBuf = 1 .. MpuEnd - 1 /\ Len(mpuBuf) = MpuEnd - 1
  BY LenProperties DEF MpuInv, MpuTypes, MpuEnd
<1>4. \A p \in DOMAIN mpuBuf : mpuBuf[p] \in Nat
  <2>1. DOMAIN mpuBuf = 1 .. Len(mpuBuf)
    BY LenProperties DEF MpuInv, MpuTypes
  <2>2. QED BY <2>1, ElementOfSeq DEF MpuInv, MpuTypes
<1>5. Len(input) \in Nat /\ DOMAIN input = 1 .. Len(input) /\ (input = <<>> <=> Len(input) = 0)
  BY LenProperties, EmptySeq DEF MpuInv, MpuTypes
<1>6. MpuLast(MpuEnd) \in Nat
  BY <1>3, <1>4 DEF MpuLast
<1>7. QED BY <1>1, <1>2, <1>3, <1>4, <1>5, <1>6

\* What the stream buffer holds stays as it is.
LEMMA MpuHeldAlone ==
  ASSUME MpuInv, UNCHANGED <<mpuBuf, mpuArea, mpuMarks, mpuTop, mpuHigh, mpuWarned>>
  PROVE  /\ MpuMarksInOrder' /\ MpuRun' /\ MpuStored' /\ MpuEnd' = MpuEnd /\ MpuLast(MpuEnd)' = MpuLast(MpuEnd)
         /\ MpuTold(MpuEnd)' = MpuTold(MpuEnd)
<1>1. MpuMarksInOrder' /\ MpuRun'
  BY DEF MpuInv, MpuMarksInOrder, MpuRun, MpuEnd, mpuArea
<1>2. MpuStored'
  BY DEF MpuInv, MpuStored, MpuLast, MpuTold
<1>3. MpuEnd' = MpuEnd /\ MpuLast(MpuEnd)' = MpuLast(MpuEnd) /\ MpuTold(MpuEnd)' = MpuTold(MpuEnd)
  BY DEF MpuEnd, MpuLast, MpuTold
<1>4. QED BY <1>1, <1>2, <1>3

LEMMA MpuComingAlone ==
  ASSUME MpuInv, UNCHANGED <<input, mpuNextId, mpuBuf, mpuMarks, mpuTop, mpuWarned>>, Opened' => Opened
  PROVE  MpuComing'
<1>1. MpuLast(MpuEnd)' = MpuLast(MpuEnd) /\ MpuTold(MpuEnd)' = MpuTold(MpuEnd)
  BY DEF MpuEnd, MpuLast, MpuTold
<1>2. QED BY <1>1 DEF MpuInv, MpuComing

\* Transmitting leaves the receiver alone.
LEMMA MpuReceiverAlone ==
  ASSUME MpuInv,
         UNCHANGED <<input, mpuNextId, mpuBuf, mpuArea, mpuMarks, wild, stray, mpuTop, mpuHigh, mpuWarned>>,
         UNCHANGED acks, mpuReady' \in BOOLEAN, mpuReady' => mpuReady \/ acks = 0,
         UNCHANGED mpuPc \/ (mpuPc \in {"open", "syncs", "realtime"} /\ mpuPc' \in {"open", "syncs", "realtime"})
  PROVE  MpuInv'
<1>1. MpuTypes'
  BY DEF MpuInv, MpuTypes, mpuArea
<1>2. MpuOpening'
  BY DEF MpuInv, MpuOpening, Opened
<1>3. MpuPlaces'
  BY DEF MpuInv, MpuPlaces, MpuEnd, mpuArea
<1>4. Opened' => Opened
  BY DEF Opened
<1>5. MpuComing'
  BY <1>4, MpuComingAlone
<1>6. MpuMarksInOrder' /\ MpuRun' /\ MpuStored'
  BY MpuHeldAlone
<1>7. QED BY <1>1, <1>2, <1>3, <1>5, <1>6 DEF MpuInv

LEMMA TransmittingKeeps ==
  ASSUME MpuCalm, MpuInv,
         BecomeReady \/ Transmit \/ MpuWrite \/ Sync \/ Synced \/ PutRealtime \/ SentRealtime \/ UNCHANGED mpuVars
  PROVE  MpuInv'
<1>1. UNCHANGED <<input, mpuNextId, mpuBuf, mpuArea, mpuMarks, wild, stray, mpuTop, mpuHigh, mpuWarned>>
  BY DEF BecomeReady, Transmit, MpuWrite, Sync, Synced, PutRealtime, SentRealtime, mpuVars, mpuDev, mpuRx, mpuArea,
         mpuGhosts
<1>2. UNCHANGED acks
  BY DEF BecomeReady, Transmit, MpuWrite, Sync, Synced, PutRealtime, SentRealtime, mpuVars, mpuDev
<1>3. mpuReady' \in BOOLEAN /\ (mpuReady' => mpuReady \/ acks = 0)
  <2>1. CASE BecomeReady
    <3>1. mpuReady' = TRUE /\ ~(acks > 0) /\ acks \in Nat
      BY <2>1 DEF BecomeReady, MpuCalm, MpuInv, MpuTypes
    <3>2. acks = 0
      BY <3>1
    <3>3. QED BY <3>1, <3>2
  <2>2. CASE ~BecomeReady
    <3>1. mpuReady' = FALSE \/ mpuReady' = mpuReady
      BY <2>2 DEF Transmit, SendOne, MpuWrite, Sync, Synced, PutRealtime, SentRealtime, mpuVars, mpuDev
    <3>2. mpuReady \in BOOLEAN
      BY DEF MpuInv, MpuTypes
    <3>3. CASE mpuReady' = FALSE
      BY <3>3
    <3>4. CASE mpuReady' = mpuReady
      BY <3>2, <3>4
    <3>5. QED BY <3>1, <3>3, <3>4
  <2>3. QED BY <2>1, <2>2
<1>4. UNCHANGED mpuPc \/ (mpuPc \in {"open", "syncs", "realtime"} /\ mpuPc' \in {"open", "syncs", "realtime"})
  BY DEF BecomeReady, Transmit, MpuWrite, Sync, Synced, PutRealtime, SentRealtime, mpuVars
<1>5. QED BY <1>1, <1>2, <1>3, <1>4, MpuReceiverAlone

\* The device acknowledges the constructor's commands, then sends one byte after the other.
LEMMA DeviceKeeps == ASSUME MpuCalm, MpuInv, MpuAnswer \/ Midi PROVE MpuInv'
<1>1. UNCHANGED <<mpuPc, mpuReady, mpuBuf, mpuArea, mpuMarks, wild, stray, mpuTop, mpuHigh, mpuWarned>>
  BY DEF MpuAnswer, Midi, mpuRx, mpuGhosts
<1>2. MpuMarksInOrder' /\ MpuRun' /\ MpuStored' /\ MpuLast(MpuEnd)' = MpuLast(MpuEnd) /\ MpuTold(MpuEnd)' = MpuTold(MpuEnd)
  BY <1>1, MpuHeldAlone
<1>3. MpuPlaces'
  BY <1>1 DEF MpuInv, MpuPlaces, MpuEnd, mpuArea
<1>4. Len(input) \in Nat /\ DOMAIN input = 1 .. Len(input) /\ input \in Seq(Nat) /\ mpuNextId \in Nat /\ acks \in Nat
  BY MpuTyped DEF MpuInv, MpuTypes
<1>5. CASE MpuAnswer
  <2>1. acks > 0 /\ acks' = acks - 1 /\ input' = Append(input, 0) /\ mpuNextId' = mpuNextId
    BY <1>5 DEF MpuAnswer, Ack
  <2>2. input' \in Seq(Nat) /\ Len(input') = Len(input) + 1
    BY <1>4, <2>1, AppendProperties
  <2>3. ~Opened /\ ~mpuReady /\ mpuPc # "drain"
    BY <1>4, <2>1 DEF MpuInv, MpuOpening
  <2>4. MpuTypes'
    BY <1>1, <1>4, <2>1, <2>2 DEF MpuInv, MpuTypes, mpuArea
  <2>5. MpuOpening'
    <3>1. acks' + Len(input') = acks + Len(input)
      BY <1>4, <2>1, <2>2
    <3>2. ~Opened'
      BY <1>1, <2>3 DEF Opened
    <3>3. QED BY <1>1, <2>1, <2>3, <3>1, <3>2 DEF MpuInv, MpuOpening
  <2>6. MpuComing'
    BY <1>1, <2>3 DEF MpuComing, Opened
  <2>7. QED BY <1>1, <1>2, <1>3, <2>4, <2>5, <2>6 DEF MpuInv
<1>6. CASE Midi
  <2>1. input' = Append(input, mpuNextId) /\ mpuNextId' = mpuNextId + 1 /\ acks' = acks
        /\ mpuPc \notin {"drain", "reset", "uart", "ack"}
    BY <1>6 DEF Midi
  <2>2. /\ input' \in Seq(Nat) /\ Len(input') = Len(input) + 1 /\ DOMAIN input' = 1 .. Len(input) + 1
        /\ input'[Len(input) + 1] = mpuNextId /\ \A i \in 1 .. Len(input) : input'[i] = input[i]
    <3>1. /\ input' \in Seq(Nat) /\ Len(input') = Len(input) + 1
          /\ input'[Len(input) + 1] = mpuNextId /\ \A i \in 1 .. Len(input) : input'[i] = input[i]
      BY <1>4, <2>1, AppendProperties
    <3>2. QED BY <3>1, LenProperties
  <2>3. MpuTypes'
    BY <1>1, <1>4, <2>1, <2>2 DEF MpuInv, MpuTypes, mpuArea
  <2>4. MpuOpening'
    BY <1>1, <2>1 DEF MpuInv, MpuOpening, Opened
  <2>5. MpuComing'
    <3> DEFINE first == mpuNextId - Len(input)
    <3> SUFFICES ASSUME Opened PROVE
            /\ \A i \in DOMAIN input' : input'[i] = (mpuNextId - Len(input))' + i - 1
            /\ MpuLast(MpuEnd)' < (mpuNextId - Len(input))'
            /\ (mpuNextId - Len(input))' # MpuLast(MpuEnd)' + 1 => MpuTold(MpuEnd)'
      BY <1>1 DEF MpuComing, Opened
    <3>1. (mpuNextId - Len(input))' = first
      BY <1>4, <2>1, <2>2
    <3>2. /\ \A i \in DOMAIN input : input[i] = first + i - 1
          /\ MpuLast(MpuEnd) < first
          /\ first # MpuLast(MpuEnd) + 1 => MpuTold(MpuEnd)
      BY DEF MpuInv, MpuComing
    <3>3. \A i \in DOMAIN input' : input'[i] = first + i - 1
      <4> SUFFICES ASSUME NEW i \in 1 .. Len(input) + 1 PROVE input'[i] = first + i - 1
        BY <2>2
      <4>1. CASE i = Len(input) + 1
        BY <4>1, <1>4, <2>2
      <4>2. CASE i # Len(input) + 1
        <5>1. i \in DOMAIN input /\ input'[i] = input[i]
          BY <4>2, <1>4, <2>2
        <5>2. QED BY <5>1, <3>2
      <4>3. QED BY <4>1, <4>2
    <3>4. QED BY <1>2, <3>1, <3>2, <3>3
  <2>6. QED BY <1>1, <1>2, <1>3, <2>3, <2>4, <2>5 DEF MpuInv
<1>7. QED BY <1>5, <1>6

\* The constructor leaves nothing in the device but what comes after its last ACK.
LEMMA ConstructorKeeps ==
  ASSUME MpuCalm, MpuInv, MpuReset \/ Discard \/ EnterUart \/ ReceiveAck \/ Timeout
  PROVE  MpuInv'
<1>1. /\ mpuPc \in {"drain", "reset", "ack"}
      /\ UNCHANGED <<mpuNextId, mpuBuf, mpuArea, mpuMarks, wild, stray, mpuTop, mpuHigh, mpuWarned>>
  BY DEF MpuReset, Discard, EnterUart, ReceiveAck, Timeout, mpuDev, mpuRx, mpuGhosts
<1>2. MpuMarksInOrder' /\ MpuRun' /\ MpuStored' /\ MpuEnd' = MpuEnd /\ MpuLast(MpuEnd)' = MpuLast(MpuEnd)
  BY <1>1, MpuHeldAlone
<1>3. mpuPc' \in {"drain", "reset", "ack", "open", "failed"}
  BY DEF MpuReset, Discard, EnterUart, ReceiveAck, Timeout
<1>4. MpuPlaces'
  BY <1>1, <1>2, <1>3 DEF MpuInv, MpuPlaces, mpuArea
<1>5. /\ Len(input) \in Nat /\ (input = <<>> <=> Len(input) = 0) /\ input \in Seq(Nat) /\ acks \in Nat
      /\ mpuNextId = 1 /\ mpuBuf = <<>> /\ acks + Len(input) <= 1 /\ (mpuReady => acks = 0)
      /\ (mpuPc = "drain" => acks = 0 /\ input = <<>>)
  BY <1>1, MpuTyped DEF MpuInv, MpuTypes, MpuOpening
<1>6. input # <<>> => Tail(input) = <<>> /\ acks = 0
  <2> SUFFICES ASSUME input # <<>> PROVE Tail(input) = <<>> /\ acks = 0
    OBVIOUS
  <2> DEFINE l == Len(input)
  <2>1. l \in Nat /\ l # 0 /\ acks \in Nat /\ acks + l <= 1
    BY <1>5
  <2> HIDE DEF l
  <2>2. l = 1 /\ acks = 0
    BY <2>1
  <2>3. Tail(input) \in Seq(Nat) /\ Len(Tail(input)) = 0
    BY <1>5, <2>2, HeadTailProperties DEF l
  <2>4. QED BY <2>2, <2>3, EmptySeq
<1>7. /\ acks' \in Nat /\ (mpuReady' => acks' = 0) /\ mpuReady' \in BOOLEAN /\ input' \in Seq(Nat)
      /\ mpuPc' = "drain" => acks' = 0 /\ input' = <<>>
      /\ mpuPc' \in {"reset", "ack"} => acks' + Len(input') <= 1
      /\ mpuPc' = "open" => acks' = 0 /\ input' = <<>>
  <2>1. CASE MpuReset
    <3>1. acks' \in {0, 1} /\ mpuReady' = FALSE /\ input' = <<>> /\ mpuPc' = "reset"
      BY <2>1 DEF MpuReset
    <3> DEFINE l == Len(input')
    <3>2. l = 0
      BY <3>1
    <3> HIDE DEF l
    <3>3. acks' + l <= 1 /\ acks' \in Nat
      <4>1. acks' = 0 \/ acks' = 1
        BY <3>1
      <4>2. QED BY <3>2, <4>1
    <3>4. acks' + Len(input') <= 1
      BY <3>3 DEF l
    <3>5. input' \in Seq(Nat)
      BY <3>1, EmptySeq
    <3>6. QED BY <3>1, <3>3, <3>4, <3>5
  <2>2. CASE Discard
    <3>1. input # <<>> /\ input' = <<>> /\ acks' = 0 /\ mpuReady' = mpuReady /\ mpuPc' \in {"reset", "failed"} /\ mpuPc = "reset"
      BY <2>2, <1>5, <1>6 DEF Discard
    <3>2. Len(input') = 0
      BY <3>1
    <3>3. QED BY <3>1, <3>2, EmptySeq DEF MpuInv, MpuTypes
  <2>3. CASE EnterUart
    <3>1. input' = <<>> /\ acks' = 1 /\ mpuReady' = FALSE /\ mpuPc' = "ack"
      BY <2>3, <1>5 DEF EnterUart
    <3> DEFINE l == Len(input')
    <3>2. l = 0
      BY <3>1
    <3> HIDE DEF l
    <3>3. acks' + l <= 1
      BY <3>1, <3>2
    <3>4. acks' + Len(input') <= 1
      BY <3>3 DEF l
    <3>5. input' \in Seq(Nat)
      BY <3>1, EmptySeq
    <3>6. QED BY <3>1, <3>4, <3>5
  <2>4. CASE ReceiveAck
    <3>1. input # <<>> /\ acks' = 0 /\ mpuReady' = mpuReady
      BY <2>4, <1>6 DEF ReceiveAck
    <3>2. (mpuPc' = "open" /\ input' = <<>>) \/ (mpuPc' = "failed" /\ input' = input)
      BY <2>4, <1>6 DEF ReceiveAck
    <3>3. QED BY <3>1, <3>2, <1>5, EmptySeq DEF MpuInv, MpuTypes
  <2>5. CASE Timeout
    BY <2>5, <1>5 DEF Timeout, mpuDev, MpuInv, MpuTypes
  <2>6. QED BY <2>1, <2>2, <2>3, <2>4, <2>5
<1>8. MpuTypes'
  BY <1>1, <1>3, <1>7 DEF MpuInv, MpuTypes, mpuArea
<1>9. MpuOpening'
  BY <1>1, <1>3, <1>5, <1>7 DEF MpuOpening, Opened
<1>10. MpuComing'
  <2>1. ASSUME mpuPc' = "open"
        PROVE  Len(input') = 0 /\ mpuNextId' = 1 /\ MpuLast(MpuEnd)' = 0 /\ DOMAIN input' = {}
    <3>1. input' = <<>>
      BY <2>1, <1>7
    <3>2. MpuLast(MpuEnd) = 0
      BY <1>5 DEF MpuLast, MpuEnd
    <3>3. QED BY <3>1, <3>2, <1>1, <1>2, <1>5
  <2>2. Opened' => mpuPc' = "open"
    BY <1>3 DEF Opened
  <2>3. QED BY <2>1, <2>2 DEF MpuComing
<1>11. QED BY <1>1, <1>2, <1>4, <1>8, <1>9, <1>10 DEF MpuInv

\* get_one() puts the byte behind the others, or marks the end of a full queue.
LEMMA ReceiveKeeps == ASSUME MpuCalm, MpuInv, MpuReceive PROVE MpuInv'
<1> DEFINE first == mpuNextId - Len(input)
           b == Head(input)
<1>1. /\ input # <<>> /\ input' = Tail(input) /\ GetOne /\ Opened /\ stray' = (stray \/ b = 0)
      /\ UNCHANGED <<mpuPc, acks, mpuReady, mpuNextId, mpuBegin, mpuEback, mpuGptr, mpuEgptr, mpuNewEnd, mpuTop, mpuHigh,
                     mpuWarned>>
  BY DEF MpuReceive, GetOne, Handler, Opened, mpuArea, mpuGhosts, Ack
<1>2. /\ MpuEnd \in Nat /\ MpuEnd > 0 /\ Len(mpuBuf) = MpuEnd - 1 /\ DOMAIN mpuBuf = 1 .. MpuEnd - 1 /\ mpuBuf \in Seq(Nat)
      /\ MpuLast(MpuEnd) \in Nat /\ mpuNextId \in Nat
      /\ Len(input) \in Nat /\ Len(input) # 0 /\ DOMAIN input = 1 .. Len(input) /\ input \in Seq(Nat)
  BY <1>1, MpuTyped DEF MpuInv, MpuTypes
<1>3. /\ \A i \in DOMAIN input : input[i] = first + i - 1
      /\ MpuLast(MpuEnd) < first
      /\ first # MpuLast(MpuEnd) + 1 => MpuTold(MpuEnd)
  BY <1>1 DEF MpuInv, MpuComing
<1>4. /\ input' \in Seq(Nat) /\ b \in Nat /\ Len(input') = Len(input) - 1
      /\ \A i \in 1 .. Len(input) - 1 : input'[i] = input[i + 1]
      /\ DOMAIN input' = 1 .. Len(input) - 1 /\ input[1] = b
  <2>1. /\ input' \in Seq(Nat) /\ b \in Nat /\ Len(input') = Len(input) - 1
        /\ \A i \in 1 .. Len(input') : input'[i] = input[i + 1]
    BY <1>1, <1>2, HeadTailProperties
  <2>2. DOMAIN input' = 1 .. Len(input') /\ input[1] = b
    BY <2>1, <1>2, LenProperties
  <2>3. QED BY <2>1, <2>2
<1>5. b = first /\ first \in Nat /\ first > 0
  <2>1. first \in Int
    BY <1>2
  <2>2. 1 \in DOMAIN input
    BY <1>2
  <2> HIDE DEF first, b
  <2>3. b = first + 1 - 1
    BY <2>2, <1>3, <1>4
  <2>4. QED BY <2>1, <2>3, <1>2, <1>3
<1>6. ~stray'
  <2>1. b # 0
    BY <1>5
  <2> HIDE DEF b
  <2>2. ~stray
    BY DEF MpuInv
  <2>3. QED BY <1>1, <2>1, <2>2, Zenon
<1>7. mpuNextId' - Len(input') = first + 1
  BY <1>1, <1>2, <1>4
<1>8. \A i \in DOMAIN input' : input'[i] = (first + 1) + i - 1
  <2> SUFFICES ASSUME NEW i \in 1 .. Len(input) - 1 PROVE input[i + 1] = (first + 1) + i - 1
    BY <1>4
  <2>1. i + 1 \in DOMAIN input
    BY <1>2
  <2> HIDE DEF first
  <2>2. input[i + 1] = first + (i + 1) - 1
    BY <2>1, <1>3
  <2>3. i \in Int
    BY <1>2
  <2>4. QED BY <2>2, <2>3, <1>5
<1>9. MpuOpening'
  BY <1>1 DEF MpuInv, MpuOpening, Opened
<1>r. MpuRun'
  BY <1>1 DEF MpuInv, MpuRun
<1>10. \A i \in DOMAIN mpuMarks : mpuMarks[i] \in Nat /\ mpuEgptr <= mpuMarks[i] /\ mpuTop <= mpuMarks[i] /\ mpuMarks[i] <= MpuEnd
  BY MpuTyped DEF MpuInv, MpuMarksInOrder
<1>11. mpuEgptr \in Int /\ mpuNewEnd \in Int /\ mpuEgptr <= MpuEnd /\ (mpuPc = "looks" => mpuNewEnd <= MpuEnd)
       /\ mpuTop \in Nat /\ mpuTop > 0 /\ mpuTop <= MpuEnd
  BY <1>2 DEF MpuInv, MpuTypes, MpuPlaces
<1> HIDE DEF first, b
<1>12. CASE mpuBuf' = Append(mpuBuf, b) /\ UNCHANGED <<mpuMarks, wild>>
  <2>1. /\ mpuBuf' \in Seq(Nat) /\ MpuEnd' = MpuEnd + 1 /\ mpuBuf'[MpuEnd] = b
        /\ DOMAIN mpuBuf' = 1 .. MpuEnd /\ \A p \in 1 .. MpuEnd - 1 : mpuBuf'[p] = mpuBuf[p]
    <3>1. /\ mpuBuf' \in Seq(Nat) /\ Len(mpuBuf') = Len(mpuBuf) + 1 /\ mpuBuf'[Len(mpuBuf) + 1] = b
          /\ \A p \in 1 .. Len(mpuBuf) : mpuBuf'[p] = mpuBuf[p]
      BY <1>2, <1>4, <1>12, AppendProperties
    <3>2. DOMAIN mpuBuf' = 1 .. Len(mpuBuf')
      BY <3>1, LenProperties
    <3>3. QED BY <3>1, <3>2, <1>2 DEF MpuEnd
  <2>2. MpuTypes'
    BY <1>1, <1>4, <1>12, <2>1 DEF MpuInv, MpuTypes
  <2>3. MpuPlaces'
    <3>1. mpuEgptr <= MpuEnd' /\ mpuTop <= MpuEnd' /\ (mpuPc = "looks" => mpuNewEnd <= MpuEnd')
      BY <1>2, <1>11, <2>1
    <3>2. QED BY <1>1, <1>12, <3>1 DEF MpuInv, MpuPlaces
  <2>4. MpuMarksInOrder'
    BY <1>1, <1>2, <1>10, <1>12, <2>1 DEF MpuInv, MpuMarksInOrder
  <2>5. \A p \in 1 .. MpuEnd : MpuLast(p)' = MpuLast(p)
    <3> SUFFICES ASSUME NEW p \in 1 .. MpuEnd, p # 1 PROVE mpuBuf'[p - 1] = mpuBuf[p - 1]
      BY DEF MpuLast
    <3>1. QED BY <1>2, <2>1
  <2>6. \A p : MpuTold(p)' = MpuTold(p)
    BY <1>1, <1>12 DEF MpuTold
  <2>7. MpuStored'
    <3>1. ASSUME NEW p \in 1 .. MpuEnd
          PROVE  MpuLast(p)' < mpuBuf'[p] /\ (p >= mpuTop /\ mpuBuf'[p] # MpuLast(p)' + 1 => MpuTold(p)')
      <4>1. CASE p = MpuEnd
        <5>1. mpuBuf'[p] = first /\ MpuLast(p)' = MpuLast(MpuEnd)
          BY <4>1, <1>2, <1>5, <2>1, <2>5
        <5>2. QED BY <4>1, <5>1, <1>3, <2>6
      <4>2. CASE p # MpuEnd
        <5>1. p \in DOMAIN mpuBuf /\ MpuLast(p)' = MpuLast(p) /\ mpuBuf'[p] = mpuBuf[p]
          BY <4>2, <1>2, <2>1, <2>5
        <5>2. QED BY <5>1, <2>6 DEF MpuInv, MpuStored
      <4>3. QED BY <4>1, <4>2
    <3>2. MpuLast(mpuTop)' = MpuLast(mpuTop)
      <4>1. mpuTop' = mpuTop /\ (mpuTop # 1 => mpuTop - 1 \in 1 .. MpuEnd - 1)
        BY <1>1, <1>2, <1>11
      <4>2. QED BY <4>1, <2>1 DEF MpuLast
    <3>3. QED BY <1>1, <2>1, <3>1, <3>2 DEF MpuInv, MpuStored
  <2>8. MpuComing'
    <3>1. MpuLast(MpuEnd)' = first
      <4>1. MpuLast(MpuEnd)' = mpuBuf'[MpuEnd]
        BY <1>2, <2>1 DEF MpuLast
      <4>2. QED BY <4>1, <2>1, <1>5
    <3>2. first < first + 1
      BY <1>5
    <3>3. QED BY <1>7, <1>8, <3>1, <3>2 DEF MpuComing
  <2>9. QED BY <1>6, <1>9, <1>r, <2>2, <2>3, <2>4, <2>7, <2>8 DEF MpuInv
<1>13. CASE /\ UNCHANGED mpuBuf /\ wild' = (IF mpuMarks = <<>> THEN FALSE ELSE wild)
            /\ mpuMarks' = IF mpuMarks # <<>> /\ mpuMarks[Len(mpuMarks)] = MpuEnd THEN mpuMarks ELSE Append(mpuMarks, MpuEnd)
  <2> DEFINE n == Len(mpuMarks)
             m == mpuMarks'
  <2>1. /\ n \in Nat /\ DOMAIN mpuMarks = 1 .. n /\ (mpuMarks # <<>> <=> n > 0) /\ mpuMarks \in Seq(Nat)
        /\ MpuEnd' = MpuEnd /\ wild' = FALSE
    BY <1>13, MpuTyped, LenProperties, EmptySeq DEF MpuInv, MpuTypes, MpuEnd
  <2>2. \/ m = mpuMarks /\ n > 0 /\ mpuMarks[n] = MpuEnd
        \/ /\ m \in Seq(Nat) /\ DOMAIN m = 1 .. n + 1 /\ m[n + 1] = MpuEnd /\ \A i \in 1 .. n : m[i] = mpuMarks[i]
           /\ n > 0 => mpuMarks[n] # MpuEnd
    <3>1. CASE mpuMarks # <<>> /\ mpuMarks[n] = MpuEnd
      BY <3>1, <2>1, <1>13
    <3>2. CASE ~(mpuMarks # <<>> /\ mpuMarks[n] = MpuEnd)
      <4>1. m = Append(mpuMarks, MpuEnd)
        BY <3>2, <1>13
      <4>2. /\ m \in Seq(Nat) /\ Len(m) = n + 1 /\ m[n + 1] = MpuEnd /\ \A i \in 1 .. n : m[i] = mpuMarks[i]
        BY <4>1, <2>1, <1>2, AppendProperties
      <4>3. DOMAIN m = 1 .. n + 1
        BY <4>2, LenProperties
      <4>4. QED BY <4>2, <4>3, <3>2, <2>1
    <3>3. QED BY <3>1, <3>2
  <2> HIDE DEF n, m
  <2>3. m \in Seq(Nat) /\ (\E i \in DOMAIN m : m[i] = MpuEnd)
        /\ \A i \in 1 .. n : i \in DOMAIN m /\ m[i] = mpuMarks[i]
    BY <2>1, <2>2
  <2>4. MpuTypes'
    BY <1>1, <1>4, <1>13, <2>1, <2>3 DEF MpuInv, MpuTypes, m
  <2>5. MpuPlaces'
    <3>1. mpuPc = "raises" => m # <<>> /\ m[1] = mpuGptr
      <4> SUFFICES ASSUME mpuPc = "raises" PROVE m # <<>> /\ m[1] = mpuGptr
        OBVIOUS
      <4>1. n > 0 /\ mpuMarks[1] = mpuGptr /\ 1 \in 1 .. n
        BY <2>1 DEF MpuInv, MpuPlaces
      <4>2. 1 \in DOMAIN m /\ m[1] = mpuGptr
        BY <4>1, <2>3
      <4>3. QED BY <4>2
    <3>2. QED BY <1>1, <2>1, <3>1 DEF MpuInv, MpuPlaces, m
  <2>6. MpuMarksInOrder'
    <3>1. \A i, j \in 1 .. n : i < j => mpuMarks[i] < mpuMarks[j]
      BY <2>1 DEF MpuInv, MpuMarksInOrder
    <3>2. CASE m = mpuMarks
      BY <3>2, <1>1, <2>1 DEF MpuInv, MpuMarksInOrder, m
    <3>3. CASE /\ m \in Seq(Nat) /\ DOMAIN m = 1 .. n + 1 /\ m[n + 1] = MpuEnd /\ \A i \in 1 .. n : m[i] = mpuMarks[i]
               /\ n > 0 => mpuMarks[n] # MpuEnd
      <4>1. \A i \in 1 .. n : mpuMarks[i] < MpuEnd
        <5> SUFFICES ASSUME NEW i \in 1 .. n PROVE mpuMarks[i] < MpuEnd
          OBVIOUS
        <5>1. n \in 1 .. n /\ i \in DOMAIN mpuMarks /\ n \in DOMAIN mpuMarks /\ (i = n \/ i < n)
          BY <2>1
        <5>2. mpuMarks[n] < MpuEnd
          BY <3>3, <5>1, <1>2, <1>10
        <5>3. QED BY <5>1, <5>2, <3>1, <1>2, <1>10
      <4>2. \A i \in DOMAIN m : mpuEgptr <= m[i] /\ mpuTop <= m[i] /\ m[i] <= MpuEnd
        <5> SUFFICES ASSUME NEW i \in 1 .. n + 1 PROVE mpuEgptr <= m[i] /\ mpuTop <= m[i] /\ m[i] <= MpuEnd
          BY <3>3
        <5>1. CASE i = n + 1
          BY <5>1, <3>3, <1>2, <1>11
        <5>2. CASE i # n + 1
          <6>1. i \in 1 .. n
            BY <5>2, <2>1
          <6>2. QED BY <6>1, <3>3, <2>1, <1>10
        <5>3. QED BY <5>1, <5>2
      <4>3. \A i, j \in DOMAIN m : i < j => m[i] < m[j]
        <5> SUFFICES ASSUME NEW i \in 1 .. n + 1, NEW j \in 1 .. n + 1, i < j PROVE m[i] < m[j]
          BY <3>3
        <5>1. i \in 1 .. n /\ m[i] = mpuMarks[i]
          BY <3>3, <2>1
        <5>2. CASE j = n + 1
          BY <5>1, <5>2, <3>3, <4>1
        <5>3. CASE j # n + 1
          <6>1. j \in 1 .. n /\ m[j] = mpuMarks[j]
            BY <5>3, <3>3, <2>1
          <6>2. QED BY <5>1, <6>1, <3>1
        <5>4. QED BY <5>2, <5>3
      <4>4. QED BY <1>1, <2>1, <4>2, <4>3 DEF MpuMarksInOrder, m
    <3>4. QED BY <2>2, <3>2, <3>3
  <2>7. \A p : MpuTold(p) => MpuTold(p)'
    <3> SUFFICES ASSUME NEW p, MpuTold(p) PROVE MpuTold(p)'
      OBVIOUS
    <3>1. ASSUME NEW i \in DOMAIN mpuMarks, mpuMarks[i] = p PROVE MpuTold(p)'
      <4>1. i \in DOMAIN m /\ m[i] = p
        BY <3>1, <2>1, <2>3
      <4>2. QED BY <4>1 DEF MpuTold, m
    <3>2. QED BY <3>1, <1>1 DEF MpuTold
  <2>8. MpuStored'
    <3>1. (\A p : MpuLast(p)' = MpuLast(p)) /\ MpuLast(mpuTop)' = MpuLast(mpuTop)
      BY <1>1, <1>13 DEF MpuLast
    <3>2. QED BY <1>1, <1>13, <2>7, <3>1 DEF MpuInv, MpuStored
  <2>9. MpuComing'
    <3>1. MpuTold(MpuEnd)' /\ MpuLast(MpuEnd)' = MpuLast(MpuEnd)
      BY <1>13, <2>1, <2>3 DEF MpuTold, MpuLast, m
    <3>2. MpuLast(MpuEnd) < first + 1
      BY <1>2, <1>3, <1>5
    <3>3. QED BY <1>7, <1>8, <3>1, <3>2 DEF MpuComing
  <2>10. QED BY <1>6, <1>9, <1>r, <2>4, <2>5, <2>6, <2>8, <2>9 DEF MpuInv
<1>14. QED BY <1>1, <1>12, <1>13 DEF GetOne, b

\* A byte is read for the first time when everything before it was.
LEMMA MpuGetCharKeeps == ASSUME MpuInv, MpuGetChar PROVE MpuInv'
<1>1. /\ mpuGptr < mpuEgptr /\ mpuGptr' = mpuGptr + 1 /\ mpuPc = "open"
      /\ UNCHANGED <<mpuPc, mpuReady, acks, input, mpuNextId, mpuBuf, mpuBegin, mpuEback, mpuEgptr, mpuNewEnd, mpuMarks,
                     wild, stray>>
  BY DEF MpuGetChar, mpuDev, mpuRx
<1>2. /\ mpuGptr \in Int /\ mpuEgptr \in Int /\ mpuTop \in Nat /\ mpuTop > 0 /\ mpuGptr <= mpuTop /\ mpuTop <= MpuEnd
      /\ mpuEgptr <= MpuEnd /\ MpuEnd \in Nat /\ mpuBegin \in Int /\ mpuEback \in Int /\ mpuBegin <= mpuGptr
      /\ mpuEback <= mpuGptr
  BY MpuTyped DEF MpuInv, MpuTypes, MpuPlaces, MpuRun
<1>r. MpuRun'
  <2>1. mpuBegin <= mpuGptr' /\ mpuEback <= mpuGptr'
    BY <1>1, <1>2
  <2>2. QED BY <1>1, <2>1 DEF MpuInv, MpuRun
<1>3. MpuOpening'
  BY <1>1 DEF MpuInv, MpuOpening, Opened
<1>4. MpuEnd' = MpuEnd
  BY <1>1 DEF MpuEnd
<1>5. (\A p : MpuLast(p)' = MpuLast(p)) /\ MpuLast(MpuEnd)' = MpuLast(MpuEnd)
  BY <1>1 DEF MpuLast, MpuEnd
<1>6. CASE mpuGptr # mpuTop
  <2>1. UNCHANGED <<mpuTop, mpuHigh, mpuWarned>>
    BY <1>6 DEF MpuGetChar, mpuGhosts
  <2>2. MpuTypes' /\ MpuPlaces'
    <3>1. mpuGptr' \in Int /\ mpuGptr' <= mpuTop' /\ mpuGptr' <= mpuEgptr'
      BY <1>1, <1>2, <1>6, <2>1
    <3>2. QED BY <1>1, <1>4, <2>1, <3>1 DEF MpuInv, MpuTypes, MpuPlaces
  <2>3. MpuStored' /\ MpuComing'
    <3>1. MpuComing'
      BY <1>1, <2>1, MpuComingAlone DEF Opened
    <3>2. MpuStored'
      BY <1>1, <2>1 DEF MpuInv, MpuStored, MpuLast, MpuTold
    <3>3. QED BY <3>1, <3>2
  <2>m. MpuMarksInOrder'
    BY <1>1, <1>4, <2>1 DEF MpuInv, MpuMarksInOrder
  <2>4. QED BY <1>1, <1>3, <1>r, <2>m, <2>2, <2>3 DEF MpuInv
<1>7. CASE mpuGptr = mpuTop
  <2>1. mpuTop' = mpuTop + 1 /\ mpuWarned' = FALSE /\ mpuHigh' = mpuBuf[mpuTop]
    BY <1>7 DEF MpuGetChar
  <2>2. mpuTop \in DOMAIN mpuBuf /\ mpuHigh' \in Nat /\ mpuTop < MpuEnd
    BY <1>1, <1>2, <1>7, <2>1, MpuTyped
  <2>3. MpuTypes' /\ MpuPlaces'
    <3>1. /\ mpuGptr' \in Int /\ mpuGptr' <= mpuTop' /\ mpuTop' <= MpuEnd /\ mpuGptr' <= mpuEgptr' /\ mpuTop' \in Nat
          /\ mpuTop' > 0
      BY <1>1, <1>2, <1>7, <2>1
    <3>2. QED BY <1>1, <1>4, <2>1, <2>2, <3>1 DEF MpuInv, MpuTypes, MpuPlaces
  <2>4. \A p : p > mpuTop /\ MpuTold(p) => MpuTold(p)'
    <3> SUFFICES ASSUME NEW p, p > mpuTop, MpuTold(p) PROVE MpuTold(p)'
      OBVIOUS
    <3>1. p # mpuTop
      BY <1>2
    <3>2. PICK i \in DOMAIN mpuMarks : mpuMarks[i] = p
      BY <3>1 DEF MpuTold
    <3>3. QED BY <3>2, <1>1 DEF MpuTold
  <2>5. MpuStored'
    <3>1. MpuLast(mpuTop)' = mpuHigh'
      BY <1>1, <1>2, <2>1 DEF MpuLast
    <3>2. ASSUME NEW p \in DOMAIN mpuBuf, p >= mpuTop', mpuBuf[p] # MpuLast(p) + 1 PROVE MpuTold(p)'
      <4>1. p > mpuTop /\ p >= mpuTop
        BY <1>2, <2>1, <3>2, MpuTyped
      <4>2. QED BY <4>1, <3>2, <2>4 DEF MpuInv, MpuStored
    <3>3. QED BY <1>1, <1>5, <3>1, <3>2 DEF MpuInv, MpuStored
  <2>6. MpuComing'
    <3>1. MpuTold(MpuEnd) => MpuTold(MpuEnd)'
      <4>1. MpuEnd # mpuTop
        BY <1>2, <2>2, MpuTyped
      <4>2. QED BY <4>1, <1>1, <1>4 DEF MpuTold
    <3>2. QED BY <1>1, <1>5, <3>1 DEF MpuInv, MpuComing, Opened
  <2>m. MpuMarksInOrder'
    <3>1. \A i \in DOMAIN mpuMarks : mpuTop' <= mpuMarks[i]
      <4> SUFFICES ASSUME NEW i \in DOMAIN mpuMarks PROVE mpuTop' <= mpuMarks[i]
        OBVIOUS
      <4>1. mpuEgptr <= mpuMarks[i] /\ mpuMarks[i] \in Nat
        BY MpuTyped DEF MpuInv, MpuMarksInOrder
      <4>2. QED BY <4>1, <1>1, <1>2, <1>7, <2>1
    <3>2. QED BY <1>1, <1>4, <3>1 DEF MpuInv, MpuMarksInOrder
  <2>7. QED BY <1>1, <1>3, <1>r, <2>m, <2>3, <2>5, <2>6 DEF MpuInv
<1>8. QED BY <1>6, <1>7

\* The part of the ring that holds a position, as in Rs232
LEMMA MpuRunHolds ==
  ASSUME NEW p \in Int
  PROVE  /\ MpuRunBegin(p) \in Int /\ MpuRunEnd(p) \in Int /\ MpuRunBegin(p) <= p /\ p < MpuRunEnd(p)
         /\ (MpuRunBegin(p) - 1) % MpuSlots = 0
<1>1. MpuSlots \in Nat \ {0}
  BY MpuAssumption DEF MpuSlots
<1>2. PICK b : b = p - ((p - 1) % MpuSlots)
  OBVIOUS
<1>3. b \in Int /\ b <= p /\ p < b + MpuSlots /\ (b - 1) % MpuSlots = 0
  BY <1>1, <1>2, PartHolds
<1>4. MpuRunBegin(p) = b /\ MpuRunEnd(p) = b + MpuSlots
  BY <1>2 DEF MpuRunBegin, MpuRunEnd
<1>5. QED BY <1>1, <1>3, <1>4

LEMMA MpuRunBefore ==
  ASSUME NEW p \in Int, (p - 1) % MpuSlots = 0
  PROVE  MpuRunEnd(p - 1) = p
<1>1. MpuSlots \in Nat \ {0, 1}
  BY MpuAssumption DEF MpuSlots
<1>2. QED BY <1>1, PartBefore DEF MpuRunEnd, MpuRunBegin

\* A byte read again moves nothing but the reader's place, as in Rs232.
LEMMA MpuPutBackKeeps == ASSUME MpuCalm, MpuInv, MpuPutBack \/ MpuPutBackRun PROVE MpuInv'
<1>1. /\ mpuGptr' = mpuGptr - 1 /\ mpuPc = "open" /\ mpuBegin < mpuGptr
      /\ UNCHANGED <<mpuPc, mpuReady, acks, input, mpuNextId, mpuBuf, mpuBegin, mpuNewEnd, mpuMarks, wild, stray, mpuTop,
                     mpuHigh, mpuWarned>>
      /\ \/ UNCHANGED <<mpuEback, mpuEgptr>> /\ mpuEback < mpuGptr
         \/ /\ mpuEback >= mpuGptr /\ mpuEback' = Max({mpuBegin, MpuRunBegin(mpuGptr - 1)})
            /\ mpuEgptr' = Min({MpuEnd, MpuRunEnd(mpuGptr - 1)})
  BY DEF MpuPutBack, MpuPutBackRun, MpuCalm, mpuDev, mpuRx, mpuGhosts
<1>2. /\ mpuGptr \in Int /\ mpuTop \in Int /\ mpuBegin \in Int /\ mpuEback \in Int /\ mpuEgptr \in Int /\ MpuEnd \in Int
      /\ mpuGptr <= mpuTop /\ mpuTop <= MpuEnd /\ mpuGptr <= mpuEgptr /\ mpuEgptr <= MpuEnd /\ mpuEback <= mpuGptr
      /\ MpuEnd' = MpuEnd
  BY <1>1, MpuTyped DEF MpuInv, MpuTypes, MpuPlaces, MpuRun, MpuEnd
<1>3. PICK g \in Int : g = mpuGptr - 1
  BY <1>2
<1>4. g < mpuGptr /\ g <= mpuTop /\ mpuBegin <= g
  BY <1>1, <1>2, <1>3
<1>5. /\ mpuEback' \in Int /\ mpuEback' <= g /\ (mpuEback' <= mpuBegin \/ (mpuEback' - 1) % MpuSlots = 0)
      /\ mpuEgptr' \in Int /\ g <= mpuEgptr' /\ mpuEgptr' <= mpuEgptr
  <2>1. CASE UNCHANGED <<mpuEback, mpuEgptr>> /\ mpuEback < mpuGptr
    <3>1. mpuEback <= g /\ g <= mpuEgptr
      BY <2>1, <1>2, <1>3
    <3>2. mpuEback <= mpuBegin \/ (mpuEback - 1) % MpuSlots = 0
      BY DEF MpuInv, MpuRun
    <3>3. mpuEgptr <= mpuEgptr
      BY <1>2
    <3>4. QED BY <2>1, <1>2, <3>1, <3>2, <3>3
  <2>2. CASE /\ mpuEback >= mpuGptr /\ mpuEback' = Max({mpuBegin, MpuRunBegin(mpuGptr - 1)})
             /\ mpuEgptr' = Min({MpuEnd, MpuRunEnd(mpuGptr - 1)})
    <3>1. mpuEback = mpuGptr /\ ~(mpuEback <= mpuBegin)
      BY <2>2, <1>1, <1>2
    <3>2. (mpuGptr - 1) % MpuSlots = 0
      BY <3>1 DEF MpuInv, MpuRun
    <3>3. MpuRunEnd(g) = mpuGptr
      BY <3>2, <1>2, <1>3, MpuRunBefore
    <3>4. mpuEgptr' = mpuGptr
      BY <2>2, <1>2, <1>3, <3>3, LowerOf
    <3>5. MpuRunBegin(g) \in Int /\ MpuRunBegin(g) <= g /\ (MpuRunBegin(g) - 1) % MpuSlots = 0
      BY <1>3, MpuRunHolds
    <3>6. mpuEback' = IF mpuBegin <= MpuRunBegin(g) THEN MpuRunBegin(g) ELSE mpuBegin
      BY <2>2, <1>2, <1>3, <3>5, UpperOf
    <3>7. CASE mpuBegin <= MpuRunBegin(g)
      <4>1. mpuEback' = MpuRunBegin(g)
        BY <3>6, <3>7
      <4>2. QED BY <4>1, <3>4, <3>5, <1>2, <1>4
    <3>8. CASE ~(mpuBegin <= MpuRunBegin(g))
      <4>1. mpuEback' = mpuBegin
        BY <3>6, <3>8
      <4>2. mpuBegin <= mpuBegin
        BY <1>2
      <4>3. QED BY <4>1, <4>2, <3>4, <1>2, <1>4
    <3>9. QED BY <3>7, <3>8
  <2>3. QED BY <1>1, <2>1, <2>2
<1>6. MpuTypes' /\ MpuPlaces' /\ MpuRun'
  <2>1. mpuGptr' = g
    BY <1>1, <1>3
  <2>2. MpuTypes'
    BY <1>1, <1>5, <2>1 DEF MpuInv, MpuTypes
  <2>3. MpuPlaces'
    <3>1. mpuEgptr' <= MpuEnd
      BY <1>2, <1>5
    <3>2. QED BY <1>1, <1>2, <1>4, <1>5, <2>1, <3>1 DEF MpuPlaces
  <2>4. MpuRun'
    BY <1>1, <1>4, <1>5, <2>1 DEF MpuRun
  <2>5. QED BY <2>2, <2>3, <2>4
<1>7. MpuMarksInOrder'
  <2>1. \A i \in DOMAIN mpuMarks : mpuEgptr' <= mpuMarks[i]
    <3> SUFFICES ASSUME NEW i \in DOMAIN mpuMarks PROVE mpuEgptr' <= mpuMarks[i]
      OBVIOUS
    <3>1. mpuEgptr <= mpuMarks[i] /\ mpuMarks[i] \in Nat
      BY MpuTyped DEF MpuInv, MpuMarksInOrder
    <3>2. QED BY <3>1, <1>2, <1>5
  <2>2. QED BY <1>1, <1>2, <2>1 DEF MpuInv, MpuMarksInOrder
<1>8. MpuStored' /\ MpuOpening'
  BY <1>1 DEF MpuInv, MpuStored, MpuLast, MpuTold, MpuOpening, Opened
<1>9. MpuComing'
  BY <1>1, MpuComingAlone DEF Opened
<1>10. QED BY <1>1, <1>6, <1>7, <1>8, <1>9 DEF MpuInv

\* underflow() looks at what is in the queue up to where the ring wraps, and ends the get area at the
\* first mark, raises it, or waits.
LEMMA MpuReadingKeeps == ASSUME MpuCalm, MpuInv, MpuUnderflow \/ MpuLookAhead PROVE MpuInv'
<1>1. UNCHANGED <<mpuReady, acks, input, mpuNextId, mpuBuf, mpuGptr, mpuMarks, wild, stray, mpuTop, mpuHigh, mpuWarned>>
  BY DEF MpuUnderflow, MpuLookAhead, mpuDev, mpuRx, mpuGhosts
<1>2. /\ mpuGptr \in Int /\ mpuEgptr \in Int /\ mpuNewEnd \in Int /\ mpuTop \in Nat /\ mpuGptr <= mpuTop
      /\ mpuTop <= MpuEnd /\ mpuGptr <= mpuEgptr /\ mpuEgptr <= MpuEnd /\ MpuEnd \in Nat /\ MpuEnd' = MpuEnd
      /\ mpuBegin \in Int /\ mpuBegin <= mpuGptr /\ mpuEback \in Int /\ mpuEback <= mpuGptr
  BY <1>1, MpuTyped DEF MpuInv, MpuTypes, MpuPlaces, MpuRun, MpuEnd
<1>3. Opened /\ Opened' /\ mpuPc' \in {"open", "looks", "waits", "raises"}
  BY DEF MpuUnderflow, MpuLookAhead, Opened
<1>4. MpuOpening' /\ MpuComing'
  BY <1>1, <1>3, MpuComingAlone DEF MpuInv, MpuOpening, Opened
<1>5. MpuStored'
  BY <1>1 DEF MpuInv, MpuStored, MpuLast, MpuTold
<1>7. CASE MpuUnderflow
  <2>1. mpuPc' = "looks" /\ mpuGptr = mpuEgptr /\ UNCHANGED <<mpuEback, mpuEgptr>>
    BY <1>7 DEF MpuUnderflow, MpuInv, MpuPlaces
  <2>2. mpuNewEnd' \in Int /\ mpuEgptr <= mpuNewEnd' /\ mpuNewEnd' <= MpuEnd
    <3>1. PICK e : e = MpuRunEnd(mpuGptr)
      OBVIOUS
    <3>2. e \in Int /\ mpuGptr < e
      BY <3>1, <1>2, MpuRunHolds
    <3>3. mpuNewEnd' = IF MpuEnd <= e THEN MpuEnd ELSE e
      BY <1>2, <1>7, <3>1, <3>2, LowerOf DEF MpuUnderflow
    <3>4. QED BY <3>2, <3>3, <1>2, <2>1
  <2>3. mpuBegin' \in Int /\ mpuBegin <= mpuBegin' /\ mpuBegin' <= mpuGptr
    <3>1. PICK b : b = mpuGptr - MpuPutback
      OBVIOUS
    <3>2. b \in Int /\ b <= mpuGptr
      BY <3>1, <1>2 DEF MpuCalm
    <3>3. mpuBegin' = IF mpuBegin <= b THEN b ELSE mpuBegin
      BY <1>2, <1>7, <3>1, <3>2, UpperOf DEF MpuUnderflow
    <3>4. QED BY <3>2, <3>3, <1>2
  <2>4. MpuTypes' /\ MpuPlaces'
    BY <1>1, <1>2, <2>1, <2>2, <2>3 DEF MpuInv, MpuTypes, MpuPlaces
  <2>5. MpuMarksInOrder'
    BY <1>1, <1>2, <2>1 DEF MpuInv, MpuMarksInOrder
  <2>6. MpuRun'
    <3>1. mpuEback <= mpuBegin => mpuEback <= mpuBegin'
      BY <1>2, <2>3
    <3>2. QED BY <3>1, <1>1, <2>1, <2>3 DEF MpuInv, MpuRun
  <2>7. QED BY <1>1, <1>4, <1>5, <2>4, <2>5, <2>6 DEF MpuInv
<1>8. CASE MpuLookAhead /\ mpuMarks # <<>> /\ mpuMarks[1] = mpuGptr
  <2>1. mpuPc = "looks" /\ mpuPc' = "raises" /\ UNCHANGED <<mpuBegin, mpuEback, mpuEgptr, mpuNewEnd>>
    BY <1>8 DEF MpuLookAhead
  <2>2. MpuTypes' /\ MpuPlaces'
    BY <1>1, <1>2, <1>8, <2>1 DEF MpuInv, MpuTypes, MpuPlaces
  <2>3. MpuMarksInOrder' /\ MpuRun'
    BY <1>1, <1>2, <2>1 DEF MpuInv, MpuMarksInOrder, MpuRun
  <2>4. QED BY <1>1, <1>4, <1>5, <2>2, <2>3 DEF MpuInv
<1>9. CASE MpuLookAhead /\ ~(mpuMarks # <<>> /\ mpuMarks[1] = mpuGptr)
  <2> DEFINE end == IF mpuMarks = <<>> THEN mpuNewEnd ELSE Min({mpuNewEnd, mpuMarks[1]})
  <2>1. /\ mpuPc = "looks" /\ mpuGptr = mpuEgptr /\ UNCHANGED <<mpuBegin, mpuNewEnd>>
        /\ mpuEgptr <= mpuNewEnd /\ mpuNewEnd <= MpuEnd
        /\ \/ mpuPc' = "waits" /\ UNCHANGED <<mpuEback, mpuEgptr>>
           \/ mpuPc' = "open" /\ mpuEgptr' = end /\ mpuEback' = Max({mpuBegin, MpuRunBegin(mpuGptr)})
    BY <1>9 DEF MpuLookAhead, MpuInv, MpuTypes, MpuPlaces
  <2>2. mpuMarks # <<>> => mpuEgptr <= mpuMarks[1] /\ mpuMarks[1] \in Nat
    BY MpuTyped DEF MpuInv, MpuMarksInOrder
  <2>3. end \in Int /\ mpuEgptr <= end /\ end <= mpuNewEnd /\ (mpuMarks # <<>> => end <= mpuMarks[1])
    <3>1. CASE mpuMarks = <<>>
      <4>1. mpuNewEnd <= mpuNewEnd
        BY <1>2
      <4>2. QED BY <3>1, <4>1, <1>2, <2>1
    <3>2. CASE mpuMarks # <<>>
      <4>1. end = IF mpuNewEnd <= mpuMarks[1] THEN mpuNewEnd ELSE mpuMarks[1]
        BY <3>2, <1>2, <2>2, LowerOf
      <4> HIDE DEF end
      <4>2. QED BY <4>1, <3>2, <1>2, <2>1, <2>2
    <3>3. QED BY <3>1, <3>2
  <2> HIDE DEF end
  <2>4. end <= MpuEnd
    BY <1>2, <2>1, <2>3
  <2>5. /\ mpuEgptr' \in {mpuEgptr, end} /\ mpuPc' \in {"open", "waits"}
        /\ mpuEback' \in Int /\ mpuEback' <= mpuGptr /\ (mpuEback' <= mpuBegin \/ (mpuEback' - 1) % MpuSlots = 0)
        /\ mpuPc' # "open" => mpuEgptr' = mpuEgptr
    <3>1. CASE mpuPc' = "waits" /\ UNCHANGED <<mpuEback, mpuEgptr>>
      <4>1. mpuEback <= mpuBegin \/ (mpuEback - 1) % MpuSlots = 0
        BY DEF MpuInv, MpuRun
      <4>2. QED BY <3>1, <4>1, <1>2
    <3>2. CASE mpuPc' = "open" /\ mpuEgptr' = end /\ mpuEback' = Max({mpuBegin, MpuRunBegin(mpuGptr)})
      <4>2. PICK b : b = MpuRunBegin(mpuGptr)
        OBVIOUS
      <4>3. b \in Int /\ b <= mpuGptr /\ (b - 1) % MpuSlots = 0
        BY <4>2, <1>2, MpuRunHolds
      <4>4. mpuEback' = IF mpuBegin <= b THEN b ELSE mpuBegin
        BY <3>2, <4>2, <4>3, <1>2, UpperOf
      <4>5. CASE mpuBegin <= b
        BY <3>2, <4>3, <4>4, <4>5, <1>2
      <4>6. CASE ~(mpuBegin <= b)
        <5>1. mpuEback' = mpuBegin /\ mpuBegin <= mpuBegin
          BY <4>4, <4>6, <1>2
        <5>2. QED BY <3>2, <5>1, <1>2
      <4>7. QED BY <4>5, <4>6
    <3>3. QED BY <2>1, <3>1, <3>2
  <2>6. MpuTypes' /\ MpuPlaces' /\ MpuRun'
    <3>1. mpuGptr <= mpuEgptr' /\ mpuEgptr' <= MpuEnd /\ mpuEgptr' \in Int
      BY <1>2, <2>1, <2>3, <2>4, <2>5
    <3>2. MpuTypes'
      BY <1>1, <1>2, <2>1, <2>5, <3>1 DEF MpuInv, MpuTypes
    <3>3. MpuPlaces'
      BY <1>1, <1>2, <2>1, <2>5, <3>1 DEF MpuInv, MpuPlaces
    <3>4. MpuRun'
      BY <1>1, <1>2, <2>1, <2>5 DEF MpuRun
    <3>5. QED BY <3>2, <3>3, <3>4
  <2>7. MpuMarksInOrder'
    <3>1. \A i \in DOMAIN mpuMarks : end <= mpuMarks[i]
      <4> SUFFICES ASSUME NEW i \in DOMAIN mpuMarks PROVE end <= mpuMarks[i]
        OBVIOUS
      <4>1. mpuMarks # <<>> /\ 1 \in DOMAIN mpuMarks /\ i \in 1 .. Len(mpuMarks) /\ Len(mpuMarks) \in Nat
        BY MpuTyped
      <4>2. i = 1 \/ mpuMarks[1] < mpuMarks[i]
        BY <4>1 DEF MpuInv, MpuMarksInOrder
      <4>3. mpuMarks[1] \in Nat /\ mpuMarks[i] \in Nat
        BY <4>1, MpuTyped
      <4>4. QED BY <4>1, <4>2, <4>3, <2>3
    <3>2. \A i \in DOMAIN mpuMarks : mpuEgptr' <= mpuMarks[i]
      BY <3>1, <2>5 DEF MpuInv, MpuMarksInOrder
    <3>3. QED BY <1>1, <1>2, <3>2 DEF MpuInv, MpuMarksInOrder
  <2>8. QED BY <1>1, <1>4, <1>5, <2>6, <2>7 DEF MpuInv
<1>10. QED BY <1>7, <1>8, <1>9

\* The mark raised is the one at the reader's place.
LEMMA MpuRaiseKeeps == ASSUME MpuInv, MpuRaise PROVE MpuInv'
<1> DEFINE m == mpuMarks'
           n == Len(mpuMarks)
<1>1. /\ mpuPc = "raises" /\ mpuPc' = "open" /\ mpuMarks # <<>> /\ mpuMarks' = Tail(mpuMarks) /\ mpuWarned' = TRUE
      /\ wild' = FALSE
      /\ UNCHANGED <<mpuReady, acks, input, mpuNextId, mpuBuf, mpuBegin, mpuEback, mpuGptr, mpuEgptr, mpuNewEnd, stray, mpuTop,
                     mpuHigh>>
  BY DEF MpuRaise, mpuDev, mpuArea
<1>2. mpuMarks[1] = mpuGptr /\ mpuGptr = mpuEgptr /\ mpuTop = mpuGptr
  <2>1. mpuMarks[1] = mpuGptr /\ mpuGptr = mpuEgptr
    BY <1>1 DEF MpuInv, MpuPlaces
  <2>2. mpuTop <= mpuMarks[1] /\ mpuGptr <= mpuTop /\ mpuGptr \in Int /\ mpuTop \in Int
    BY <1>1, MpuTyped DEF MpuInv, MpuTypes, MpuPlaces, MpuMarksInOrder
  <2>3. QED BY <2>1, <2>2
<1>3. /\ m \in Seq(Nat) /\ DOMAIN mpuMarks = 1 .. n /\ n \in Nat /\ n > 0
      /\ DOMAIN m = 1 .. n - 1 /\ \A i \in 1 .. n - 1 : m[i] = mpuMarks[i + 1]
  <2>1. mpuMarks \in Seq(Nat)
    BY DEF MpuInv, MpuTypes
  <2>2. m \in Seq(Nat) /\ Len(m) = n - 1 /\ \A i \in 1 .. Len(m) : m[i] = mpuMarks[i + 1]
    BY <1>1, <2>1, HeadTailProperties
  <2>3. DOMAIN m = 1 .. Len(m) /\ DOMAIN mpuMarks = 1 .. n /\ n \in Nat /\ n > 0
    BY <1>1, <2>1, <2>2, LenProperties, EmptySeq
  <2>4. QED BY <2>2, <2>3
<1> HIDE DEF m, n
<1>4. MpuTypes' /\ MpuOpening'
  BY <1>1, <1>3 DEF MpuInv, MpuTypes, MpuOpening, Opened, m
<1>5. MpuPlaces' /\ MpuEnd' = MpuEnd
  BY <1>1 DEF MpuInv, MpuPlaces, MpuEnd
<1>r. MpuRun'
  BY <1>1 DEF MpuInv, MpuRun
<1>6. MpuMarksInOrder'
  <2>1. \A i \in 1 .. n - 1 : i + 1 \in DOMAIN mpuMarks
    BY <1>3
  <2>2. \A i \in DOMAIN m : mpuEgptr <= m[i] /\ mpuTop <= m[i] /\ m[i] <= MpuEnd
    BY <1>3, <2>1 DEF MpuInv, MpuMarksInOrder
  <2>3. \A i, j \in DOMAIN m : i < j => m[i] < m[j]
    <3> SUFFICES ASSUME NEW i \in 1 .. n - 1, NEW j \in 1 .. n - 1, i < j PROVE mpuMarks[i + 1] < mpuMarks[j + 1]
      BY <1>3
    <3>1. i + 1 < j + 1
      BY <1>3
    <3>2. QED BY <3>1, <2>1 DEF MpuInv, MpuMarksInOrder
  <2>4. QED BY <1>1, <1>5, <2>2, <2>3 DEF MpuMarksInOrder, m
<1>7. \A p : MpuTold(p) => MpuTold(p)'
  <2> SUFFICES ASSUME NEW p, MpuTold(p) PROVE MpuTold(p)'
    OBVIOUS
  <2>1. CASE p = mpuTop
    BY <2>1, <1>1 DEF MpuTold
  <2>2. CASE p # mpuTop
    <3>1. PICK i \in DOMAIN mpuMarks : mpuMarks[i] = p
      BY <2>2 DEF MpuTold
    <3>2. i # 1
      BY <3>1, <2>2, <1>2
    <3>3. i - 1 \in DOMAIN m /\ m[i - 1] = mpuMarks[i]
      BY <3>1, <3>2, <1>3
    <3>4. QED BY <3>1, <3>3 DEF MpuTold, m
  <2>3. QED BY <2>1, <2>2
<1>8. (\A p : MpuLast(p)' = MpuLast(p)) /\ MpuLast(mpuTop)' = MpuLast(mpuTop) /\ MpuLast(MpuEnd)' = MpuLast(MpuEnd)
  BY <1>1 DEF MpuLast, MpuEnd
<1>9. MpuStored'
  BY <1>1, <1>7, <1>8 DEF MpuInv, MpuStored
<1>10. MpuComing'
  <2>1. MpuTold(MpuEnd) => MpuTold(MpuEnd)'
    BY <1>5, <1>7 DEF MpuTold
  <2>2. Opened /\ Opened'
    BY <1>1 DEF Opened
  <2>3. QED BY <1>1, <1>8, <2>1, <2>2 DEF MpuInv, MpuComing
<1>11. QED BY <1>1, <1>4, <1>5, <1>6, <1>r, <1>9, <1>10 DEF MpuInv

LEMMA MpuStart == MpuCalm /\ MpuInit => MpuInv
<1> SUFFICES ASSUME MpuCalm, MpuInit PROVE MpuInv
  OBVIOUS
<1>1. /\ mpuPc = "drain" /\ acks = 0 /\ mpuReady \in BOOLEAN /\ input = <<>> /\ mpuNextId = 1 /\ mpuBuf = <<>>
      /\ mpuBegin = 1 /\ mpuEback = 1 /\ mpuGptr = 1 /\ mpuEgptr = 1 /\ mpuNewEnd = 1 /\ mpuMarks = <<>> /\ mpuTop = 1 /\ mpuHigh = 0
      /\ mpuWarned = FALSE /\ stray = FALSE
  BY DEF MpuInit
<1>2. wild = FALSE
  BY DEF MpuInit, MpuCalm
<1>3. Len(mpuBuf) = 0 /\ MpuEnd = 1 /\ MpuLast(1) = 0 /\ DOMAIN mpuBuf = {} /\ DOMAIN mpuMarks = {} /\ ~Opened
  BY <1>1 DEF MpuEnd, MpuLast, Opened
<1>4. MpuTypes
  <2>1. input \in Seq(Nat) /\ mpuBuf \in Seq(Nat) /\ mpuMarks \in Seq(Nat)
    BY <1>1, EmptySeq
  <2>2. mpuNextId \in Nat /\ mpuBegin \in Int /\ mpuEback \in Int /\ mpuGptr \in Int /\ mpuEgptr \in Int /\ mpuNewEnd \in Int /\ mpuTop \in Nat /\ mpuTop > 0
        /\ mpuHigh \in Nat /\ acks \in Nat
    BY <1>1
  <2>3. QED BY <1>1, <1>2, <2>1, <2>2 DEF MpuTypes
<1>5. MpuOpening
  BY <1>1, <1>3 DEF MpuOpening
<1>6. MpuPlaces /\ MpuMarksInOrder /\ MpuRun /\ MpuStored /\ MpuComing
  BY <1>1, <1>3 DEF MpuPlaces, MpuMarksInOrder, MpuRun, MpuStored, MpuComing
<1>7. QED BY <1>1, <1>4, <1>5, <1>6 DEF MpuInv

LEMMA MpuInvNext == MpuCalm /\ MpuInv /\ [MpuNext]_mpuVars => MpuInv'
<1> SUFFICES ASSUME MpuCalm, MpuInv, [MpuNext]_mpuVars PROVE MpuInv'
  OBVIOUS
<1>1. CASE MpuAnswer \/ Midi
  BY <1>1, DeviceKeeps
<1>2. CASE MpuReset \/ Discard \/ EnterUart \/ ReceiveAck \/ Timeout
  BY <1>2, ConstructorKeeps
<1>3. CASE MpuReceive
  BY <1>3, ReceiveKeeps
<1>4. CASE BecomeReady \/ Transmit \/ MpuWrite \/ Sync \/ Synced \/ PutRealtime \/ SentRealtime \/ UNCHANGED mpuVars
  BY <1>4, TransmittingKeeps
<1>5. CASE MpuGetChar
  BY <1>5, MpuGetCharKeeps
<1>6. CASE MpuPutBack \/ MpuPutBackRun
  BY <1>6, MpuPutBackKeeps
<1>7. CASE MpuUnderflow \/ MpuLookAhead
  BY <1>7, MpuReadingKeeps
<1>8. CASE MpuRaise
  BY <1>8, MpuRaiseKeeps
<1>9. QED BY <1>1, <1>2, <1>3, <1>4, <1>5, <1>6, <1>7, <1>8 DEF MpuNext

\* A byte read for the first time is the next one, or the reader was told.
LEMMA MpuInvMarked ==
  MpuInv /\ [MpuNext]_mpuVars =>
    (mpuTop' # mpuTop => mpuBuf[mpuTop] > mpuHigh /\ (mpuBuf[mpuTop] # mpuHigh + 1 => mpuWarned))
<1> SUFFICES ASSUME MpuInv, [MpuNext]_mpuVars, mpuTop' # mpuTop
             PROVE  mpuBuf[mpuTop] > mpuHigh /\ (mpuBuf[mpuTop] # mpuHigh + 1 => mpuWarned)
  OBVIOUS
<1>1. MpuGetChar
  BY DEF MpuNext, mpuVars, mpuGhosts, BecomeReady, MpuAnswer, Midi, MpuReset, Discard, EnterUart, ReceiveAck, Timeout,
         MpuReceive, Transmit, MpuPutBack, MpuPutBackRun, MpuUnderflow, MpuLookAhead, MpuRaise, MpuWrite, Sync, Synced, PutRealtime,
         SentRealtime
<1>2. mpuGptr = mpuTop /\ mpuTop < mpuEgptr
  BY <1>1 DEF MpuGetChar, mpuGhosts
<1>3. mpuTop \in DOMAIN mpuBuf /\ mpuTop >= mpuTop
  <2>1. mpuTop \in Nat /\ mpuTop > 0 /\ mpuEgptr \in Int /\ mpuEgptr <= MpuEnd
    BY DEF MpuInv, MpuTypes, MpuPlaces
  <2>2. QED BY <2>1, <1>2, MpuTyped
<1>4. \A i \in DOMAIN mpuMarks : mpuMarks[i] # mpuTop
  BY <1>2, MpuTyped DEF MpuInv, MpuMarksInOrder, MpuTypes
<1>5. mpuHigh < mpuBuf[mpuTop] /\ (mpuBuf[mpuTop] # mpuHigh + 1 => mpuWarned)
  BY <1>3, <1>4 DEF MpuInv, MpuStored, MpuTold
<1>6. mpuBuf[mpuTop] \in Nat /\ mpuHigh \in Nat
  BY <1>3, MpuTyped DEF MpuInv, MpuTypes
<1>7. QED BY <1>5, <1>6

\* mpu401.cpp: the same for MIDI bytes and overflows; no ACK of the detection is read as a byte,
\* and no error is raised that nothing marked.
THEOREM MpuStays == MpuCalm => (MpuSpec => MpuLossesMarked)
<1> SUFFICES ASSUME MpuCalm PROVE MpuSpec => MpuLossesMarked
  OBVIOUS
<1>1. MpuInit => MpuInv
  BY MpuStart
<1>2. MpuInv /\ [MpuNext]_mpuVars => MpuInv'
  BY MpuInvNext
<1>3. MpuInv /\ [MpuNext]_mpuVars =>
        [mpuTop' # mpuTop => mpuBuf[mpuTop] > mpuHigh /\ (mpuBuf[mpuTop] # mpuHigh + 1 => mpuWarned)]_mpuVars
  BY MpuInvMarked
<1>4. MpuInv => ~stray /\ (mpuPc = "raises" => mpuMarks # <<>>)
  BY DEF MpuInv, MpuPlaces
<1>5. QED BY <1>1, <1>2, <1>3, <1>4, PTL DEF MpuSpec, MpuLossesMarked

\* rs232.cpp, mpu401.cpp: the program reads every byte received once and in order, and where some
\* are missing it is told before it reads on, for queues and FIFOs of every size: where it puts
\* back only what the queue holds, no handler comes between test and removal of a mark, the UART
\* tells of an overrun when do_sync() begins, and the MPU-401 has first_error null at first and is
\* sent no command before it acknowledged the last.
THEOREM LossesStayMarked == RsCalm /\ MpuCalm => (RsSpec /\ MpuSpec => LossesMarked)
BY RsStays, MpuStays DEF LossesMarked

-----------------------------------------------------------------------------
(* Opl: the inductive invariant                                            *)

\* No channel belongs to two pairs, and npos is none of them; no voice is of both kinds.
OplShape ==
    /\ Plain \in Seq(0 .. 254) /\ Pairs \in Seq((0 .. 254) \X (0 .. 254)) /\ Len(Pairs) < npos
    /\ \A p, q \in DOMAIN Pairs : \A i, j \in {1, 2} : Pairs[p][i] = Pairs[q][j] => p = q /\ i = j
    /\ \A i \in DOMAIN Plain : Plain[i] \notin Paired
    /\ Voices2 \cap Voices4 = {} /\ None \notin Voices
    /\ Priority \in [Voices -> Int] /\ OplMaxTime \in Nat

OplVoice == [owned : BOOLEAN, num : Nat, on : BOOLEAN, since : Int, off : Int]
OplState ==
    [ch2 : [Channels -> Voices2 \cup {None}], ch4 : [DOMAIN Pairs -> Voices4 \cup {None}],
     bits : [DOMAIN Pairs -> BOOLEAN], key : [Channels -> BOOLEAN], voice : [Voices -> OplVoice]]

\* NotesOwned but for the keys, of any state of the driver
OplOwned(s) ==
    /\ s \in OplState
    /\ \A v \in Voices2 : s.voice[v].owned => s.voice[v].num \in Channels /\ s.ch2[s.voice[v].num] = v
    /\ \A v \in Voices4 : s.voice[v].owned => s.voice[v].num \in DOMAIN Pairs /\ s.ch4[s.voice[v].num] = v
    /\ \A c \in Channels : s.ch2[c] # None => s.voice[s.ch2[c]].owned /\ s.voice[s.ch2[c]].num = c
    /\ \A p \in DOMAIN Pairs :
          s.ch4[p] # None => s.voice[s.ch4[p]].owned /\ s.voice[s.ch4[p]].num = p /\ s.bits[p]
    /\ \A p \in DOMAIN Pairs : s.bits[p] => s.ch2[Pairs[p][1]] = None /\ s.ch2[Pairs[p][2]] = None

Playing(s, v, c) == s.voice[v].owned /\ s.voice[v].on /\ Main(s, v) = c

\* The keys of all channels but these
OplKept(s, but) ==
    /\ OplOwned(s)
    /\ \A c \in Channels \ but : s.key[c] <=> \E v \in Voices : Playing(s, v, c)

OplInv == OplKept(chip, {}) /\ now \in Int

-----------------------------------------------------------------------------
\* The channels of a pair are two, and its own.
LEMMA PairChannels ==
  ASSUME OplShape, NEW p \in DOMAIN Pairs
  PROVE  /\ Pairs[p][1] \in Channels /\ Pairs[p][2] \in Channels /\ Pairs[p][1] # Pairs[p][2]
         /\ Pairs[p][1] \in Paired /\ Pairs[p][2] \in Paired
         /\ PairOf(Pairs[p][1]) = p /\ PairOf(Pairs[p][2]) = p
         /\ p \in Nat /\ p # npos
<1>1. /\ Pairs[p][1] \in Channels /\ Pairs[p][2] \in Channels
      /\ Pairs[p][1] \in Paired /\ Pairs[p][2] \in Paired
  BY DEF Channels, Paired
<1>2. \A q, r \in DOMAIN Pairs : \A i, j \in {1, 2} : Pairs[q][i] = Pairs[r][j] => q = r /\ i = j
  BY DEF OplShape
<1>3. Pairs[p][1] # Pairs[p][2]
  BY <1>2
<1>4. \A q \in DOMAIN Pairs : Pairs[p][1] \in {Pairs[q][1], Pairs[q][2]} <=> q = p
  BY <1>2
<1>5. \A q \in DOMAIN Pairs : Pairs[p][2] \in {Pairs[q][1], Pairs[q][2]} <=> q = p
  BY <1>2
<1>6. PairOf(Pairs[p][1]) = p
  BY <1>4 DEF PairOf
<1>7. PairOf(Pairs[p][2]) = p
  BY <1>5 DEF PairOf
<1>8. p \in Nat /\ p # npos
  <2>1. Pairs \in Seq((0 .. 254) \X (0 .. 254)) /\ Len(Pairs) < npos
    BY DEF OplShape
  <2>2. DOMAIN Pairs = 1 .. Len(Pairs) /\ Len(Pairs) \in Nat
    BY <2>1, LenProperties
  <2>3. QED BY <2>1, <2>2 DEF npos
<1>9. QED BY <1>1, <1>3, <1>6, <1>7, <1>8

\* A channel of a pair is one of its two.
LEMMA OfPair ==
  ASSUME OplShape, NEW c \in Paired
  PROVE  PairOf(c) \in DOMAIN Pairs /\ c \in {Pairs[PairOf(c)][1], Pairs[PairOf(c)][2]}
<1>1. PICK p \in DOMAIN Pairs : c \in {Pairs[p][1], Pairs[p][2]}
  BY DEF Paired
<1>2. QED BY <1>1 DEF PairOf

LEMMA ChannelNumbers == ASSUME OplShape, NEW c \in Channels PROVE c \in Nat /\ c # npos
<1>1. \A p \in DOMAIN Pairs : Pairs[p] \in (0 .. 254) \X (0 .. 254)
  <2> DEFINE two == (0 .. 254) \X (0 .. 254)
  <2>1. Pairs \in Seq(two)
    BY DEF OplShape
  <2> HIDE DEF two
  <2>2. DOMAIN Pairs = 1 .. Len(Pairs)
    BY <2>1, LenProperties
  <2>3. \A p \in DOMAIN Pairs : Pairs[p] \in two
    BY <2>1, <2>2, ElementOfSeq
  <2>4. QED BY <2>3 DEF two
<1>2. \A i \in DOMAIN Plain : Plain[i] \in 0 .. 254
  <2>1. Plain \in Seq(0 .. 254)
    BY DEF OplShape
  <2>2. DOMAIN Plain = 1 .. Len(Plain)
    BY <2>1, LenProperties
  <2>3. QED BY <2>1, <2>2, ElementOfSeq
<1>3. QED BY <1>1, <1>2 DEF Channels, Paired, npos

\* The channel that has a voice's key has it for no other voice, and the chip takes it.
LEMMA MainOwn ==
  ASSUME OplShape, NEW s, OplOwned(s), NEW v \in Voices, s.voice[v].owned
  PROVE  /\ Main(s, v) \in Channels
         /\ \A on : WriteKey(s, Main(s, v), on) = [s EXCEPT !.key[Main(s, v)] = on]
         /\ \A u \in Voices : s.voice[u].owned /\ Main(s, u) = Main(s, v) => u = v
<1>1. CASE v \in Voices2
  <2>1. /\ v \notin Voices4 /\ s.voice[v].num \in Channels /\ s.ch2[s.voice[v].num] = v /\ v # None
        /\ Main(s, v) = s.voice[v].num
    BY <1>1 DEF OplShape, OplOwned, Main, Voices
  <2>2. ~ \E p \in DOMAIN Pairs : s.voice[v].num = Pairs[p][2] /\ s.bits[p]
    BY <2>1 DEF OplOwned
  <2>3. \A u \in Voices : s.voice[u].owned /\ Main(s, u) = Main(s, v) => u = v
    <3> SUFFICES ASSUME NEW u \in Voices, s.voice[u].owned, Main(s, u) = Main(s, v) PROVE u = v
      OBVIOUS
    <3>1. CASE u \in Voices4
      <4>1. /\ s.voice[u].num \in DOMAIN Pairs /\ s.ch4[s.voice[u].num] = u /\ u # None
            /\ Main(s, u) = Pairs[s.voice[u].num][1]
        BY <3>1 DEF OplShape, OplOwned, Main, Voices
      <4>2. s.bits[s.voice[u].num]
        BY <4>1 DEF OplOwned
      <4>3. s.ch2[Pairs[s.voice[u].num][1]] = None
        BY <4>1, <4>2 DEF OplOwned
      <4>4. QED BY <2>1, <4>1, <4>3
    <3>2. CASE u \in Voices2
      <4>1. s.ch2[s.voice[u].num] = u /\ Main(s, u) = s.voice[u].num
        BY <3>2 DEF OplShape, OplOwned, Main, Voices
      <4>2. QED BY <2>1, <4>1
    <3>3. QED BY <3>1, <3>2 DEF Voices
  <2>4. QED BY <2>1, <2>2, <2>3 DEF WriteKey
<1>2. CASE v \in Voices4
  <2> DEFINE p == s.voice[v].num
  <2>1. p \in DOMAIN Pairs /\ s.ch4[p] = v /\ v # None /\ Main(s, v) = Pairs[p][1]
    BY <1>2 DEF OplShape, OplOwned, Main, Voices
  <2>2. s.bits[p]
    BY <2>1 DEF OplOwned
  <2>3. s.ch2[Pairs[p][1]] = None
    BY <2>1, <2>2 DEF OplOwned
  <2> HIDE DEF p
  <2>4. ~ \E q \in DOMAIN Pairs : Pairs[p][1] = Pairs[q][2] /\ s.bits[q]
    BY <2>1 DEF OplShape
  <2>5. \A u \in Voices : s.voice[u].owned /\ Main(s, u) = Main(s, v) => u = v
    <3> SUFFICES ASSUME NEW u \in Voices, s.voice[u].owned, Main(s, u) = Main(s, v) PROVE u = v
      OBVIOUS
    <3>1. CASE u \in Voices4
      <4>1. /\ s.voice[u].num \in DOMAIN Pairs /\ s.ch4[s.voice[u].num] = u
            /\ Main(s, u) = Pairs[s.voice[u].num][1]
        BY <3>1 DEF OplShape, OplOwned, Main, Voices
      <4>2. s.voice[u].num = p
        BY <2>1, <4>1 DEF OplShape
      <4>3. QED BY <2>1, <4>1, <4>2
    <3>2. CASE u \in Voices2
      <4>1. s.ch2[s.voice[u].num] = u /\ Main(s, u) = s.voice[u].num /\ u # None
        BY <3>2 DEF OplShape, OplOwned, Main, Voices
      <4>2. QED BY <2>1, <2>3, <4>1
    <3>3. QED BY <3>1, <3>2 DEF Voices
  <2>6. Main(s, v) \in Channels
    BY <2>1, PairChannels
  <2>7. QED BY <2>1, <2>4, <2>5, <2>6 DEF WriteKey
<1>3. QED BY <1>1, <1>2 DEF Voices

\* Only the keys changed, of v's channel as v is: then all keys are right.
LEMMA KeyTold ==
  ASSUME OplShape, NEW s, NEW v \in Voices, OplKept(s, {Main(s, v)}), s.voice[v].owned
  PROVE  OplKept([s EXCEPT !.key[Main(s, v)] = s.voice[v].on], {})
<1> DEFINE c == Main(s, v)
           t == [s EXCEPT !.key[c] = s.voice[v].on]
<1>1. c \in Channels /\ \A u \in Voices : s.voice[u].owned /\ Main(s, u) = c => u = v
  BY MainOwn DEF OplKept
<1>2. s \in OplState
  BY DEF OplKept, OplOwned
<1>3. /\ t.ch2 = s.ch2 /\ t.ch4 = s.ch4 /\ t.bits = s.bits /\ t.voice = s.voice
      /\ t.key = [s.key EXCEPT ![c] = s.voice[v].on] /\ t \in OplState
  BY <1>1, <1>2 DEF OplState, OplVoice
<1>4. OplOwned(t)
  BY <1>3 DEF OplKept, OplOwned
<1>5. \A u \in Voices : Main(t, u) = Main(s, u)
  BY <1>3 DEF Main
<1>6. \A d \in Channels : t.key[d] <=> \E u \in Voices : Playing(t, u, d)
  <2> SUFFICES ASSUME NEW d \in Channels PROVE t.key[d] <=> \E u \in Voices : Playing(t, u, d)
    OBVIOUS
  <2>1. (\E u \in Voices : Playing(t, u, d)) <=> \E u \in Voices : Playing(s, u, d)
    BY <1>3, <1>5 DEF Playing
  <2>2. CASE d = c
    <3>1. t.key[d] = s.voice[v].on
      BY <1>1, <1>2, <1>3, <2>2 DEF OplState
    <3>2. (\E u \in Voices : Playing(s, u, c)) <=> s.voice[v].on
      BY <1>1 DEF Playing
    <3>3. QED BY <2>1, <2>2, <3>1, <3>2
  <2>3. CASE d # c
    <3>1. t.key[d] = s.key[d]
      BY <1>1, <1>2, <1>3, <2>3 DEF OplState
    <3>2. s.key[d] <=> \E u \in Voices : Playing(s, u, d)
      BY <2>3 DEF OplKept
    <3>3. QED BY <2>1, <3>1, <3>2
  <2>4. QED BY <2>2, <2>3
<1>7. QED BY <1>4, <1>6 DEF OplKept

\* write() of a voice that has a channel, which changes at most that channel's key
LEMMA WriteKeeps ==
  ASSUME OplShape, NEW s, NEW v \in Voices, OplKept(s, {Main(s, v)}), s.voice[v].owned
  PROVE  /\ OplKept(WriteVoice(s, v), {}) /\ WriteVoice(s, v).voice = s.voice
<1>1. WriteVoice(s, v) = [s EXCEPT !.key[Main(s, v)] = s.voice[v].on]
  <2>1. \A on : WriteKey(s, Main(s, v), on) = [s EXCEPT !.key[Main(s, v)] = on]
    BY MainOwn DEF OplKept
  <2>2. CASE v \in Voices4
    <3> DEFINE p == s.voice[v].num
    <3>1. p \in DOMAIN Pairs /\ s.ch4[p] = v /\ v # None
      BY <2>2 DEF OplShape, OplKept, OplOwned, Voices
    <3>2. s.bits[p]
      BY <3>1 DEF OplKept, OplOwned
    <3>3. WriteKey(s, Pairs[p][2], s.voice[v].on) = s
      BY <3>1, <3>2 DEF WriteKey
    <3>4. QED BY <2>1, <2>2, <3>3 DEF WriteVoice
  <2>3. CASE v \notin Voices4
    BY <2>1, <2>3 DEF WriteVoice
  <2>4. QED BY <2>2, <2>3
<1>2. s \in OplState
  BY DEF OplKept, OplOwned
<1>3. [s EXCEPT !.key[Main(s, v)] = s.voice[v].on].voice = s.voice
  BY <1>2 DEF OplState
<1>4. QED BY <1>1, <1>3, KeyTold

\* remove() of a voice that has a channel
LEMMA RemoveKeeps ==
  ASSUME OplShape, NEW s, NEW v \in Voices, OplKept(s, {Main(s, v)}), s.voice[v].owned
  PROVE  LET r == RemoveVoice(s, v) IN
         /\ OplKept(r, {}) /\ r.voice = [s.voice EXCEPT ![v].owned = FALSE] /\ r.bits = s.bits
         /\ r.ch2 = IF v \in Voices2 THEN [s.ch2 EXCEPT ![s.voice[v].num] = None] ELSE s.ch2
         /\ r.ch4 = IF v \in Voices4 THEN [s.ch4 EXCEPT ![s.voice[v].num] = None] ELSE s.ch4
<1> DEFINE c == Main(s, v)
           n == s.voice[v].num
           t == [s EXCEPT !.key[c] = FALSE]
           r == RemoveVoice(s, v)
<1>0. v # None /\ (v \in Voices4 <=> v \notin Voices2)
  BY DEF OplShape, Voices
<1>1. /\ c \in Channels /\ WriteKey(s, c, FALSE) = t
      /\ \A u \in Voices : s.voice[u].owned /\ Main(s, u) = c => u = v
  <2>1. OplOwned(s)
    BY DEF OplKept
  <2>2. \A on : WriteKey(s, Main(s, v), on) = [s EXCEPT !.key[Main(s, v)] = on]
    BY <2>1, MainOwn
  <2>3. Main(s, v) \in Channels /\ \A u \in Voices : s.voice[u].owned /\ Main(s, u) = Main(s, v) => u = v
    BY <2>1, MainOwn
  <2>4. QED BY <2>2, <2>3
<1>2. s \in OplState
  BY DEF OplKept, OplOwned
<1>a. /\ t.ch2 = s.ch2 /\ t.ch4 = s.ch4 /\ t.bits = s.bits /\ t.voice = s.voice
      /\ t.key = [s.key EXCEPT ![c] = FALSE] /\ t \in OplState
  BY <1>1, <1>2 DEF OplState, OplVoice
<1>b. r = IF v \in Voices2 THEN [t EXCEPT !.ch2[n] = None, !.voice[v].owned = FALSE]
          ELSE [t EXCEPT !.ch4[n] = None, !.voice[v].owned = FALSE]
  <2>1. r = Detach(t, v)
    BY <1>0, <1>1 DEF RemoveVoice
  <2>2. t.voice = s.voice
    BY <1>a
  <2> HIDE DEF t, r
  <2>3. QED BY <2>1, <2>2 DEF Detach
<1> HIDE DEF t, r
<1>c. /\ r.voice = [t.voice EXCEPT ![v].owned = FALSE] /\ r.bits = t.bits /\ r.key = t.key
      /\ r.ch2 = IF v \in Voices2 THEN [t.ch2 EXCEPT ![n] = None] ELSE t.ch2
      /\ r.ch4 = IF v \in Voices4 THEN [t.ch4 EXCEPT ![n] = None] ELSE t.ch4
  BY <1>0, <1>a, <1>b DEF OplState
<1>3. /\ r.voice = [s.voice EXCEPT ![v].owned = FALSE] /\ r.bits = s.bits
      /\ r.key = [s.key EXCEPT ![c] = FALSE]
      /\ r.ch2 = IF v \in Voices2 THEN [s.ch2 EXCEPT ![n] = None] ELSE s.ch2
      /\ r.ch4 = IF v \in Voices4 THEN [s.ch4 EXCEPT ![n] = None] ELSE s.ch4
  BY <1>a, <1>c
<1>4. \A u \in Voices : /\ s.voice[u] \in OplVoice /\ r.voice[u] \in OplVoice
                        /\ r.voice[u].num = s.voice[u].num /\ r.voice[u].on = s.voice[u].on
                        /\ r.voice[u].owned <=> s.voice[u].owned /\ u # v
  <2>1. s.voice \in [Voices -> OplVoice]
    BY <1>2 DEF OplState
  <2>2. \A u \in Voices : r.voice[u] = IF u = v THEN [s.voice[u] EXCEPT !.owned = FALSE] ELSE s.voice[u]
    BY <1>3, <2>1
  <2>3. \A u \in Voices : s.voice[u] \in OplVoice
    BY <2>1
  <2>4. QED BY <2>2, <2>3 DEF OplVoice
<1>5. r \in OplState
  <2>1. r.voice \in [Voices -> OplVoice]
    <3>1. s.voice \in [Voices -> OplVoice]
      BY <1>2 DEF OplState
    <3>2. DOMAIN r.voice = Voices /\ r.voice = [u \in Voices |-> r.voice[u]]
      BY <1>3, <3>1
    <3>3. QED BY <1>4, <3>2
  <2>2. r.ch2 \in [Channels -> Voices2 \cup {None}]
    <3>1. s.ch2 \in [Channels -> Voices2 \cup {None}]
      BY <1>2 DEF OplState
    <3> HIDE DEF n
    <3>2. QED BY <1>3, <3>1
  <2>a. r.ch4 \in [DOMAIN Pairs -> Voices4 \cup {None}]
    <3>1. s.ch4 \in [DOMAIN Pairs -> Voices4 \cup {None}]
      BY <1>2 DEF OplState
    <3> HIDE DEF n
    <3>2. QED BY <1>3, <3>1
  <2>3. r.key \in [Channels -> BOOLEAN] /\ r.bits \in [DOMAIN Pairs -> BOOLEAN]
    BY <1>2, <1>3 DEF OplState
  <2>4. r = [ch2 |-> r.ch2, ch4 |-> r.ch4, bits |-> r.bits, key |-> r.key, voice |-> r.voice]
    <3>1. t = [ch2 |-> t.ch2, ch4 |-> t.ch4, bits |-> t.bits, key |-> t.key, voice |-> t.voice]
      BY <1>a DEF OplState
    <3>2. CASE v \in Voices2
      BY <1>b, <3>1, <3>2
    <3>3. CASE v \notin Voices2
      BY <1>b, <3>1, <3>3
    <3>4. QED BY <3>2, <3>3
  <2>5. QED BY <2>1, <2>2, <2>a, <2>3, <2>4 DEF OplState
<1>6. /\ \A d \in Channels : r.ch2[d] = IF s.ch2[d] = v THEN None ELSE s.ch2[d]
      /\ \A p \in DOMAIN Pairs : r.ch4[p] = IF s.ch4[p] = v THEN None ELSE s.ch4[p]
  <2>1. \A d \in Channels : s.ch2[d] = v <=> (v \in Voices2 /\ d = n)
    BY <1>0, <1>2 DEF OplKept, OplOwned, OplState
  <2>2. \A p \in DOMAIN Pairs : s.ch4[p] = v <=> (v \in Voices4 /\ p = n)
    BY <1>0, <1>2 DEF OplKept, OplOwned, OplState
  <2>3. QED BY <1>2, <1>3, <2>1, <2>2 DEF OplState
<1>7. OplOwned(r)
  <2>1. \A u \in Voices2 : r.voice[u].owned => r.voice[u].num \in Channels /\ r.ch2[r.voice[u].num] = u
    <3>1. \A u \in Voices2 : s.voice[u].owned => s.voice[u].num \in Channels /\ s.ch2[s.voice[u].num] = u
      BY DEF OplKept, OplOwned
    <3>2. QED BY <1>4, <1>6, <3>1 DEF Voices
  <2>2. \A u \in Voices4 : r.voice[u].owned => r.voice[u].num \in DOMAIN Pairs /\ r.ch4[r.voice[u].num] = u
    <3>1. \A u \in Voices4 : s.voice[u].owned => s.voice[u].num \in DOMAIN Pairs /\ s.ch4[s.voice[u].num] = u
      BY DEF OplKept, OplOwned
    <3>2. QED BY <1>4, <1>6, <3>1 DEF Voices
  <2>3. \A d \in Channels : r.ch2[d] # None => r.voice[r.ch2[d]].owned /\ r.voice[r.ch2[d]].num = d
    <3> SUFFICES ASSUME NEW d \in Channels, r.ch2[d] # None
                 PROVE  r.voice[r.ch2[d]].owned /\ r.voice[r.ch2[d]].num = d
      OBVIOUS
    <3>1. r.ch2[d] = s.ch2[d] /\ s.ch2[d] # None /\ s.ch2[d] # v /\ s.ch2[d] \in Voices
      BY <1>2, <1>6 DEF OplState, Voices
    <3>2. s.voice[s.ch2[d]].owned /\ s.voice[s.ch2[d]].num = d
      BY <3>1 DEF OplKept, OplOwned
    <3>3. QED BY <1>4, <3>1, <3>2
  <2>4. \A p \in DOMAIN Pairs :
           r.ch4[p] # None => r.voice[r.ch4[p]].owned /\ r.voice[r.ch4[p]].num = p /\ r.bits[p]
    <3> SUFFICES ASSUME NEW p \in DOMAIN Pairs, r.ch4[p] # None
                 PROVE  r.voice[r.ch4[p]].owned /\ r.voice[r.ch4[p]].num = p /\ r.bits[p]
      OBVIOUS
    <3>1. r.ch4[p] = s.ch4[p] /\ s.ch4[p] # None /\ s.ch4[p] # v /\ s.ch4[p] \in Voices
      BY <1>2, <1>6 DEF OplState, Voices
    <3>2. QED BY <1>3, <1>4, <3>1 DEF OplKept, OplOwned
  <2>5. \A p \in DOMAIN Pairs : r.bits[p] => r.ch2[Pairs[p][1]] = None /\ r.ch2[Pairs[p][2]] = None
    BY <1>3, <1>6, PairChannels DEF OplKept, OplOwned
  <2>6. QED BY <1>5, <2>1, <2>2, <2>3, <2>4, <2>5 DEF OplOwned
<1>8. \A d \in Channels : r.key[d] <=> \E u \in Voices : Playing(r, u, d)
  <2> SUFFICES ASSUME NEW d \in Channels PROVE r.key[d] <=> \E u \in Voices : Playing(r, u, d)
    OBVIOUS
  <2>1. \A u \in Voices : Playing(r, u, d) <=> Playing(s, u, d) /\ u # v
    BY <1>4 DEF Playing, Main
  <2>2. CASE d = c
    <3>1. ~ \E u \in Voices : Playing(r, u, d)
      BY <1>1, <2>1, <2>2 DEF Playing
    <3>2. ~ r.key[d]
      BY <1>1, <1>2, <1>3, <2>2 DEF OplState
    <3>3. QED BY <3>1, <3>2
  <2>3. CASE d # c
    <3>1. r.key[d] = s.key[d]
      BY <1>1, <1>2, <1>3, <2>3 DEF OplState
    <3>2. s.key[d] <=> \E u \in Voices : Playing(s, u, d)
      BY <2>3 DEF OplKept
    <3>3. ~ Playing(s, v, d)
      BY <2>3 DEF Playing
    <3>4. QED BY <2>1, <3>1, <3>2, <3>3
  <2>4. QED BY <2>2, <2>3
<1>9. OplKept(r, {})
  BY <1>7, <1>8 DEF OplKept
<1>10. QED BY <1>3, <1>9 DEF r

\* remove() of whatever is there
LEMMA RemoveAny ==
  ASSUME OplShape, NEW s, OplKept(s, {}), NEW u \in Voices \cup {None}, u # None => s.voice[u].owned
  PROVE  LET r == RemoveVoice(s, u) IN
         /\ OplKept(r, {}) /\ r.bits = s.bits
         /\ \A w \in Voices : r.voice[w].owned <=> s.voice[w].owned /\ w # u
         /\ \A c \in Channels : r.ch2[c] = IF s.ch2[c] = u THEN None ELSE s.ch2[c]
         /\ \A p \in DOMAIN Pairs : r.ch4[p] = IF s.ch4[p] = u THEN None ELSE s.ch4[p]
<1> DEFINE r == RemoveVoice(s, u)
<1>1. CASE u = None
  <2>1. r = s
    BY <1>1 DEF RemoveVoice
  <2>2. None \notin Voices
    BY DEF OplShape
  <2> HIDE DEF r
  <2>3. QED BY <1>1, <2>1, <2>2 DEF r
<1>2. CASE u # None
  <2>0. u \in Voices /\ s.voice[u].owned /\ s \in OplState /\ OplKept(s, {Main(s, u)})
    BY <1>2 DEF OplKept, OplOwned
  <2>a. u # None /\ (u \in Voices4 <=> u \notin Voices2)
    BY <2>0 DEF OplShape, Voices
  <2>1. /\ OplKept(r, {}) /\ r.voice = [s.voice EXCEPT ![u].owned = FALSE] /\ r.bits = s.bits
        /\ r.ch2 = IF u \in Voices2 THEN [s.ch2 EXCEPT ![s.voice[u].num] = None] ELSE s.ch2
        /\ r.ch4 = IF u \in Voices4 THEN [s.ch4 EXCEPT ![s.voice[u].num] = None] ELSE s.ch4
    BY <2>0, RemoveKeeps
  <2> HIDE DEF r
  <2>2. \A w \in Voices : r.voice[w].owned <=> s.voice[w].owned /\ w # u
    BY <2>0, <2>1 DEF OplState, OplVoice
  <2>3. \A c \in Channels : r.ch2[c] = IF s.ch2[c] = u THEN None ELSE s.ch2[c]
    <3>1. \A c \in Channels : s.ch2[c] = u <=> (u \in Voices2 /\ c = s.voice[u].num)
      BY <2>0, <2>a DEF OplKept, OplOwned, OplState
    <3>2. QED BY <2>0, <2>1, <3>1 DEF OplState
  <2>4. \A p \in DOMAIN Pairs : r.ch4[p] = IF s.ch4[p] = u THEN None ELSE s.ch4[p]
    <3>1. \A p \in DOMAIN Pairs : s.ch4[p] = u <=> (u \in Voices4 /\ p = s.voice[u].num)
      BY <2>0, <2>a DEF OplKept, OplOwned, OplState
    <3>2. QED BY <2>0, <2>1, <3>1 DEF OplState
  <2>5. QED BY <2>1, <2>2, <2>3, <2>4 DEF r
<1>3. QED BY <1>1, <1>2

\* start() of a voice that has a channel
LEMMA StartKeeps ==
  ASSUME OplShape, now \in Int, NEW off \in Int,
         NEW s, NEW v \in Voices, OplKept(s, {Main(s, v)}), s.voice[v].owned
  PROVE  LET r == StartVoice(s, v, off) IN
         OplKept(r, {}) /\ \A w \in Voices : r.voice[w].owned <=> s.voice[w].owned
<1> DEFINE x == [s EXCEPT !.voice[v].on = TRUE, !.voice[v].since = now, !.voice[v].off = off]
<1>1. s \in OplState
  BY DEF OplKept, OplOwned
<1> DEFINE vs == [s.voice EXCEPT ![v].on = TRUE, ![v].since = now, ![v].off = off]
<1>a. s.voice \in [Voices -> OplVoice]
  BY <1>1 DEF OplState
<1>b. vs \in [Voices -> OplVoice]
  BY <1>a DEF OplVoice
<1>c. \A u \in Voices : /\ vs[u].owned = s.voice[u].owned /\ vs[u].num = s.voice[u].num
                        /\ u # v => vs[u].on = s.voice[u].on
  BY <1>a DEF OplVoice
<1>d. x = [s EXCEPT !.voice = vs]
  BY <1>1 DEF OplState
<1>3. StartVoice(s, v, off) = WriteVoice(x, v)
  BY DEF StartVoice
<1> HIDE DEF vs, x
<1>e. /\ x.ch2 = s.ch2 /\ x.ch4 = s.ch4 /\ x.bits = s.bits /\ x.key = s.key /\ x \in OplState
      /\ x.voice = vs
  BY <1>1, <1>b, <1>d DEF OplState
<1>2. /\ x.ch2 = s.ch2 /\ x.ch4 = s.ch4 /\ x.bits = s.bits /\ x.key = s.key /\ x \in OplState
      /\ \A u \in Voices : /\ x.voice[u].owned = s.voice[u].owned /\ x.voice[u].num = s.voice[u].num
                           /\ u # v => x.voice[u].on = s.voice[u].on
  BY <1>c, <1>e
<1>4. \A u \in Voices : Main(x, u) = Main(s, u)
  BY <1>2 DEF Main
<1>5. OplOwned(x)
  <2>1. \A c \in Channels : s.ch2[c] \in Voices \cup {None}
    BY <1>1 DEF OplState, Voices
  <2>2. \A p \in DOMAIN Pairs : s.ch4[p] \in Voices \cup {None}
    BY <1>1 DEF OplState, Voices
  <2>3. QED BY <1>2, <2>1, <2>2 DEF OplKept, OplOwned, Voices
<1>6. \A c \in Channels \ {Main(x, v)} : x.key[c] <=> \E u \in Voices : Playing(x, u, c)
  <2> SUFFICES ASSUME NEW c \in Channels, c # Main(s, v)
               PROVE  x.key[c] <=> \E u \in Voices : Playing(x, u, c)
    BY <1>4
  <2>1. \A u \in Voices : Playing(x, u, c) <=> Playing(s, u, c)
    BY <1>2, <1>4 DEF Playing
  <2>2. s.key[c] <=> \E u \in Voices : Playing(s, u, c)
    BY DEF OplKept
  <2>3. QED BY <1>2, <2>1, <2>2
<1>7. OplKept(x, {Main(x, v)}) /\ x.voice[v].owned
  BY <1>2, <1>5, <1>6 DEF OplKept
<1>8. OplKept(WriteVoice(x, v), {}) /\ WriteVoice(x, v).voice = x.voice
  BY <1>7, WriteKeeps
<1>9. QED BY <1>2, <1>3, <1>8

\* A 2-operator voice takes a free channel.
LEMMA Attach2 ==
  ASSUME OplShape, NEW s, OplKept(s, {}), NEW v \in Voices2, ~s.voice[v].owned, NEW n \in Channels,
         s.ch2[n] = None, \A p \in DOMAIN Pairs : n \in {Pairs[p][1], Pairs[p][2]} => ~s.bits[p]
  PROVE  LET x == [s EXCEPT !.ch2[n] = v, !.voice[v].num = n, !.voice[v].owned = TRUE] IN
         /\ OplKept(x, {Main(x, v)}) /\ x.voice[v].owned
         /\ \A w \in Voices : x.voice[w].owned <=> s.voice[w].owned \/ w = v
<1> DEFINE x == [s EXCEPT !.ch2[n] = v, !.voice[v].num = n, !.voice[v].owned = TRUE]
<1>1. s \in OplState /\ OplOwned(s)
  BY DEF OplKept, OplOwned
<1>2. v \in Voices /\ v \notin Voices4 /\ v # None /\ n \in Nat
  BY ChannelNumbers DEF OplShape, Voices
<1>3. /\ x.ch2 = [s.ch2 EXCEPT ![n] = v] /\ x.ch4 = s.ch4 /\ x.bits = s.bits /\ x.key = s.key
      /\ \A u \in Voices \ {v} : x.voice[u] = s.voice[u]
      /\ x.voice[v].owned /\ x.voice[v].num = n /\ x \in OplState
  <2> DEFINE vs == [s.voice EXCEPT ![v].num = n, ![v].owned = TRUE]
             cs == [s.ch2 EXCEPT ![n] = v]
  <2>1. s.voice \in [Voices -> OplVoice] /\ s.ch2 \in [Channels -> Voices2 \cup {None}]
    BY <1>1 DEF OplState
  <2>2. vs \in [Voices -> OplVoice] /\ cs \in [Channels -> Voices2 \cup {None}]
    BY <1>2, <2>1 DEF OplVoice
  <2>3. vs[v].owned /\ vs[v].num = n /\ \A u \in Voices \ {v} : vs[u] = s.voice[u]
    BY <1>2, <2>1 DEF OplVoice
  <2>4. x = [s EXCEPT !.ch2 = cs, !.voice = vs]
    BY <1>1, ZenonT(60) DEF OplState
  <2> HIDE DEF vs, cs, x
  <2>5. x = [ch2 |-> cs, ch4 |-> s.ch4, bits |-> s.bits, key |-> s.key, voice |-> vs]
    BY <1>1, <2>4 DEF OplState
  <2>6. x \in OplState
    BY <1>1, <2>2, <2>5 DEF OplState
  <2>7. QED BY <2>3, <2>5, <2>6 DEF cs
<1> HIDE DEF x
<1>4. Main(x, v) = n /\ \A u \in Voices \ {v} : Main(x, u) = Main(s, u)
  BY <1>2, <1>3 DEF Main
<1>5. OplOwned(x)
  <2>1. \A u \in Voices2 : x.voice[u].owned => x.voice[u].num \in Channels /\ x.ch2[x.voice[u].num] = u
    <3> SUFFICES ASSUME NEW u \in Voices2, x.voice[u].owned
                 PROVE  x.voice[u].num \in Channels /\ x.ch2[x.voice[u].num] = u
      OBVIOUS
    <3>1. CASE u = v
      BY <1>1, <1>3, <3>1 DEF OplState
    <3>2. CASE u # v
      <4>1. x.voice[u] = s.voice[u] /\ u # None
        BY <1>3, <3>2 DEF Voices, OplShape
      <4>2. s.voice[u].num \in Channels /\ s.ch2[s.voice[u].num] = u
        BY <1>1, <4>1 DEF OplOwned
      <4>3. QED BY <1>1, <1>3, <4>1, <4>2 DEF OplState
    <3>3. QED BY <3>1, <3>2
  <2>2. \A u \in Voices4 : x.voice[u].owned => x.voice[u].num \in DOMAIN Pairs /\ x.ch4[x.voice[u].num] = u
    BY <1>1, <1>2, <1>3 DEF OplOwned, Voices
  <2>3. \A c \in Channels : x.ch2[c] # None => x.voice[x.ch2[c]].owned /\ x.voice[x.ch2[c]].num = c
    <3> SUFFICES ASSUME NEW c \in Channels, x.ch2[c] # None
                 PROVE  x.voice[x.ch2[c]].owned /\ x.voice[x.ch2[c]].num = c
      OBVIOUS
    <3>1. CASE c = n
      BY <1>1, <1>3, <3>1 DEF OplState
    <3>2. CASE c # n
      <4>1. x.ch2[c] = s.ch2[c] /\ s.ch2[c] \in Voices
        BY <1>1, <1>3, <3>2 DEF OplState, Voices
      <4>2. s.voice[s.ch2[c]].owned /\ s.voice[s.ch2[c]].num = c
        BY <1>1, <4>1 DEF OplOwned
      <4>3. s.ch2[c] # v
        BY <4>2
      <4>4. QED BY <1>3, <4>1, <4>2, <4>3
    <3>3. QED BY <3>1, <3>2
  <2>4. \A p \in DOMAIN Pairs :
           x.ch4[p] # None => x.voice[x.ch4[p]].owned /\ x.voice[x.ch4[p]].num = p /\ x.bits[p]
    <3> SUFFICES ASSUME NEW p \in DOMAIN Pairs, x.ch4[p] # None
                 PROVE  x.voice[x.ch4[p]].owned /\ x.voice[x.ch4[p]].num = p /\ x.bits[p]
      OBVIOUS
    <3>1. s.ch4[p] = x.ch4[p] /\ s.ch4[p] \in Voices \ {v}
      BY <1>1, <1>2, <1>3 DEF OplState, Voices
    <3>2. QED BY <1>1, <1>3, <3>1 DEF OplOwned
  <2>5. \A p \in DOMAIN Pairs : x.bits[p] => x.ch2[Pairs[p][1]] = None /\ x.ch2[Pairs[p][2]] = None
    <3> SUFFICES ASSUME NEW p \in DOMAIN Pairs, x.bits[p]
                 PROVE  x.ch2[Pairs[p][1]] = None /\ x.ch2[Pairs[p][2]] = None
      OBVIOUS
    <3>1. n # Pairs[p][1] /\ n # Pairs[p][2]
      BY <1>3
    <3>2. s.ch2[Pairs[p][1]] = None /\ s.ch2[Pairs[p][2]] = None
      BY <1>1, <1>3 DEF OplOwned
    <3>3. QED BY <1>1, <1>3, <3>1, <3>2, PairChannels DEF OplState
  <2>6. QED BY <1>3, <2>1, <2>2, <2>3, <2>4, <2>5 DEF OplOwned
<1>6. \A c \in Channels \ {Main(x, v)} : x.key[c] <=> \E u \in Voices : Playing(x, u, c)
  <2> SUFFICES ASSUME NEW c \in Channels, c # n
               PROVE  x.key[c] <=> \E u \in Voices : Playing(x, u, c)
    BY <1>4
  <2>1. \A u \in Voices : Playing(x, u, c) <=> Playing(s, u, c)
    <3> SUFFICES ASSUME NEW u \in Voices PROVE Playing(x, u, c) <=> Playing(s, u, c)
      OBVIOUS
    <3>1. CASE u = v
      BY <1>4, <3>1 DEF Playing
    <3>2. CASE u # v
      BY <1>3, <1>4, <3>2 DEF Playing
    <3>3. QED BY <3>1, <3>2
  <2>2. s.key[c] <=> \E u \in Voices : Playing(s, u, c)
    BY DEF OplKept
  <2>3. QED BY <1>3, <2>1, <2>2
<1>7. OplKept(x, {Main(x, v)}) /\ x.voice[v].owned
  BY <1>3, <1>5, <1>6 DEF OplKept
<1>8. \A w \in Voices : x.voice[w].owned <=> s.voice[w].owned \/ w = v
  BY <1>3
<1>9. QED BY <1>7, <1>8 DEF x

\* A 4-operator voice takes a pair of free channels.
LEMMA Attach4 ==
  ASSUME OplShape, NEW s, OplKept(s, {}), NEW v \in Voices4, ~s.voice[v].owned, NEW p \in DOMAIN Pairs,
         s.ch4[p] = None, s.bits[p]
  PROVE  LET x == [s EXCEPT !.ch4[p] = v, !.voice[v].num = p, !.voice[v].owned = TRUE] IN
         /\ OplKept(x, {Main(x, v)}) /\ x.voice[v].owned
         /\ \A w \in Voices : x.voice[w].owned <=> s.voice[w].owned \/ w = v
<1> DEFINE x == [s EXCEPT !.ch4[p] = v, !.voice[v].num = p, !.voice[v].owned = TRUE]
<1>1. s \in OplState /\ OplOwned(s)
  BY DEF OplKept, OplOwned
<1>2. v \in Voices /\ v \notin Voices2 /\ v # None /\ p \in Nat
  BY PairChannels DEF OplShape, Voices
<1>3. /\ x.ch2 = s.ch2 /\ x.ch4 = [s.ch4 EXCEPT ![p] = v] /\ x.bits = s.bits
      /\ x.key = s.key /\ x.voice[v].owned /\ x.voice[v].num = p /\ x \in OplState
      /\ \A u \in Voices \ {v} : x.voice[u] = s.voice[u]
  <2> DEFINE vs == [s.voice EXCEPT ![v].num = p, ![v].owned = TRUE]
             cs == [s.ch4 EXCEPT ![p] = v]
  <2>1. s.voice \in [Voices -> OplVoice] /\ s.ch4 \in [DOMAIN Pairs -> Voices4 \cup {None}]
    BY <1>1 DEF OplState
  <2>2. vs \in [Voices -> OplVoice] /\ cs \in [DOMAIN Pairs -> Voices4 \cup {None}]
    BY <1>2, <2>1 DEF OplVoice
  <2>3. vs[v].owned /\ vs[v].num = p /\ \A u \in Voices \ {v} : vs[u] = s.voice[u]
    BY <1>2, <2>1 DEF OplVoice
  <2>4. x = [s EXCEPT !.ch4 = cs, !.voice = vs]
    BY <1>1, ZenonT(60) DEF OplState
  <2> HIDE DEF vs, cs, x
  <2>5. x = [ch2 |-> s.ch2, ch4 |-> cs, bits |-> s.bits, key |-> s.key, voice |-> vs]
    BY <1>1, <2>4 DEF OplState
  <2>6. x \in OplState
    BY <1>1, <2>2, <2>5 DEF OplState
  <2>7. QED BY <2>3, <2>5, <2>6 DEF cs
<1> HIDE DEF x
<1>4. Main(x, v) = Pairs[p][1] /\ \A u \in Voices \ {v} : Main(x, u) = Main(s, u)
  BY <1>2, <1>3 DEF Main
<1>5. OplOwned(x)
  <2>1. \A u \in Voices2 : x.voice[u].owned => x.voice[u].num \in Channels /\ x.ch2[x.voice[u].num] = u
    BY <1>1, <1>2, <1>3 DEF OplOwned, Voices
  <2>2. \A u \in Voices4 : x.voice[u].owned => x.voice[u].num \in DOMAIN Pairs /\ x.ch4[x.voice[u].num] = u
    <3> SUFFICES ASSUME NEW u \in Voices4, x.voice[u].owned
                 PROVE  x.voice[u].num \in DOMAIN Pairs /\ x.ch4[x.voice[u].num] = u
      OBVIOUS
    <3>1. CASE u = v
      BY <1>1, <1>3, <3>1 DEF OplState
    <3>2. CASE u # v
      <4>1. x.voice[u] = s.voice[u] /\ u # None
        BY <1>3, <3>2 DEF Voices, OplShape
      <4>2. s.voice[u].num \in DOMAIN Pairs /\ s.ch4[s.voice[u].num] = u
        BY <1>1, <4>1 DEF OplOwned
      <4>3. QED BY <1>1, <1>3, <4>1, <4>2 DEF OplState
    <3>3. QED BY <3>1, <3>2
  <2>3. \A c \in Channels : x.ch2[c] # None => x.voice[x.ch2[c]].owned /\ x.voice[x.ch2[c]].num = c
    <3> SUFFICES ASSUME NEW c \in Channels, x.ch2[c] # None
                 PROVE  x.voice[x.ch2[c]].owned /\ x.voice[x.ch2[c]].num = c
      OBVIOUS
    <3>1. s.ch2[c] = x.ch2[c] /\ s.ch2[c] \in Voices \ {v}
      BY <1>1, <1>2, <1>3 DEF OplState, Voices
    <3>2. QED BY <1>1, <1>3, <3>1 DEF OplOwned
  <2>4. \A q \in DOMAIN Pairs :
           x.ch4[q] # None => x.voice[x.ch4[q]].owned /\ x.voice[x.ch4[q]].num = q /\ x.bits[q]
    <3> SUFFICES ASSUME NEW q \in DOMAIN Pairs, x.ch4[q] # None
                 PROVE  x.voice[x.ch4[q]].owned /\ x.voice[x.ch4[q]].num = q /\ x.bits[q]
      OBVIOUS
    <3>1. CASE q = p
      BY <1>1, <1>3, <3>1 DEF OplState
    <3>2. CASE q # p
      <4>1. x.ch4[q] = s.ch4[q] /\ s.ch4[q] \in Voices /\ x.bits[q] = s.bits[q]
        BY <1>1, <1>3, <3>2 DEF OplState, Voices
      <4>2. s.voice[s.ch4[q]].owned /\ s.voice[s.ch4[q]].num = q /\ s.bits[q]
        BY <1>1, <4>1 DEF OplOwned
      <4>3. s.ch4[q] # v
        BY <4>2
      <4>4. QED BY <1>3, <4>1, <4>2, <4>3
    <3>3. QED BY <3>1, <3>2
  <2>5. \A q \in DOMAIN Pairs : x.bits[q] => x.ch2[Pairs[q][1]] = None /\ x.ch2[Pairs[q][2]] = None
    BY <1>1, <1>3 DEF OplOwned
  <2>6. QED BY <1>3, <2>1, <2>2, <2>3, <2>4, <2>5 DEF OplOwned
<1>6. \A c \in Channels \ {Main(x, v)} : x.key[c] <=> \E u \in Voices : Playing(x, u, c)
  <2> SUFFICES ASSUME NEW c \in Channels, c # Main(x, v)
               PROVE  x.key[c] <=> \E u \in Voices : Playing(x, u, c)
    BY <1>4
  <2>1. \A u \in Voices : Playing(x, u, c) <=> Playing(s, u, c)
    <3> SUFFICES ASSUME NEW u \in Voices PROVE Playing(x, u, c) <=> Playing(s, u, c)
      OBVIOUS
    <3>1. CASE u = v
      BY <3>1 DEF Playing
    <3>2. CASE u # v
      BY <1>3, <1>4, <3>2 DEF Playing
    <3>3. QED BY <3>1, <3>2
  <2>2. s.key[c] <=> \E u \in Voices : Playing(s, u, c)
    BY DEF OplKept
  <2>3. QED BY <1>3, <2>1, <2>2
<1>7. OplKept(x, {Main(x, v)}) /\ x.voice[v].owned
  BY <1>3, <1>5, <1>6 DEF OplKept
<1>8. \A w \in Voices : x.voice[w].owned <=> s.voice[w].owned \/ w = v
  BY <1>3
<1>9. QED BY <1>7, <1>8 DEF x

\* insert_at() removes only what is in the way of the voice.
LEMMA Insert2 ==
  ASSUME OplShape, now \in Int, NEW off \in Int,
         NEW s, OplKept(s, {}), NEW v \in Voices2, ~s.voice[v].owned, NEW n \in Channels
  PROVE  LET r == InsertAt2(s, v, n, off) IN
         /\ OplKept(r, {})
         /\ \A w \in Voices : s.voice[w].owned /\ ~r.voice[w].owned =>
                w = s.ch2[n] \/ (n \in Paired /\ w = s.ch4[PairOf(n)])
<1> DEFINE a == RemoveVoice(s, s.ch2[n])
           q == PairOf(n)
           b4 == RemoveVoice(a, a.ch4[q])
           b == IF n \notin Paired THEN a ELSE [b4 EXCEPT !.bits[q] = FALSE]
           x == [b EXCEPT !.ch2[n] = v, !.voice[v].num = n, !.voice[v].owned = TRUE]
           r == StartVoice(x, v, off)
<1>0. InsertAt2(s, v, n, off) = r
  BY DEF InsertAt2
<1>1. s \in OplState /\ None \notin Voices /\ v \in Voices
  BY DEF OplKept, OplOwned, OplShape, Voices
<1>2. /\ OplKept(a, {}) /\ a.ch2[n] = None
      /\ \A w \in Voices : a.voice[w].owned <=> s.voice[w].owned /\ w # s.ch2[n]
      /\ \A p \in DOMAIN Pairs : a.ch4[p] = IF s.ch4[p] = s.ch2[n] THEN None ELSE s.ch4[p]
  <2>1. s.ch2[n] \in Voices \cup {None} /\ (s.ch2[n] # None => s.voice[s.ch2[n]].owned)
    BY <1>1 DEF OplKept, OplOwned, OplState, Voices
  <2>2. QED BY <2>1, RemoveAny
<1>3. /\ OplKept(b, {}) /\ b.ch2[n] = None
      /\ \A p \in DOMAIN Pairs : n \in {Pairs[p][1], Pairs[p][2]} => ~b.bits[p]
      /\ \A w \in Voices : b.voice[w].owned => a.voice[w].owned
      /\ \A w \in Voices : a.voice[w].owned /\ ~b.voice[w].owned => n \in Paired /\ w = a.ch4[q]
  <2>1. CASE n \notin Paired
    <3>1. b = a
      BY <2>1
    <3>2. \A p \in DOMAIN Pairs : n \notin {Pairs[p][1], Pairs[p][2]}
      BY <2>1 DEF Paired
    <3> HIDE DEF a, b
    <3>3. QED BY <1>2, <3>1, <3>2
  <2>2. CASE n \in Paired
    <3>1. q \in DOMAIN Pairs /\ n \in {Pairs[q][1], Pairs[q][2]}
      BY <2>2, OfPair
    <3>2. a.ch4[q] \in Voices \cup {None} /\ (a.ch4[q] # None => a.voice[a.ch4[q]].owned)
      <4>1. a \in OplState /\ OplOwned(a)
        BY <1>2 DEF OplKept, OplOwned
      <4> HIDE DEF a, q
      <4>2. QED BY <3>1, <4>1 DEF OplOwned, OplState, Voices
    <3>3. /\ OplKept(b4, {}) /\ b4.bits = a.bits
          /\ \A w \in Voices : b4.voice[w].owned <=> a.voice[w].owned /\ w # a.ch4[q]
          /\ \A c \in Channels : b4.ch2[c] = IF a.ch2[c] = a.ch4[q] THEN None ELSE a.ch2[c]
          /\ \A p \in DOMAIN Pairs : b4.ch4[p] = IF a.ch4[p] = a.ch4[q] THEN None ELSE a.ch4[p]
      <4> HIDE DEF a, q
      <4>1. QED BY <1>2, <3>2, RemoveAny
    <3>4. b = [b4 EXCEPT !.bits[q] = FALSE]
      BY <2>2
    <3> HIDE DEF a, q, b4, b
    <3>5. b4 \in OplState /\ OplOwned(b4)
      BY <3>3 DEF OplKept, OplOwned
    <3>6. /\ b.ch2 = b4.ch2 /\ b.ch4 = b4.ch4 /\ b.voice = b4.voice /\ b.key = b4.key
          /\ b.bits = [b4.bits EXCEPT ![q] = FALSE] /\ b \in OplState
      BY <3>1, <3>4, <3>5 DEF OplState
    <3>7. b4.ch4[q] = None
      BY <3>1, <3>3
    <3>8. OplOwned(b)
      BY <3>1, <3>5, <3>6, <3>7 DEF OplOwned, OplState
    <3>9. \A u \in Voices : Main(b, u) = Main(b4, u)
      BY <3>6 DEF Main
    <3>10. OplKept(b, {})
      <4>1. \A c \in Channels : b4.key[c] <=> \E u \in Voices : Playing(b4, u, c)
        BY <3>3 DEF OplKept
      <4>2. \A c \in Channels : \A u \in Voices : Playing(b, u, c) <=> Playing(b4, u, c)
        BY <3>6, <3>9 DEF Playing
      <4>3. QED BY <3>6, <3>8, <4>1, <4>2 DEF OplKept
    <3>11. \A p \in DOMAIN Pairs : n \in {Pairs[p][1], Pairs[p][2]} => p = q
      BY <3>1 DEF OplShape
    <3>12. ~b.bits[q]
      BY <3>1, <3>5, <3>6 DEF OplState
    <3>13. QED BY <1>2, <2>2, <3>3, <3>6, <3>10, <3>11, <3>12
  <2>3. QED BY <2>1, <2>2
<1>4. ~b.voice[v].owned
  BY <1>1, <1>2, <1>3
<1>5. /\ OplKept(x, {Main(x, v)}) /\ x.voice[v].owned
      /\ \A w \in Voices : x.voice[w].owned <=> b.voice[w].owned \/ w = v
  <2> HIDE DEF b
  <2>1. QED BY <1>3, <1>4, Attach2
<1>6. OplKept(r, {}) /\ \A w \in Voices : r.voice[w].owned <=> x.voice[w].owned
  <2> HIDE DEF x
  <2>1. QED BY <1>1, <1>5, StartKeeps
<1>7. n \in Paired => q \in DOMAIN Pairs
  BY OfPair
<1> HIDE DEF a, b, x, r, q
<1>8. \A w \in Voices : s.voice[w].owned /\ ~r.voice[w].owned =>
         w = s.ch2[n] \/ (n \in Paired /\ w = s.ch4[q])
  BY <1>1, <1>2, <1>3, <1>5, <1>6, <1>7
<1>9. QED BY <1>0, <1>6, <1>8 DEF q

LEMMA Insert4 ==
  ASSUME OplShape, now \in Int, NEW off \in Int,
         NEW s, OplKept(s, {}), NEW v \in Voices4, ~s.voice[v].owned, NEW p \in DOMAIN Pairs
  PROVE  LET r == InsertAt4(s, v, p, off) IN
         /\ OplKept(r, {})
         /\ \A w \in Voices : s.voice[w].owned /\ ~r.voice[w].owned =>
                w \in {s.ch4[p], s.ch2[Pairs[p][1]], s.ch2[Pairs[p][2]]}
<1> DEFINE one == Pairs[p][1]
           two == Pairs[p][2]
           a == RemoveVoice(s, s.ch4[p])
           b == RemoveVoice(a, a.ch2[one])
           d == RemoveVoice(b, b.ch2[two])
           c == [d EXCEPT !.bits[p] = TRUE]
           x == [c EXCEPT !.ch4[p] = v, !.voice[v].num = p, !.voice[v].owned = TRUE]
           r == StartVoice(x, v, off)
<1>0. InsertAt4(s, v, p, off) = r
  BY DEF InsertAt4
<1>1. None \notin Voices /\ v \in Voices /\ one \in Channels /\ two \in Channels
  BY PairChannels DEF OplShape, Voices
<1>2. ASSUME NEW t, OplKept(t, {})
      PROVE  /\ t \in OplState
             /\ \A e \in Channels : /\ t.ch2[e] \in Voices \cup {None}
                                    /\ t.ch2[e] # None => t.voice[t.ch2[e]].owned
             /\ \A q \in DOMAIN Pairs : /\ t.ch4[q] \in Voices \cup {None}
                                        /\ t.ch4[q] # None => t.voice[t.ch4[q]].owned
  BY <1>2 DEF OplKept, OplOwned, OplState, Voices
<1> HIDE DEF one, two
<1>3. /\ OplKept(a, {}) /\ a.ch4[p] = None
      /\ \A w \in Voices : a.voice[w].owned <=> s.voice[w].owned /\ w # s.ch4[p]
      /\ \A e \in Channels : a.ch2[e] = IF s.ch2[e] = s.ch4[p] THEN None ELSE s.ch2[e]
  <2>1. s.ch4[p] \in Voices \cup {None} /\ (s.ch4[p] # None => s.voice[s.ch4[p]].owned)
    BY <1>2
  <2>2. QED BY <2>1, RemoveAny
<1> HIDE DEF a
<1>4. /\ OplKept(b, {}) /\ b.ch4[p] = None /\ b.ch2[one] = None
      /\ \A w \in Voices : b.voice[w].owned <=> a.voice[w].owned /\ w # a.ch2[one]
      /\ \A e \in Channels : b.ch2[e] = IF a.ch2[e] = a.ch2[one] THEN None ELSE a.ch2[e]
  <2>1. a.ch2[one] \in Voices \cup {None} /\ (a.ch2[one] # None => a.voice[a.ch2[one]].owned)
    BY <1>1, <1>2, <1>3
  <2>2. /\ OplKept(b, {})
        /\ \A w \in Voices : b.voice[w].owned <=> a.voice[w].owned /\ w # a.ch2[one]
        /\ \A e \in Channels : b.ch2[e] = IF a.ch2[e] = a.ch2[one] THEN None ELSE a.ch2[e]
        /\ \A q \in DOMAIN Pairs : b.ch4[q] = IF a.ch4[q] = a.ch2[one] THEN None ELSE a.ch4[q]
    BY <1>3, <2>1, RemoveAny
  <2> HIDE DEF b
  <2>3. QED BY <1>1, <1>3, <2>2
<1> HIDE DEF b
<1>5. /\ OplKept(d, {}) /\ d.ch4[p] = None /\ d.ch2[one] = None /\ d.ch2[two] = None
      /\ \A w \in Voices : d.voice[w].owned <=> b.voice[w].owned /\ w # b.ch2[two]
  <2>1. b.ch2[two] \in Voices \cup {None} /\ (b.ch2[two] # None => b.voice[b.ch2[two]].owned)
    BY <1>1, <1>2, <1>4
  <2>2. /\ OplKept(d, {})
        /\ \A w \in Voices : d.voice[w].owned <=> b.voice[w].owned /\ w # b.ch2[two]
        /\ \A e \in Channels : d.ch2[e] = IF b.ch2[e] = b.ch2[two] THEN None ELSE b.ch2[e]
        /\ \A q \in DOMAIN Pairs : d.ch4[q] = IF b.ch4[q] = b.ch2[two] THEN None ELSE b.ch4[q]
    BY <1>4, <2>1, RemoveAny
  <2> HIDE DEF d
  <2>3. QED BY <1>1, <1>4, <2>2
<1> HIDE DEF d
<1>6. d \in OplState /\ OplOwned(d)
  BY <1>5 DEF OplKept, OplOwned
<1>7. /\ c.ch2 = d.ch2 /\ c.ch4 = d.ch4 /\ c.voice = d.voice /\ c.key = d.key
      /\ c.bits = [d.bits EXCEPT ![p] = TRUE] /\ c \in OplState
  BY <1>6 DEF OplState
<1> HIDE DEF c
<1>8. OplOwned(c)
  <2>1. \A q \in DOMAIN Pairs : c.bits[q] <=> d.bits[q] \/ q = p
    BY <1>6, <1>7 DEF OplState
  <2>2. \A q \in DOMAIN Pairs : c.bits[q] => c.ch2[Pairs[q][1]] = None /\ c.ch2[Pairs[q][2]] = None
    BY <1>5, <1>6, <1>7, <2>1 DEF OplOwned, one, two
  <2>3. QED BY <1>6, <1>7, <2>1, <2>2 DEF OplOwned
<1>9. OplKept(c, {})
  <2>1. \A u \in Voices : Main(c, u) = Main(d, u)
    BY <1>7 DEF Main
  <2>2. \A e \in Channels : d.key[e] <=> \E u \in Voices : Playing(d, u, e)
    BY <1>5 DEF OplKept
  <2>3. \A e \in Channels : \A u \in Voices : Playing(c, u, e) <=> Playing(d, u, e)
    BY <1>7, <2>1 DEF Playing
  <2>4. QED BY <1>7, <1>8, <2>2, <2>3 DEF OplKept
<1>10. c.ch4[p] = None /\ c.bits[p] /\ ~c.voice[v].owned
  BY <1>1, <1>3, <1>4, <1>5, <1>6, <1>7 DEF OplState
<1>11. /\ OplKept(x, {Main(x, v)}) /\ x.voice[v].owned
       /\ \A w \in Voices : x.voice[w].owned <=> c.voice[w].owned \/ w = v
  BY <1>9, <1>10, Attach4
<1>12. OplKept(r, {}) /\ \A w \in Voices : r.voice[w].owned <=> x.voice[w].owned
  <2> HIDE DEF x
  <2>1. QED BY <1>1, <1>11, StartKeeps
<1> HIDE DEF x, r
<1>13. \A w \in Voices : s.voice[w].owned /\ ~r.voice[w].owned =>
          w \in {s.ch4[p], s.ch2[one], s.ch2[two]}
  <2> SUFFICES ASSUME NEW w \in Voices, s.voice[w].owned, ~r.voice[w].owned
               PROVE  w \in {s.ch4[p], s.ch2[one], s.ch2[two]}
    OBVIOUS
  <2>1. ~d.voice[w].owned
    BY <1>7, <1>11, <1>12
  <2>2. w = s.ch4[p] \/ w = a.ch2[one] \/ w = b.ch2[two]
    BY <1>3, <1>4, <1>5, <2>1
  <2>3. \A e \in Channels : a.ch2[e] = s.ch2[e] \/ a.ch2[e] = None
    BY <1>3
  <2>4. b.ch2[two] = a.ch2[two] \/ b.ch2[two] = None
    BY <1>1, <1>4
  <2>5. QED BY <1>1, <2>2, <2>3, <2>4
<1>14. QED BY <1>0, <1>12, <1>13 DEF one, two

OplCandidate == [at : Nat, free : BOOLEAN, prio : Int, since : Int, off : Int]

\* Nothing that sounds there has more priority.
OplFits(c, prio) == c.free \/ (now < c.off => c.prio <= prio)

\* The search is a function by recursion, and ends where it began or at a candidate that fits.
LEMMA SearchFound ==
  ASSUME NEW n \in Nat, NEW cands \in [1 .. n -> OplCandidate], Len(cands) = n, NEW start, NEW prio
  PROVE  LET r == Search(cands, start, prio) IN
         r = start \/ \E i \in 1 .. n : r.at = cands[i].at /\ OplFits(cands[i], prio)
<1> DEFINE Step(b, i) == Preferred(b, cands[i], prio)
           Turns(f, m) == f = [i \in 0 .. m |-> IF i = 0 THEN start ELSE Step(f[i - 1], i)]
           from == {m \in 0 .. n : ~ \E f : Turns(f, m)}
<1>1. ASSUME NEW S \in SUBSET Nat, S # {} PROVE \E m \in S : \A k \in S : m <= k
  <2>1. PICK m \in S : \A k \in S : ~(<<k, m>> \in OpToRel(<, Nat))
    BY <1>1, NatLessThanWellFounded, WFMin
  <2>2. ASSUME NEW k \in S PROVE m <= k
    <3>1. k \in Nat /\ m \in Nat
      OBVIOUS
    <3>2. ~(k < m)
      BY <2>1, <3>1 DEF OpToRel
    <3>3. QED BY <3>1, <3>2
  <2>3. QED BY <2>2
<1> HIDE DEF Step
<1>2. from = {}
  <2> SUFFICES ASSUME from # {} PROVE FALSE
    OBVIOUS
  <2>0. from \in SUBSET Nat
    OBVIOUS
  <2>1. PICK m \in from : \A k \in from : m <= k
    <3> HIDE DEF from
    <3>1. QED BY <1>1, <2>0
  <2>2. m \in 0 .. n /\ ~ \E f : Turns(f, m)
    OBVIOUS
  <2>3. m # 0
    <3> DEFINE f == [i \in 0 .. 0 |-> start]
    <3>1. f = [i \in 0 .. 0 |-> IF i = 0 THEN start ELSE Step(f[i - 1], i)]
      OBVIOUS
    <3> HIDE DEF f
    <3>2. m = 0 => Turns(f, m)
      BY <3>1
    <3>3. QED BY <2>2, <3>2
  <2>4. m - 1 \in 0 .. n /\ m - 1 \notin from
    <3>1. m - 1 \in 0 .. n /\ ~(m <= m - 1)
      BY <2>2, <2>3
    <3> HIDE DEF from
    <3>2. QED BY <2>1, <3>1
  <2>5. PICK f : Turns(f, m - 1)
    BY <2>4
  <2> DEFINE g == [i \in 0 .. m |-> IF i = m THEN Step(f[m - 1], m) ELSE f[i]]
  <2>6. \A i \in 0 .. m : g[i] = IF i = 0 THEN start ELSE Step(g[i - 1], i)
    <3>1. \A i \in 0 .. m - 1 : f[i] = IF i = 0 THEN start ELSE Step(f[i - 1], i)
      BY <2>2, <2>3, <2>5
    <3>2. \A i \in 0 .. m : g[i] = IF i = m THEN Step(f[m - 1], m) ELSE f[i]
      OBVIOUS
    <3>3. DOMAIN g = 0 .. m
      OBVIOUS
    <3> HIDE DEF g
    <3>4. QED BY <2>2, <2>3, <3>1, <3>2
  <2>7. g = [i \in 0 .. m |-> g[i]]
    OBVIOUS
  <2> HIDE DEF g
  <2>8. Turns(g, m)
    BY <2>6, <2>7
  <2>9. QED BY <2>2, <2>8
<1> DEFINE best == CHOOSE f : f = [i \in 0 .. Len(cands) |->
                                       IF i = 0 THEN start ELSE Preferred(f[i - 1], cands[i], prio)]
<1>3. Search(cands, start, prio) = best[n]
  BY DEF Search
<1>4. Turns(best, n)
  <2>1. \E f : Turns(f, n)
    BY <1>2
  <2>2. best = CHOOSE f : Turns(f, n)
    BY DEF Step
  <2> HIDE DEF Turns, best
  <2>3. QED BY <2>1, <2>2
<1>5. \A i \in 0 .. n : best[i] = IF i = 0 THEN start ELSE Preferred(best[i - 1], cands[i], prio)
  <2> HIDE DEF best
  <2>1. QED BY <1>4 DEF Step
<1> HIDE DEF best
<1> DEFINE Found(b) == b = start \/ \E i \in 1 .. n : b.at = cands[i].at /\ OplFits(cands[i], prio)
           missed == {m \in 0 .. n : ~Found(best[m])}
<1>6. missed = {}
  <2> SUFFICES ASSUME missed # {} PROVE FALSE
    OBVIOUS
  <2>0. missed \in SUBSET Nat
    OBVIOUS
  <2>1. PICK m \in missed : \A k \in missed : m <= k
    <3> HIDE DEF missed
    <3>1. QED BY <1>1, <2>0
  <2>2. m \in 0 .. n /\ ~Found(best[m])
    OBVIOUS
  <2>3. m # 0
    BY <1>5, <2>2
  <2>4. m - 1 \in 0 .. n /\ m \in 1 .. n /\ ~(m <= m - 1)
    BY <2>2, <2>3
  <2>5. m - 1 \notin missed
    <3> HIDE DEF missed
    <3>1. QED BY <2>1, <2>4
  <2>6. Found(best[m - 1])
    <3> HIDE DEF Found
    <3>1. QED BY <2>4, <2>5
  <2>7. best[m] = Preferred(best[m - 1], cands[m], prio)
    BY <1>5, <2>2, <2>3
  <2>8. best[m] = best[m - 1] \/ (best[m].at = cands[m].at /\ OplFits(cands[m], prio))
    <3>1. cands[m] \in OplCandidate
      BY <2>4
    <3> DEFINE b == best[m - 1]
               c == cands[m]
    <3> HIDE DEF b, c
    <3>2. Preferred(b, c, prio) = b \/ (c.free /\ Preferred(b, c, prio) = c)
          \/ /\ Better(b, c, prio)
             /\ Preferred(b, c, prio) = [c EXCEPT !.prio = IF now < c.off THEN @ ELSE b.prio]
      BY DEF Preferred
    <3>3. c \in OplCandidate => [c EXCEPT !.prio = IF now < c.off THEN @ ELSE b.prio].at = c.at
      BY DEF OplCandidate
    <3>4. Better(b, c, prio) => OplFits(c, prio)
      BY DEF Better, OplFits
    <3>5. c.free => OplFits(c, prio)
      BY DEF OplFits
    <3>6. QED BY <2>7, <3>1, <3>2, <3>3, <3>4, <3>5 DEF b, c
  <2>9. QED BY <2>2, <2>4, <2>6, <2>8
<1>7. Found(best[n])
  BY <1>6
<1>8. QED BY <1>3, <1>7

-----------------------------------------------------------------------------
(* Opl: where a voice goes                                                 *)

\* What plays there can be silenced for a voice of that priority.
Yields2(n, prio) ==
    /\ n \in Channels
    /\ \A w \in Voices : (w = ch2[n] \/ (n \in Paired /\ w = ch4[PairOf(n)])) /\ Sounds(w) =>
                         Priority[w] <= prio
Yields4(p, prio) ==
    /\ p \in DOMAIN Pairs
    /\ \A w \in Voices : w \in {ch4[p], ch2[Pairs[p][1]], ch2[Pairs[p][2]]} /\ Sounds(w) =>
                         Priority[w] <= prio

\* The state of the driver, variable by variable
LEMMA ChipHas ==
  ASSUME OplShape, OplInv
  PROVE  /\ ch2 \in [Channels -> Voices2 \cup {None}] /\ ch4 \in [DOMAIN Pairs -> Voices4 \cup {None}]
         /\ oplBits \in [DOMAIN Pairs -> BOOLEAN] /\ voice \in [Voices -> OplVoice] /\ now \in Int
         /\ \A p \in DOMAIN Pairs : ch4[p] # None => oplBits[p]
         /\ \A p \in DOMAIN Pairs : oplBits[p] => ch2[Pairs[p][1]] = None /\ ch2[Pairs[p][2]] = None
         /\ None \notin Voices /\ Priority \in [Voices -> Int]
         /\ \A v \in Voices : voice[v].since \in Int /\ voice[v].off \in Int
<1>1. OplOwned(chip) /\ chip \in OplState
  BY DEF OplInv, OplKept, OplOwned
<1>2. /\ chip.ch2 = ch2 /\ chip.ch4 = ch4 /\ chip.bits = oplBits /\ chip.voice = voice
  BY DEF chip
<1>3. voice \in [Voices -> OplVoice]
  BY <1>1, <1>2 DEF OplState
<1>4. \A v \in Voices : voice[v].since \in Int /\ voice[v].off \in Int
  BY <1>3 DEF OplVoice
<1>5. /\ ch2 \in [Channels -> Voices2 \cup {None}] /\ ch4 \in [DOMAIN Pairs -> Voices4 \cup {None}]
      /\ oplBits \in [DOMAIN Pairs -> BOOLEAN]
  BY <1>1, <1>2 DEF OplState
<1>6. /\ \A p \in DOMAIN Pairs : ch4[p] # None => oplBits[p]
      /\ \A p \in DOMAIN Pairs : oplBits[p] => ch2[Pairs[p][1]] = None /\ ch2[Pairs[p][2]] = None
  BY <1>1, <1>2 DEF OplOwned
<1>7. QED BY <1>3, <1>4, <1>5, <1>6 DEF OplShape, OplInv

LEMMA CandidateIs ==
  ASSUME OplShape, OplInv, NEW at \in Nat, NEW v \in Voices \cup {None}, NEW prio
  PROVE  /\ Candidate(at, v) \in OplCandidate /\ Candidate(at, v).at = at
         /\ OplFits(Candidate(at, v), prio) /\ v \in Voices /\ Sounds(v) => Priority[v] <= prio
<1>1. v # None => voice[v].since \in Int /\ voice[v].off \in Int /\ Priority[v] \in Int
  BY ChipHas
<1>2. None \notin Voices
  BY ChipHas
<1>3. Candidate(at, v) \in OplCandidate /\ Candidate(at, v).at = at
  BY <1>1 DEF Candidate, OplCandidate
<1>4. v \in Voices => /\ ~Candidate(at, v).free /\ Candidate(at, v).prio = Priority[v]
                     /\ Candidate(at, v).off = voice[v].off
  BY <1>2 DEF Candidate
<1>5. QED BY <1>3, <1>4 DEF OplFits, Sounds

\* Both voices that are in the way of one can be silenced for it.
LEMMA BothIs ==
  ASSUME OplShape, OplInv, NEW at \in Nat, NEW v \in Voices, NEW w \in Voices, NEW prio \in Int
  PROVE  /\ Both(at, v, w) \in OplCandidate /\ Both(at, v, w).at = at
         /\ OplFits(Both(at, v, w), prio) => \A u \in {v, w} : Sounds(u) => Priority[u] <= prio
<1> DEFINE Most(x, y) == IF Sounds(v) = Sounds(w) THEN Larger(x, y) ELSE IF Sounds(v) THEN x ELSE y
           pr == Most(Priority[v], Priority[w])
           si == Most(voice[v].since, voice[w].since)
           of == Larger(voice[v].off, voice[w].off)
<1>1. /\ voice[v].since \in Int /\ voice[v].off \in Int /\ Priority[v] \in Int
      /\ voice[w].since \in Int /\ voice[w].off \in Int /\ Priority[w] \in Int /\ now \in Int
  BY ChipHas
<1>2. Both(at, v, w) = [at |-> at, free |-> FALSE, prio |-> pr, since |-> si, off |-> of]
  BY DEF Both
<1>3. Sounds(v) \in BOOLEAN /\ Sounds(w) \in BOOLEAN
  BY DEF Sounds
<1>4. of \in Int /\ voice[v].off <= of /\ voice[w].off <= of
  BY <1>1 DEF Larger
<1>5. pr \in Int /\ si \in Int
  <2>1. CASE Sounds(v) = Sounds(w)
    BY <1>1, <2>1 DEF Larger
  <2>2. CASE Sounds(v) # Sounds(w)
    BY <1>1, <2>2
  <2>3. QED BY <2>1, <2>2
<1>6. (Sounds(v) => Priority[v] <= pr) /\ (Sounds(w) => Priority[w] <= pr)
  <2>1. CASE Sounds(v) /\ Sounds(w)
    BY <1>1, <2>1 DEF Larger
  <2>2. CASE Sounds(v) /\ ~Sounds(w)
    <3>1. (Sounds(v) = Sounds(w)) = FALSE
      BY <1>3, <2>2
    <3>2. pr = Priority[v]
      BY <2>2, <3>1
    <3> HIDE DEF pr
    <3>3. QED BY <1>1, <2>2, <3>2
  <2>3. CASE ~Sounds(v) /\ Sounds(w)
    <3>1. (Sounds(v) = Sounds(w)) = FALSE
      BY <1>3, <2>3
    <3>2. pr = Priority[w]
      BY <2>3, <3>1
    <3> HIDE DEF pr
    <3>3. QED BY <1>1, <2>3, <3>2
  <2>4. QED BY <2>1, <2>2, <2>3
<1>7. (Sounds(v) \/ Sounds(w)) => now < of
  BY <1>1, <1>4 DEF Sounds
<1> HIDE DEF pr, si, of
<1>8. Both(at, v, w) \in OplCandidate /\ Both(at, v, w).at = at
  BY <1>2, <1>4, <1>5 DEF OplCandidate
<1>9. OplFits(Both(at, v, w), prio) => (now < of => pr <= prio)
  BY <1>2 DEF OplFits
<1>10. QED BY <1>1, <1>5, <1>6, <1>7, <1>8, <1>9

\* A voice in the plain channels and in the pairs
LEMMA Place2Found ==
  ASSUME OplShape, OplInv, NEW v \in Voices2
  PROVE  Place2(v).at = npos \/ Yields2(Place2(v).at, Priority[v])
<1> DEFINE prio == Priority[v]
           best == Search(InPlain, Nothing, prio)
           rest == Search(InPairs2, best, prio)
<1>1. /\ None \notin Voices
      /\ \A c \in Channels : c \in Nat /\ ch2[c] \in Voices \cup {None}
      /\ \A p \in DOMAIN Pairs : ch4[p] \in Voices \cup {None}
  <2>1. \A c \in Channels : c \in Nat
    BY ChannelNumbers
  <2>2. QED BY <2>1, ChipHas DEF Voices
<1>2. best = Nothing \/ Yields2(best.at, prio)
  <2> DEFINE n == Len(Plain)
  <2>1. n \in Nat /\ DOMAIN Plain = 1 .. n
    <3>1. Plain \in Seq(0 .. 254)
      BY DEF OplShape
    <3>2. QED BY <3>1, LenProperties
  <2> HIDE DEF n
  <2>2. \A i \in 1 .. n : /\ Plain[i] \in Channels /\ Plain[i] \notin Paired
                          /\ InPlain[i] = Candidate(Plain[i], ch2[Plain[i]])
    BY <2>1 DEF OplShape, Channels, InPlain
  <2>3. \A i \in 1 .. n : InPlain[i] \in OplCandidate /\ InPlain[i].at = Plain[i]
    <3>1. \A i \in 1 .. n : Plain[i] \in Nat /\ ch2[Plain[i]] \in Voices \cup {None}
      BY <1>1, <2>2
    <3>2. \A at \in Nat : \A w \in Voices \cup {None} :
             Candidate(at, w) \in OplCandidate /\ Candidate(at, w).at = at
      BY CandidateIs
    <3>3. QED BY <2>2, <3>1, <3>2
  <2>4. InPlain \in [1 .. n -> OplCandidate] /\ Len(InPlain) = n
    <3>1. InPlain = [i \in 1 .. n |-> InPlain[i]]
      BY <2>1 DEF InPlain
    <3>2. InPlain \in [1 .. n -> OplCandidate]
      BY <2>3, <3>1
    <3>3. InPlain \in Seq(OplCandidate) /\ DOMAIN InPlain = 1 .. n
      BY <2>1, <3>2
    <3>4. QED BY <2>1, <3>2, <3>3, LenProperties
  <2>5. best = Nothing \/ \E i \in 1 .. n : best.at = InPlain[i].at /\ OplFits(InPlain[i], prio)
    BY <2>1, <2>4, SearchFound
  <2>6. ASSUME NEW i \in 1 .. n, OplFits(InPlain[i], prio) PROVE Yields2(Plain[i], prio)
    <3>1. \A w \in Voices : w = ch2[Plain[i]] /\ Sounds(w) => Priority[w] <= prio
      BY <1>1, <2>2, <2>6, CandidateIs
    <3>2. QED BY <2>2, <3>1 DEF Yields2
  <2> HIDE DEF best
  <2>7. QED BY <2>3, <2>5, <2>6
<1>3. rest = best \/ Yields2(rest.at, prio)
  <2> DEFINE n == 2 * Len(Pairs)
             c(i) == PairOrder[i]
             p(i) == PairOf(PairOrder[i])
  <2>0. Len(Pairs) \in Nat /\ DOMAIN Pairs = 1 .. Len(Pairs)
    <3> DEFINE two == (0 .. 254) \X (0 .. 254)
    <3>1. Pairs \in Seq(two)
      BY DEF OplShape
    <3> HIDE DEF two
    <3>2. QED BY <3>1, LenProperties
  <2>1. n \in Nat /\ DOMAIN PairOrder = 1 .. n
    BY <2>0 DEF PairOrder
  <2>2. \A i \in 1 .. n : /\ p(i) \in DOMAIN Pairs /\ c(i) \in {Pairs[p(i)][1], Pairs[p(i)][2]}
                          /\ c(i) \in Paired /\ c(i) \in Channels
    <3> SUFFICES ASSUME NEW i \in 1 .. n
                 PROVE  /\ p(i) \in DOMAIN Pairs /\ c(i) \in {Pairs[p(i)][1], Pairs[p(i)][2]}
                        /\ c(i) \in Paired /\ c(i) \in Channels
      OBVIOUS
    <3>1. (i + 1) \div 2 \in DOMAIN Pairs
      BY <2>0
    <3>2. c(i) \in {Pairs[(i + 1) \div 2][1], Pairs[(i + 1) \div 2][2]}
      BY DEF PairOrder
    <3>3. c(i) \in Paired
      BY <3>1, <3>2 DEF Paired
    <3>4. QED BY <3>3, OfPair DEF Channels
  <2>3. \A i \in 1 .. n :
           InPairs2[i] = IF oplBits[p(i)] THEN Candidate(Pairs[p(i)][1], ch4[p(i)]) ELSE Candidate(c(i), ch2[c(i)])
    BY <2>1 DEF InPairs2
  <2>4. DOMAIN InPairs2 = 1 .. n /\ InPairs2 = [i \in 1 .. n |-> InPairs2[i]]
    BY <2>1 DEF InPairs2
  <2> HIDE DEF n, c, p
  <2>5. ASSUME NEW i \in 1 .. n
        PROVE  /\ InPairs2[i] \in OplCandidate
               /\ OplFits(InPairs2[i], prio) => Yields2(InPairs2[i].at, prio)
    <3> DEFINE q == p(i)
    <3>1. /\ q \in DOMAIN Pairs /\ c(i) \in {Pairs[q][1], Pairs[q][2]} /\ c(i) \in Channels
          /\ Pairs[q][1] \in Channels /\ PairOf(Pairs[q][1]) = q /\ PairOf(Pairs[q][2]) = q
      BY <2>2, PairChannels
    <3>2. CASE oplBits[q]
      <4>1. InPairs2[i] = Candidate(Pairs[q][1], ch4[q]) /\ ch2[Pairs[q][1]] = None
        BY <2>3, <3>1, <3>2, ChipHas
      <4>2. /\ InPairs2[i] \in OplCandidate /\ InPairs2[i].at = Pairs[q][1]
            /\ OplFits(InPairs2[i], prio) => \A w \in Voices : w = ch4[q] /\ Sounds(w) => Priority[w] <= prio
        <5>1. Pairs[q][1] \in Nat /\ ch4[q] \in Voices \cup {None}
          BY <1>1, <3>1
        <5> HIDE DEF prio, q
        <5>2. QED BY <4>1, <5>1, CandidateIs
      <4>3. QED BY <1>1, <3>1, <4>1, <4>2 DEF Yields2
    <3>3. CASE ~oplBits[q]
      <4>1. InPairs2[i] = Candidate(c(i), ch2[c(i)]) /\ ch4[q] = None
        BY <2>3, <3>1, <3>3, ChipHas
      <4>2. /\ InPairs2[i] \in OplCandidate /\ InPairs2[i].at = c(i)
            /\ OplFits(InPairs2[i], prio) => \A w \in Voices : w = ch2[c(i)] /\ Sounds(w) => Priority[w] <= prio
        <5>1. c(i) \in Nat /\ ch2[c(i)] \in Voices \cup {None}
          BY <1>1, <3>1
        <5> HIDE DEF prio
        <5>2. QED BY <4>1, <5>1, CandidateIs
      <4>3. PairOf(c(i)) = q
        BY <3>1
      <4>4. QED BY <1>1, <3>1, <4>1, <4>2, <4>3 DEF Yields2
    <3>4. QED BY <3>2, <3>3
  <2>6. InPairs2 \in [1 .. n -> OplCandidate] /\ Len(InPairs2) = n
    <3>1. InPairs2 \in [1 .. n -> OplCandidate]
      BY <2>4, <2>5
    <3>2. InPairs2 \in Seq(OplCandidate) /\ DOMAIN InPairs2 = 1 .. n
      BY <2>1, <3>1
    <3>3. QED BY <2>1, <3>1, <3>2, LenProperties
  <2>7. rest = best \/ \E i \in 1 .. n : rest.at = InPairs2[i].at /\ OplFits(InPairs2[i], prio)
    <3> HIDE DEF best
    <3>1. QED BY <2>1, <2>6, SearchFound
  <2> HIDE DEF rest, best
  <2>8. QED BY <2>5, <2>7
<1>4. Place2(v) = best \/ Place2(v) = rest
  BY DEF Place2
<1>5. Nothing.at = npos
  BY DEF Nothing
<1> HIDE DEF best, rest
<1>6. QED BY <1>2, <1>3, <1>4, <1>5

LEMMA Place4Found ==
  ASSUME OplShape, OplInv, NEW v \in Voices4
  PROVE  Place4(v).at = npos \/ Yields4(Place4(v).at, Priority[v])
<1> DEFINE prio == Priority[v]
           n == Len(Pairs)
           cands == [p \in DOMAIN Pairs |-> InPairs4(p)]
           best == Search(cands, Nothing, prio)
<1>1. n \in Nat /\ DOMAIN Pairs = 1 .. n /\ prio \in Int
  <2> DEFINE two == (0 .. 254) \X (0 .. 254)
  <2>1. Pairs \in Seq(two)
    BY DEF OplShape
  <2> HIDE DEF two
  <2>2. prio \in Int
    BY ChipHas DEF Voices
  <2>3. QED BY <2>1, <2>2, LenProperties
<1>2. ASSUME NEW p \in DOMAIN Pairs
      PROVE  /\ InPairs4(p) \in OplCandidate /\ InPairs4(p).at = p
             /\ OplFits(InPairs4(p), prio) => Yields4(p, prio)
  <2> DEFINE u == ch4[p]
             a == ch2[Pairs[p][1]]
             b == ch2[Pairs[p][2]]
  <2>1. /\ p \in Nat /\ None \notin Voices
        /\ u \in Voices \cup {None} /\ a \in Voices \cup {None} /\ b \in Voices \cup {None}
        /\ oplBits[p] => a = None /\ b = None
        /\ u # None => oplBits[p]
    BY PairChannels, ChipHas DEF Voices
  <2>2. InPairs4(p) = IF oplBits[p] THEN Candidate(p, u)
                      ELSE IF a = None THEN Candidate(p, b)
                      ELSE IF b = None THEN Candidate(p, a)
                      ELSE Both(p, a, b)
    BY DEF InPairs4
  <2>3. Yields4(p, prio) <=> \A w \in Voices : w \in {u, a, b} /\ Sounds(w) => Priority[w] <= prio
    BY DEF Yields4
  <2> HIDE DEF u, a, b, prio
  <2>4. CASE oplBits[p]
    <3>1. InPairs4(p) = Candidate(p, u)
      BY <2>2, <2>4
    <3>2. /\ InPairs4(p) \in OplCandidate /\ InPairs4(p).at = p
          /\ OplFits(InPairs4(p), prio) => \A w \in Voices : w = u /\ Sounds(w) => Priority[w] <= prio
      BY <2>1, <3>1, CandidateIs
    <3>3. QED BY <2>1, <2>3, <2>4, <3>2
  <2>5. CASE ~oplBits[p] /\ a = None
    <3>1. InPairs4(p) = Candidate(p, b)
      BY <2>2, <2>5
    <3>2. /\ InPairs4(p) \in OplCandidate /\ InPairs4(p).at = p
          /\ OplFits(InPairs4(p), prio) => \A w \in Voices : w = b /\ Sounds(w) => Priority[w] <= prio
      BY <2>1, <3>1, CandidateIs
    <3>3. QED BY <2>1, <2>3, <2>5, <3>2
  <2>6. CASE ~oplBits[p] /\ a # None /\ b = None
    <3>1. InPairs4(p) = Candidate(p, a)
      BY <2>2, <2>6
    <3>2. /\ InPairs4(p) \in OplCandidate /\ InPairs4(p).at = p
          /\ OplFits(InPairs4(p), prio) => \A w \in Voices : w = a /\ Sounds(w) => Priority[w] <= prio
      BY <2>1, <3>1, CandidateIs
    <3>3. QED BY <2>1, <2>3, <2>6, <3>2
  <2>7. CASE ~oplBits[p] /\ a # None /\ b # None
    <3>1. InPairs4(p) = Both(p, a, b)
      BY <2>2, <2>7
    <3>2. /\ InPairs4(p) \in OplCandidate /\ InPairs4(p).at = p
          /\ OplFits(InPairs4(p), prio) => \A w \in {a, b} : Sounds(w) => Priority[w] <= prio
      BY <1>1, <2>1, <2>7, <3>1, BothIs
    <3>3. QED BY <2>1, <2>3, <2>7, <3>2
  <2>8. QED BY <2>4, <2>5, <2>6, <2>7
<1> HIDE DEF n
<1>3. \A p \in 1 .. n : cands[p] = InPairs4(p)
  BY <1>1
<1>4. cands \in [1 .. n -> OplCandidate] /\ Len(cands) = n
  <2>1. cands \in [1 .. n -> OplCandidate]
    BY <1>1, <1>2
  <2>2. cands \in Seq(OplCandidate) /\ DOMAIN cands = 1 .. n
    BY <1>1, <2>1
  <2> HIDE DEF cands
  <2>3. QED BY <1>1, <2>1, <2>2, LenProperties
<1>5. Place4(v) = best
  BY DEF Place4
<1> HIDE DEF cands
<1>6. best = Nothing \/ \E p \in 1 .. n : best.at = cands[p].at /\ OplFits(cands[p], prio)
  BY <1>1, <1>4, SearchFound
<1>7. Nothing.at = npos
  BY DEF Nothing
<1> HIDE DEF best, prio
<1>8. QED BY <1>1, <1>2, <1>3, <1>5, <1>6, <1>7 DEF prio

-----------------------------------------------------------------------------
(* Opl: the steps                                                          *)

LEMMA Became ==
  ASSUME NEW s \in OplState, Become(s)
  PROVE  chip' = s /\ voice' = s.voice
<1>1. s = [ch2 |-> s.ch2, ch4 |-> s.ch4, bits |-> s.bits, key |-> s.key, voice |-> s.voice]
  BY DEF OplState
<1>2. QED BY <1>1 DEF Become, chip

\* A voice that has a channel changes, but not its channel.
LEMMA VoiceChanged ==
  ASSUME OplShape, NEW s, OplKept(s, {}), NEW v \in Voices, s.voice[v].owned,
         NEW y \in OplVoice, y.owned, y.num = s.voice[v].num
  PROVE  LET x == [s EXCEPT !.voice[v] = y] IN
         /\ OplKept(x, {Main(x, v)}) /\ x.voice[v].owned
         /\ \A w \in Voices : x.voice[w].owned <=> s.voice[w].owned
<1> DEFINE x == [s EXCEPT !.voice[v] = y]
<1>1. s \in OplState
  BY DEF OplKept, OplOwned
<1>2. /\ x.ch2 = s.ch2 /\ x.ch4 = s.ch4 /\ x.bits = s.bits /\ x.key = s.key
      /\ x.voice = [s.voice EXCEPT ![v] = y] /\ x \in OplState
  BY <1>1 DEF OplState
<1>3. \A u \in Voices : /\ x.voice[u].owned = s.voice[u].owned /\ x.voice[u].num = s.voice[u].num
                        /\ u # v => x.voice[u].on = s.voice[u].on
  <2>1. s.voice \in [Voices -> OplVoice]
    BY <1>1 DEF OplState
  <2>2. \A u \in Voices : x.voice[u] = IF u = v THEN y ELSE s.voice[u]
    BY <1>2, <2>1
  <2>3. s.voice[v].owned = y.owned
    BY <2>1 DEF OplVoice
  <2> HIDE DEF x
  <2>4. QED BY <2>2, <2>3
<1> HIDE DEF x
<1>4. \A u \in Voices : Main(x, u) = Main(s, u)
  BY <1>2, <1>3 DEF Main
<1>5. OplOwned(x)
  <2>1. \A c \in Channels : s.ch2[c] \in Voices \cup {None}
    BY <1>1 DEF OplState, Voices
  <2>2. \A p \in DOMAIN Pairs : s.ch4[p] \in Voices \cup {None}
    BY <1>1 DEF OplState, Voices
  <2>3. QED BY <1>2, <1>3, <2>1, <2>2 DEF OplKept, OplOwned, Voices
<1>6. \A c \in Channels \ {Main(x, v)} : x.key[c] <=> \E u \in Voices : Playing(x, u, c)
  <2> SUFFICES ASSUME NEW c \in Channels, c # Main(s, v)
               PROVE  x.key[c] <=> \E u \in Voices : Playing(x, u, c)
    BY <1>4
  <2>1. \A u \in Voices : Playing(x, u, c) <=> Playing(s, u, c)
    BY <1>3, <1>4 DEF Playing
  <2>2. s.key[c] <=> \E u \in Voices : Playing(s, u, c)
    BY DEF OplKept
  <2>3. QED BY <1>2, <2>1, <2>2
<1>7. QED BY <1>3, <1>5, <1>6 DEF OplKept, x

\* key_on() keeps the chip as the driver has it, and silences no voice of more priority.
LEMMA KeyOnKeeps ==
  ASSUME OplShape, OplInv, NEW v \in Voices, NEW off \in Int, KeyOn(v, off)
  PROVE  /\ OplKept(chip', {})
         /\ \A w \in Voices : voice[w].owned /\ Sounds(w) /\ ~voice'[w].owned => Priority[w] <= Priority[v]
<1> DEFINE at == (IF v \in Voices2 THEN Place2(v) ELSE Place4(v)).at
           Spared(r) == \A w \in Voices : voice[w].owned /\ Sounds(w) /\ ~r.voice[w].owned => Priority[w] <= Priority[v]
<1>1. /\ OplKept(chip, {}) /\ OplKept(chip, {Main(chip, v)}) /\ now \in Int
      /\ chip.voice = voice /\ chip.ch2 = ch2 /\ chip.ch4 = ch4
  BY DEF OplInv, OplKept, chip
<1>2. /\ v \in Voices4 <=> v \notin Voices2
      /\ v \in Voices2 => v \in Voices
  BY DEF OplShape, Voices
<1>3. ASSUME NEW r, OplKept(r, {}), Spared(r), Become(r)
      PROVE  /\ OplKept(chip', {})
             /\ \A w \in Voices : voice[w].owned /\ Sounds(w) /\ ~voice'[w].owned => Priority[w] <= Priority[v]
  <2>1. r \in OplState
    BY <1>3 DEF OplKept, OplOwned
  <2>2. chip' = r /\ voice' = r.voice
    BY <1>3, <2>1, Became
  <2>3. QED BY <1>3, <2>2
<1>4. CASE voice[v].owned
  <2> DEFINE r == StartVoice(chip, v, off)
  <2>1. OplKept(r, {}) /\ \A w \in Voices : r.voice[w].owned <=> voice[w].owned
    BY <1>1, <1>4, StartKeeps
  <2>2. Become(r)
    BY <1>4 DEF KeyOn
  <2> HIDE DEF r
  <2>3. Spared(r)
    BY <2>1
  <2>4. QED BY <1>3, <2>1, <2>2, <2>3
<1>5. CASE ~voice[v].owned /\ at = npos
  <2>1. Become(chip)
    BY <1>5 DEF KeyOn
  <2>2. Spared(chip)
    BY <1>1
  <2>3. QED BY <1>1, <1>3, <2>1, <2>2
<1>6. CASE ~voice[v].owned /\ at # npos /\ v \in Voices2
  <2> DEFINE r == InsertAt2(chip, v, at, off)
  <2>1. Yields2(at, Priority[v])
    BY <1>6, Place2Found
  <2>2. Become(r)
    BY <1>6 DEF KeyOn
  <2> HIDE DEF at
  <2>3. at \in Channels
    BY <2>1 DEF Yields2
  <2>4. /\ OplKept(r, {})
        /\ \A w \in Voices : voice[w].owned /\ ~r.voice[w].owned =>
               w = ch2[at] \/ (at \in Paired /\ w = ch4[PairOf(at)])
    BY <1>1, <1>6, <2>3, Insert2
  <2> HIDE DEF r
  <2>5. Spared(r)
    BY <2>1, <2>4 DEF Yields2
  <2>6. QED BY <1>3, <2>2, <2>4, <2>5
<1>7. CASE ~voice[v].owned /\ at # npos /\ v \notin Voices2
  <2> DEFINE r == InsertAt4(chip, v, at, off)
  <2>1. Yields4(at, Priority[v])
    BY <1>2, <1>7, Place4Found
  <2>2. Become(r)
    BY <1>7 DEF KeyOn
  <2> HIDE DEF at
  <2>3. at \in DOMAIN Pairs
    BY <2>1 DEF Yields4
  <2>4. /\ OplKept(r, {})
        /\ \A w \in Voices : voice[w].owned /\ ~r.voice[w].owned =>
               w \in {ch4[at], ch2[Pairs[at][1]], ch2[Pairs[at][2]]}
    BY <1>1, <1>2, <1>7, <2>3, Insert4
  <2> HIDE DEF r
  <2>5. Spared(r)
    BY <2>1, <2>4 DEF Yields4
  <2>6. QED BY <1>3, <2>2, <2>4, <2>5
<1>8. QED BY <1>4, <1>5, <1>6, <1>7

LEMMA KeyOffKeeps ==
  ASSUME OplShape, OplInv, NEW v \in Voices, NEW off \in Int, KeyOff(v, off)
  PROVE  OplKept(chip', {})
<1> DEFINE y == [voice[v] EXCEPT !.on = FALSE,
                                 !.off = IF voice[v].on /\ off < @ THEN off ELSE @]
           x == [chip EXCEPT !.voice[v] = y]
<1>1. /\ OplKept(chip, {}) /\ chip.voice = voice /\ voice[v].owned /\ voice[v] \in OplVoice
  BY ChipHas DEF OplInv, KeyOff, chip
<1>2. y \in OplVoice /\ y.owned /\ y.num = voice[v].num
  BY <1>1 DEF OplVoice
<1>3. [chip EXCEPT !.voice[v].on = FALSE,
                   !.voice[v].off = IF voice[v].on /\ off < @ THEN off ELSE @] = x
  <2>1. voice \in [Voices -> OplVoice]
    BY ChipHas
  <2>2. QED BY <1>1, <2>1 DEF chip
<1>4. Become(WriteVoice(x, v))
  BY <1>3 DEF KeyOff
<1> HIDE DEF y
<1>5. OplKept(x, {Main(x, v)}) /\ x.voice[v].owned
  BY <1>1, <1>2, VoiceChanged
<1> HIDE DEF x
<1>6. OplKept(WriteVoice(x, v), {})
  BY <1>5, WriteKeeps
<1>7. chip' = WriteVoice(x, v)
  BY <1>4, <1>6, Became DEF OplKept, OplOwned
<1>8. QED BY <1>6, <1>7

LEMMA VoiceDestroyed ==
  ASSUME OplShape, OplInv, NEW v \in Voices, DestroyVoice(v)
  PROVE  OplKept(chip', {})
<1> DEFINE y == [voice[v] EXCEPT !.on = FALSE]
           x == [chip EXCEPT !.voice[v] = y]
<1>1. /\ OplKept(chip, {}) /\ chip.voice = voice /\ voice[v].owned /\ voice[v] \in OplVoice
  BY ChipHas DEF OplInv, DestroyVoice, chip
<1>2. y \in OplVoice /\ y.owned /\ y.num = voice[v].num
  BY <1>1 DEF OplVoice
<1>3. [chip EXCEPT !.voice[v].on = FALSE] = x
  <2>1. voice \in [Voices -> OplVoice]
    BY ChipHas
  <2>2. QED BY <1>1, <2>1 DEF chip
<1>4. Become(RemoveVoice(x, v))
  BY <1>3 DEF DestroyVoice
<1> HIDE DEF y
<1>5. OplKept(x, {Main(x, v)}) /\ x.voice[v].owned
  BY <1>1, <1>2, VoiceChanged
<1> HIDE DEF x
<1>6. OplKept(RemoveVoice(x, v), {})
  BY <1>5, RemoveKeeps
<1>7. chip' = RemoveVoice(x, v)
  BY <1>4, <1>6, Became DEF OplKept, OplOwned
<1>8. QED BY <1>6, <1>7

LEMMA MoveKeeps ==
  ASSUME OplShape, OplInv, NEW v \in Voices, NEW w \in Voices, MoveVoice(v, w)
  PROVE  OplKept(chip', {})
<1> DEFINE s == IF voice[w].owned THEN RemoveVoice(chip, w) ELSE chip
           n == s.voice[v].num
           vs == [s.voice EXCEPT ![w] = s.voice[v], ![v].owned = FALSE, ![v].on = FALSE]
           t == [s EXCEPT !.voice[w] = s.voice[v], !.voice[v].owned = FALSE, !.voice[v].on = FALSE]
           x == IF v \in Voices2 THEN [t EXCEPT !.ch2[n] = w] ELSE [t EXCEPT !.ch4[n] = w]
<1>1. /\ OplKept(chip, {}) /\ chip.voice = voice /\ v # w /\ voice[v].owned
      /\ v \in Voices2 <=> w \in Voices2
      /\ v \in Voices4 <=> w \in Voices4
      /\ v \in Voices2 <=> v \notin Voices4
      /\ None \notin Voices
  BY DEF OplInv, MoveVoice, chip, OplShape, Voices
<1>2. OplKept(s, {}) /\ s.voice[v].owned /\ ~s.voice[w].owned
  <2>1. CASE voice[w].owned
    <3> DEFINE r == RemoveVoice(chip, w)
    <3>1. OplKept(r, {}) /\ \A u \in Voices : r.voice[u].owned <=> voice[u].owned /\ u # w
      BY <1>1, <2>1, RemoveAny
    <3>2. s = r
      BY <2>1
    <3> HIDE DEF r, s
    <3>3. QED BY <1>1, <3>1, <3>2
  <2>2. CASE ~voice[w].owned
    <3>1. s = chip
      BY <2>2
    <3> HIDE DEF s
    <3>2. QED BY <1>1, <2>2, <3>1
  <2>3. QED BY <2>1, <2>2
<1>a. Become(IF v \in Voices2 THEN [t EXCEPT !.ch2[t.voice[w].num] = w]
             ELSE [t EXCEPT !.ch4[t.voice[w].num] = w])
  BY DEF MoveVoice
<1> HIDE DEF s
<1>3. s \in OplState /\ OplOwned(s)
  BY <1>2 DEF OplKept, OplOwned
<1>b. s.voice \in [Voices -> OplVoice] /\ s.voice[v] \in OplVoice /\ s.voice[w] \in OplVoice
  BY <1>3 DEF OplState
<1>4. /\ vs \in [Voices -> OplVoice] /\ ~vs[v].owned
      /\ vs[w].owned /\ vs[w].num = n /\ vs[w].on = s.voice[v].on
      /\ \A u \in Voices \ {v, w} : vs[u] = s.voice[u]
  BY <1>1, <1>2, <1>b DEF OplVoice
<1>5. t = [s EXCEPT !.voice = vs]
  BY <1>3 DEF OplState
<1> HIDE DEF t, vs
<1>6. t.ch2 = s.ch2 /\ t.ch4 = s.ch4 /\ t.bits = s.bits /\ t.key = s.key /\ t.voice = vs /\ t \in OplState
  BY <1>3, <1>4, <1>5 DEF OplState
<1>7. Become(x)
  BY <1>4, <1>6, <1>a
<1>8. /\ v \in Voices2 => n \in Channels /\ s.ch2[n] = v
      /\ v \notin Voices2 => n \in DOMAIN Pairs /\ s.ch4[n] = v
  BY <1>1, <1>2, <1>3 DEF OplOwned
<1>9. /\ x.ch2 = IF v \in Voices2 THEN [s.ch2 EXCEPT ![n] = w] ELSE s.ch2
      /\ x.ch4 = IF v \notin Voices2 THEN [s.ch4 EXCEPT ![n] = w] ELSE s.ch4
      /\ x.bits = s.bits /\ x.key = s.key /\ x.voice = vs /\ x \in OplState
  <2> HIDE DEF n
  <2>1. CASE v \in Voices2
    BY <1>1, <1>6, <2>1 DEF OplState
  <2>2. CASE v \notin Voices2
    BY <1>1, <1>6, <2>2 DEF OplState
  <2>3. QED BY <2>1, <2>2
<1> HIDE DEF x, n
<1>10. /\ \A c \in Channels : x.ch2[c] = IF s.ch2[c] = v THEN w ELSE s.ch2[c]
       /\ \A p \in DOMAIN Pairs : x.ch4[p] = IF s.ch4[p] = v THEN w ELSE s.ch4[p]
  <2>1. \A c \in Channels : s.ch2[c] = v <=> (v \in Voices2 /\ c = n)
    BY <1>1, <1>3, <1>8 DEF OplOwned, OplState, n
  <2>2. \A p \in DOMAIN Pairs : s.ch4[p] = v <=> (v \notin Voices2 /\ p = n)
    BY <1>1, <1>3, <1>8 DEF OplOwned, OplState, n
  <2>3. QED BY <1>3, <1>9, <2>1, <2>2 DEF OplState
<1>11. \A u \in Voices : /\ x.voice[u].owned <=> u = w \/ (s.voice[u].owned /\ u # v)
                         /\ u \notin {v, w} => x.voice[u] = s.voice[u]
  BY <1>1, <1>2, <1>4, <1>9
<1>12. OplOwned(x)
  <2>1. \A u \in Voices2 : x.voice[u].owned => x.voice[u].num \in Channels /\ x.ch2[x.voice[u].num] = u
    <3> SUFFICES ASSUME NEW u \in Voices2, x.voice[u].owned
                 PROVE  x.voice[u].num \in Channels /\ x.ch2[x.voice[u].num] = u
      OBVIOUS
    <3>1. CASE u = w
      BY <1>1, <1>4, <1>8, <1>9, <1>10, <3>1
    <3>2. CASE u # w
      BY <1>3, <1>10, <1>11, <3>2 DEF OplOwned, Voices
    <3>3. QED BY <3>1, <3>2
  <2>2. \A u \in Voices4 : x.voice[u].owned => x.voice[u].num \in DOMAIN Pairs /\ x.ch4[x.voice[u].num] = u
    <3> SUFFICES ASSUME NEW u \in Voices4, x.voice[u].owned
                 PROVE  x.voice[u].num \in DOMAIN Pairs /\ x.ch4[x.voice[u].num] = u
      OBVIOUS
    <3>1. CASE u = w
      BY <1>1, <1>4, <1>8, <1>9, <1>10, <3>1
    <3>2. CASE u # w
      BY <1>3, <1>10, <1>11, <3>2 DEF OplOwned, Voices
    <3>3. QED BY <3>1, <3>2
  <2>3. \A c \in Channels : x.ch2[c] # None => x.voice[x.ch2[c]].owned /\ x.voice[x.ch2[c]].num = c
    <3> SUFFICES ASSUME NEW c \in Channels, x.ch2[c] # None
                 PROVE  x.voice[x.ch2[c]].owned /\ x.voice[x.ch2[c]].num = c
      OBVIOUS
    <3>1. CASE s.ch2[c] = v
      <4>1. s.voice[v].num = c
        BY <1>1, <1>3, <3>1 DEF OplOwned
      <4>2. QED BY <1>4, <1>9, <1>10, <3>1, <4>1 DEF n
    <3>2. CASE s.ch2[c] # v
      <4>1. x.ch2[c] = s.ch2[c] /\ s.ch2[c] \in Voices
        BY <1>3, <1>10, <3>2 DEF OplState, Voices
      <4>2. s.voice[s.ch2[c]].owned /\ s.voice[s.ch2[c]].num = c
        BY <1>3, <4>1 DEF OplOwned
      <4>3. QED BY <1>2, <1>11, <3>2, <4>1, <4>2
    <3>3. QED BY <3>1, <3>2
  <2>4. \A p \in DOMAIN Pairs :
           x.ch4[p] # None => x.voice[x.ch4[p]].owned /\ x.voice[x.ch4[p]].num = p /\ x.bits[p]
    <3> SUFFICES ASSUME NEW p \in DOMAIN Pairs, x.ch4[p] # None
                 PROVE  x.voice[x.ch4[p]].owned /\ x.voice[x.ch4[p]].num = p /\ x.bits[p]
      OBVIOUS
    <3>1. CASE s.ch4[p] = v
      <4>1. s.voice[v].num = p /\ s.bits[p]
        BY <1>1, <1>3, <3>1 DEF OplOwned
      <4>2. QED BY <1>4, <1>9, <1>10, <3>1, <4>1 DEF n
    <3>2. CASE s.ch4[p] # v
      <4>1. x.ch4[p] = s.ch4[p] /\ s.ch4[p] \in Voices
        BY <1>3, <1>10, <3>2 DEF OplState, Voices
      <4>2. s.voice[s.ch4[p]].owned /\ s.voice[s.ch4[p]].num = p /\ s.bits[p]
        BY <1>3, <4>1 DEF OplOwned
      <4>3. QED BY <1>2, <1>9, <1>11, <3>2, <4>1, <4>2
    <3>3. QED BY <3>1, <3>2
  <2>5. \A p \in DOMAIN Pairs : x.bits[p] => x.ch2[Pairs[p][1]] = None /\ x.ch2[Pairs[p][2]] = None
    <3> SUFFICES ASSUME NEW p \in DOMAIN Pairs, x.bits[p]
                 PROVE  x.ch2[Pairs[p][1]] = None /\ x.ch2[Pairs[p][2]] = None
      OBVIOUS
    <3>1. s.ch2[Pairs[p][1]] = None /\ s.ch2[Pairs[p][2]] = None
      BY <1>3, <1>9 DEF OplOwned
    <3>2. Pairs[p][1] \in Channels /\ Pairs[p][2] \in Channels
      BY PairChannels
    <3>3. QED BY <1>1, <1>10, <3>1, <3>2
  <2>6. QED BY <1>9, <2>1, <2>2, <2>3, <2>4, <2>5 DEF OplOwned
<1>13. \A c \in Channels : x.key[c] <=> \E u \in Voices : Playing(x, u, c)
  <2> SUFFICES ASSUME NEW c \in Channels PROVE x.key[c] <=> \E u \in Voices : Playing(x, u, c)
    OBVIOUS
  <2>1. Playing(x, w, c) <=> Playing(s, v, c)
    <3>1. Main(x, w) = Main(s, v)
      BY <1>1, <1>4, <1>9 DEF Main, n
    <3>2. x.voice[w].owned /\ s.voice[v].owned /\ x.voice[w].on = s.voice[v].on
      BY <1>2, <1>4, <1>9
    <3>3. QED BY <3>1, <3>2 DEF Playing
  <2>2. ~Playing(x, v, c) /\ ~Playing(s, w, c)
    BY <1>1, <1>2, <1>11 DEF Playing
  <2>3. \A u \in Voices \ {v, w} : Playing(x, u, c) <=> Playing(s, u, c)
    BY <1>11 DEF Playing, Main
  <2>4. s.key[c] <=> \E u \in Voices : Playing(s, u, c)
    BY <1>2 DEF OplKept
  <2>5. QED BY <1>9, <2>1, <2>2, <2>3, <2>4
<1>14. OplKept(x, {})
  BY <1>12, <1>13 DEF OplKept
<1>15. chip' = x
  BY <1>7, <1>14, Became DEF OplKept, OplOwned
<1>16. QED BY <1>14, <1>15

LEMMA OplStarts == ASSUME OplShape, OplInit PROVE OplInv
<1>1. /\ chip.ch2 = [c \in Channels |-> None] /\ chip.ch4 = [p \in DOMAIN Pairs |-> None]
      /\ chip.bits = [p \in DOMAIN Pairs |-> FALSE] /\ chip.key = [c \in Channels |-> FALSE]
      /\ chip.voice = [v \in Voices |-> Silent]
      /\ chip = [ch2 |-> chip.ch2, ch4 |-> chip.ch4, bits |-> chip.bits, key |-> chip.key, voice |-> chip.voice]
  BY DEF OplInit, chip
<1>2. Silent \in OplVoice /\ ~Silent.owned
  BY DEF Silent, OplVoice
<1>3. chip \in OplState
  BY <1>1, <1>2 DEF OplState
<1>4. \A v \in Voices : ~chip.voice[v].owned
  BY <1>1, <1>2
<1>5. OplOwned(chip)
  BY <1>1, <1>3, <1>4, PairChannels DEF OplOwned, Voices
<1>6. OplKept(chip, {})
  BY <1>1, <1>4, <1>5 DEF OplKept, Playing
<1>7. QED BY <1>6 DEF OplInv, OplInit

\* Every step keeps the chip as the driver has it.
LEMMA OplSteps == ASSUME OplShape, OplInv, [OplNext]_oplVars PROVE OplInv'
<1> USE DEF OplInv
<1>1. CASE UNCHANGED oplVars
  <2>1. chip' = chip /\ now' = now
    BY <1>1 DEF oplVars, chip
  <2>2. QED BY <2>1
<1>2. ASSUME UNCHANGED now, OplKept(chip', {}) PROVE OplInv'
  BY <1>2
<1>3. ASSUME NEW v \in Voices, NEW off \in Estimate, KeyOn(v, off), UNCHANGED now PROVE OplInv'
  <2>1. off \in Int
    BY DEF Estimate, Inf, OplShape
  <2>2. QED BY <1>2, <1>3, <2>1, KeyOnKeeps
<1>4. ASSUME NEW v \in Voices, NEW off \in {now, now + 1}, KeyOff(v, off), UNCHANGED now PROVE OplInv'
  BY <1>2, <1>4, KeyOffKeeps
<1>5. ASSUME NEW v \in Voices, DestroyVoice(v), UNCHANGED now PROVE OplInv'
  BY <1>2, <1>5, VoiceDestroyed
<1>6. ASSUME NEW v \in Voices, NEW w \in Voices, MoveVoice(v, w), UNCHANGED now PROVE OplInv'
  BY <1>2, <1>6, MoveKeeps
<1>7. CASE now < OplMaxTime /\ now' = now + 1 /\ UNCHANGED <<oplMode, ch2, ch4, oplBits, oplKey, voice>>
  <2>1. chip' = chip /\ now' \in Int
    BY <1>7 DEF chip
  <2>2. QED BY <2>1
<1>8. QED BY <1>1, <1>3, <1>4, <1>5, <1>6, <1>7 DEF OplNext

LEMMA OplTold == ASSUME OplShape, OplInv PROVE NotesOwned
<1>1. OplOwned(chip) /\ \A c \in Channels : chip.key[c] <=> \E u \in Voices : Playing(chip, u, c)
  BY DEF OplInv, OplKept
<1>2. chip.ch2 = ch2 /\ chip.ch4 = ch4 /\ chip.bits = oplBits /\ chip.key = oplKey /\ chip.voice = voice
  BY DEF chip
<1>3. \A v \in Voices : voice[v].owned =>
         (IF v \in Voices2 THEN ch2[voice[v].num] ELSE ch4[voice[v].num]) = v
  BY <1>1, <1>2 DEF OplOwned, Voices
<1>4. \A c \in Channels :
         oplKey[c] <=> \E v \in Voices : voice[v].owned /\ voice[v].on /\ Main(chip, v) = c
  BY <1>1, <1>2 DEF Playing
<1>5. QED BY <1>1, <1>2, <1>3, <1>4 DEF NotesOwned, OplOwned

LEMMA OplSteals == ASSUME OplShape, OplInv PROVE StealsNone
<1>1. \A off \in Estimate : off \in Int
  BY DEF Estimate, Inf, OplShape, OplInv
<1>2. QED BY <1>1, KeyOnKeeps DEF StealsNone

\* opl.cpp: no note hangs, no two voices share operators, and a sounding voice loses its channel
\* only to one of at least its priority, for any voices, priorities, channels and modes.
THEOREM NotesStayKept == OplShape => (OplSpec => NotesKept)
<1> SUFFICES ASSUME OplShape PROVE OplSpec => NotesKept
  OBVIOUS
<1>1. OplInit => OplInv
  BY OplStarts
<1>2. OplInv /\ [OplNext]_oplVars => OplInv'
  BY OplSteps
<1>3. OplInv => NotesOwned
  BY OplTold
<1>4. OplInv => [part = "opl" => StealsNone]_oplVars
  BY OplSteals
<1>5. QED BY <1>1, <1>2, <1>3, <1>4, PTL DEF OplSpec, NotesKept

-----------------------------------------------------------------------------
(* Scancode                                                                 *)

\* Every place below counts no more ends, and an end counts itself.
LEMMA EndsCounted ==
  ASSUME NEW S, NEW r \in Seq(S), NEW s
  PROVE  /\ Ends(s, r) \subseteq 1 .. Len(r) /\ EndsUpTo(s, r, 0) = 0
         /\ \A i \in 0 .. Len(r) : EndsUpTo(s, r, i) \in Nat
         /\ \A i \in 0 .. Len(r) : \A j \in Ends(s, r) :
               i < j => /\ EndsUpTo(s, r, i) < EndsUpTo(s, r, j)
                        /\ (\A l \in i + 1 .. j - 1 : l \notin Ends(s, r)) =>
                              EndsUpTo(s, r, j) = EndsUpTo(s, r, i) + 1
<1> DEFINE n == Len(r)
           up(i) == {l \in Ends(s, r) : l <= i}
<1>1. n \in Nat /\ DOMAIN r = 1 .. n
  BY LenProperties
<1> HIDE DEF n
<1>2. Ends(s, r) \subseteq 1 .. n
  BY <1>1 DEF Ends
<1>3. IsFiniteSet(1 .. n)
  BY <1>1, FS_Interval
<1>4. \A i \in 0 .. n : IsFiniteSet(up(i)) /\ Cardinality(up(i)) \in Nat
  <2> SUFFICES ASSUME NEW i \in 0 .. n PROVE IsFiniteSet(up(i)) /\ Cardinality(up(i)) \in Nat
    OBVIOUS
  <2>1. up(i) \in SUBSET (1 .. n)
    BY <1>2
  <2> HIDE DEF up
  <2>2. QED BY <1>3, <2>1, FS_Subset, FS_CardinalityType
<1>5. \A i : EndsUpTo(s, r, i) = Cardinality(up(i))
  BY DEF EndsUpTo
<1>6. EndsUpTo(s, r, 0) = 0
  <2>1. up(0) = {}
    BY <1>1, <1>2
  <2>2. QED BY <1>5, <2>1, FS_EmptySet
<1>7. ASSUME NEW i \in 0 .. n, NEW j \in Ends(s, r), i < j
      PROVE  /\ EndsUpTo(s, r, i) < EndsUpTo(s, r, j)
             /\ (\A l \in i + 1 .. j - 1 : l \notin Ends(s, r)) => EndsUpTo(s, r, j) = EndsUpTo(s, r, i) + 1
  <2>1. j \in 1 .. n
    BY <1>2
  <2>2. j \notin up(i) /\ (up(i) \cup {j}) \subseteq up(j)
    BY <1>1, <1>2, <1>7, <2>1
  <2>3. IsFiniteSet(up(i) \cup {j}) /\ Cardinality(up(i) \cup {j}) = Cardinality(up(i)) + 1
    <3>1. IsFiniteSet(up(i)) /\ j \notin up(i)
      BY <1>4, <2>2
    <3> HIDE DEF up
    <3>2. QED BY <3>1, FS_AddElement
  <2>4. /\ IsFiniteSet(up(j)) /\ Cardinality(up(i)) \in Nat /\ Cardinality(up(j)) \in Nat
    <3>1. i \in 0 .. n /\ j \in 0 .. n
      BY <1>1, <2>1
    <3> HIDE DEF up
    <3>2. QED BY <1>4, <3>1
  <2>5. Cardinality(up(i) \cup {j}) <= Cardinality(up(j))
    <3> HIDE DEF up
    <3>1. QED BY <2>2, <2>4, FS_Subset
  <2>6. (\A l \in i + 1 .. j - 1 : l \notin Ends(s, r)) => up(j) = up(i) \cup {j}
    BY <1>1, <1>2, <1>7, <2>1
  <2>7. EndsUpTo(s, r, i) = Cardinality(up(i)) /\ EndsUpTo(s, r, j) = Cardinality(up(j))
    BY <1>5
  <2> HIDE DEF up
  <2>8. EndsUpTo(s, r, i) < EndsUpTo(s, r, j)
    BY <2>3, <2>4, <2>5, <2>7
  <2>9. (\A l \in i + 1 .. j - 1 : l \notin Ends(s, r)) => EndsUpTo(s, r, j) = EndsUpTo(s, r, i) + 1
    BY <2>3, <2>6, <2>7
  <2>10. QED BY <2>8, <2>9
<1>8. QED BY <1>2, <1>4, <1>5, <1>6, <1>7 DEF n

\* An end is the one that it counts.
LEMMA NthIs ==
  ASSUME NEW S, NEW r \in Seq(S), NEW s, NEW i \in Ends(s, r)
  PROVE  Nth(s, r, EndsUpTo(s, r, i)) = i
<1>0. Len(r) \in Nat
  BY LenProperties
<1> DEFINE n == Len(r)
<1> HIDE DEF n
<1>1. /\ Ends(s, r) \subseteq 1 .. n
      /\ \A j \in 0 .. n : EndsUpTo(s, r, j) \in Nat
      /\ \A j \in 0 .. n : \A k \in Ends(s, r) : j < k => EndsUpTo(s, r, j) < EndsUpTo(s, r, k)
  BY EndsCounted DEF n
<1>2. ASSUME NEW j \in Ends(s, r), EndsUpTo(s, r, j) = EndsUpTo(s, r, i) PROVE j = i
  <2>1. i \in 1 .. n /\ j \in 1 .. n /\ n \in Nat
    BY <1>0, <1>1 DEF n
  <2>2. ~(i < j) /\ ~(j < i)
    BY <1>1, <1>2, <2>1
  <2>3. QED BY <2>1, <2>2
<1>3. QED BY <1>2 DEF Nth

\* Another byte changes nothing about those before it.
LEMMA EndsAppended ==
  ASSUME NEW S, NEW r \in Seq(S), NEW c \in S, NEW s, NEW i \in 0 .. Len(r)
  PROVE  /\ EndsUpTo(s, Append(r, c), i) = EndsUpTo(s, r, i)
         /\ i \in Ends(s, Append(r, c)) <=> i \in Ends(s, r)
<1> DEFINE n == Len(r)
           t == Append(r, c)
<1>1. n \in Nat /\ DOMAIN r = 1 .. n /\ DOMAIN t = 1 .. n + 1 /\ \A l \in 1 .. n : t[l] = r[l]
  BY LenProperties, AppendProperties
<1> HIDE DEF n, t
<1>2. \A l \in 0 .. n : l \in Ends(s, t) <=> l \in Ends(s, r)
  BY <1>1 DEF Ends
<1>3. Ends(s, t) \subseteq 1 .. n + 1 /\ Ends(s, r) \subseteq 1 .. n
  BY <1>1 DEF Ends
<1>4. {l \in Ends(s, t) : l <= i} = {l \in Ends(s, r) : l <= i}
  BY <1>1, <1>2, <1>3 DEF n
<1>5. QED BY <1>2, <1>4 DEF EndsUpTo, n, t

-----------------------------------------------------------------------------
\* When the controller translates: neither F7 nor 0, which the two tables take for different keys
ScApart(t) == t = "translated" => \A c \in Codes : c % 128 \notin {0, 65}

\* The set that the bytes are in, the one they are read in, and what the queue gets of a byte
ShownAs(t) == IF t = "translated" THEN "set1" ELSE t
ReadAs(t) == IF t = "translated" THEN "set2" ELSE t
SentAs(t, c) == IF t = "translated" THEN Untranslate(c) ELSE <<c>>

LEMMA InUntranslated == ASSUME NEW c \in 1 .. 127 PROVE Untranslated[c] \in 1 .. 132
BY DEF Untranslated

\* A byte is a prefix as it is sent if it is one in its set; only a break code is sent as two.
SentRight(t, c, q) ==
    /\ q \in Seq(0 .. 255) /\ Len(q) \in {1, 2}
    /\ Prefix(ReadAs(t), q[Len(q)]) <=> Prefix(ShownAs(t), c)
    /\ Prefix(ShownAs(t), c) => Len(q) = 1 /\ q[1] = c
    /\ t # "translated" => Len(q) = 1 /\ q[1] = c
    /\ Len(q) = 2 => q[1] = 240
    /\ t = "translated" /\ ~Prefix("set1", c) =>
         /\ q[Len(q)] = Set1ToSet2(c % 128) /\ ~Extended("set2", q[Len(q)])
         /\ (Len(q) = 2) <=> (c > 127)

LEMMA SentIs == ASSUME NEW t \in Sets, ScApart(t), NEW c \in Codes PROVE SentRight(t, c, SentAs(t, c))
<1> DEFINE x == c % 128
           u == Untranslated[x]
<1>1. c \in 0 .. 255 /\ (t = "translated" => x \in 1 .. 127 /\ x # 65)
  BY ScAssumption DEF ScApart
<1>2. CASE t # "translated"
  <2>1. SentAs(t, c) = <<c>> /\ ReadAs(t) = t /\ ShownAs(t) = t
    BY <1>2 DEF SentAs, ReadAs, ShownAs
  <2>2. QED BY <1>1, <1>2, <2>1 DEF SentRight
<1>3. CASE t = "translated"
  <2>1. ReadAs(t) = "set2" /\ ShownAs(t) = "set1" /\ SentAs(t, c) = Untranslate(c)
    BY <1>3 DEF SentAs, ReadAs, ShownAs
  <2>2. Prefix("set1", c) <=> c \div 16 = 14
    BY DEF Prefix, Extended, Break
  <2>3. \A d \in 0 .. 255 : /\ Extended("set2", d) <=> d \div 16 = 14
                            /\ Prefix("set2", d) <=> d \div 16 = 14 \/ d = 240
    BY DEF Prefix, Extended, Break
  <2>4. Set1ToSet2(x) = u /\ u \in 1 .. 132
    BY <1>1, <1>3, InUntranslated DEF Set1ToSet2
  <2> HIDE DEF u
  <2>5. u \in 0 .. 255 /\ ~Prefix("set2", u) /\ ~Extended("set2", u)
    <3>1. u \in 0 .. 255 /\ u \div 16 # 14 /\ u # 240
      BY <2>4
    <3>2. QED BY <2>3, <3>1
  <2>6. CASE c \div 16 = 14
    <3>1. Untranslate(c) = <<c>> /\ c > 127
      BY <1>1, <2>6 DEF Untranslate, Undo
    <3>2. Prefix("set2", c)
      BY <1>1, <2>3, <2>6
    <3>3. Len(<<c>>) = 1 /\ <<c>>[1] = c /\ <<c>> \in Seq(0 .. 255)
      BY <1>1
    <3>4. Prefix("set1", c)
      BY <2>2, <2>6
    <3> HIDE DEF x
    <3>5. SentRight(t, c, <<c>>)
      BY <1>3, <2>1, <3>2, <3>3, <3>4 DEF SentRight
    <3>6. QED BY <2>1, <3>1, <3>5
  <2>7. CASE c \div 16 # 14 /\ c > 127
    <3>1. Untranslate(c) = <<240, u>>
      BY <1>1, <1>3, <2>7 DEF Untranslate, Undo, u
    <3> HIDE DEF x
    <3>2. /\ Len(<<240, u>>) = 2 /\ <<240, u>>[2] = u /\ <<240, u>>[1] = 240
          /\ <<240, u>> \in Seq(0 .. 255)
      BY <2>5
    <3>3. ~Prefix("set1", c) /\ Set1ToSet2(c % 128) = u
      BY <2>2, <2>4, <2>7 DEF x
    <3>4. SentRight(t, c, <<240, u>>)
      BY <1>3, <2>1, <2>5, <2>7, <3>2, <3>3 DEF SentRight
    <3>5. QED BY <2>1, <3>1, <3>4
  <2>8. CASE c \div 16 # 14 /\ c <= 127
    <3>1. x = c
      BY <1>1, <2>8
    <3>2. Untranslate(c) = <<u>>
      BY <1>1, <1>3, <2>8, <3>1 DEF Untranslate, Undo, u
    <3> HIDE DEF x
    <3>3. Len(<<u>>) = 1 /\ <<u>>[1] = u /\ <<u>> \in Seq(0 .. 255)
      BY <2>5
    <3>4. ~Prefix("set1", c) /\ Set1ToSet2(c % 128) = u /\ ~(c > 127)
      BY <1>1, <2>2, <2>4, <2>8 DEF x
    <3>5. SentRight(t, c, <<u>>)
      BY <1>3, <2>1, <2>5, <3>3, <3>4 DEF SentRight
    <3>6. QED BY <2>1, <3>2, <3>5
  <2>9. QED BY <1>1, <2>6, <2>7, <2>8
<1>4. QED BY <1>2, <1>3

-----------------------------------------------------------------------------
\* What is queued is what was sent of the bytes after the P-th: that of the i-th ends at at[i].
ScSent(r, t, P, q, at) ==
    /\ q \in Seq(0 .. 255) /\ r \in Seq(Codes) /\ P \in 0 .. Len(r)
    /\ at \in [P .. Len(r) -> Nat] /\ at[P] = 0 /\ at[Len(r)] = Len(q)
    /\ \A i \in P + 1 .. Len(r) :
         /\ at[i] = at[i - 1] + Len(SentAs(t, r[i]))
         /\ q[at[i]] = SentAs(t, r[i])[Len(SentAs(t, r[i]))]
         /\ Len(SentAs(t, r[i])) = 2 => q[at[i] - 1] = 240
    /\ \A i, j \in P .. Len(r) : i <= j =>
         /\ at[j] >= at[i] + (j - i)
         /\ (\A l \in i + 1 .. j : Len(SentAs(t, r[l])) = 1) => at[j] = at[i] + (j - i)

\* A byte more is received.
LEMMA SentMore ==
  ASSUME NEW t \in Sets, ScApart(t), NEW r, NEW P, NEW q, NEW at, ScSent(r, t, P, q, at), NEW c \in Codes
  PROVE  \E a : ScSent(Append(r, c), t, P, q \o SentAs(t, c), a)
<1> DEFINE n == Len(r)
           m == Len(q)
           s == SentAs(t, c)
           k == Len(s)
           rr == Append(r, c)
           qq == q \o s
           a == [i \in P .. n + 1 |-> IF i = n + 1 THEN m + k ELSE at[i]]
           w(i) == Len(SentAs(t, rr[i]))
<1>1. /\ q \in Seq(0 .. 255) /\ r \in Seq(Codes) /\ n \in Nat /\ m \in Nat /\ P \in 0 .. n
      /\ at \in [P .. n -> Nat] /\ at[P] = 0 /\ at[n] = m
  BY LenProperties DEF ScSent
<1>2. s \in Seq(0 .. 255) /\ k \in {1, 2} /\ (k = 2 => s[1] = 240)
  BY SentIs DEF SentRight
<1> HIDE DEF s
<1>3. /\ qq \in Seq(0 .. 255) /\ Len(qq) = m + k
      /\ \A i \in 1 .. m : qq[i] = q[i]
      /\ \A i \in 1 .. k : qq[m + i] = s[i]
  <2>1. k \in Nat
    BY <1>2
  <2>2. QED BY <1>1, <1>2, <2>1, ConcatProperties
<1>4. /\ rr \in Seq(Codes) /\ Len(rr) = n + 1 /\ rr[n + 1] = c
      /\ \A i \in 1 .. n : rr[i] = r[i]
  BY <1>1, AppendProperties
<1>5. \A i \in P + 1 .. n :
         /\ at[i] = at[i - 1] + Len(SentAs(t, r[i]))
         /\ q[at[i]] = SentAs(t, r[i])[Len(SentAs(t, r[i]))]
         /\ Len(SentAs(t, r[i])) = 2 => q[at[i] - 1] = 240
  BY DEF ScSent
<1>6. \A i, j \in P .. n : i <= j =>
         /\ at[j] >= at[i] + (j - i)
         /\ (\A l \in i + 1 .. j : Len(SentAs(t, r[l])) = 1) => at[j] = at[i] + (j - i)
  BY DEF ScSent
<1>7. \A i \in P + 1 .. n : at[i] \in 1 .. m /\ at[i - 1] \in 0 .. at[i] /\ (Len(SentAs(t, r[i])) = 2 => at[i] - 1 \in 1 .. m)
  <2> SUFFICES ASSUME NEW i \in P + 1 .. n
               PROVE  at[i] \in 1 .. m /\ at[i - 1] \in 0 .. at[i] /\ (Len(SentAs(t, r[i])) = 2 => at[i] - 1 \in 1 .. m)
    OBVIOUS
  <2>1. at[i] >= at[i - 1] + 1 /\ m >= at[i] + (n - i) /\ at[i] \in Nat /\ at[i - 1] \in Nat
    <3>1. i \in P .. n /\ i - 1 \in P .. n /\ n \in P .. n
      BY <1>1
    <3>2. i - 1 <= i /\ i <= n /\ i - (i - 1) = 1
      BY <1>1
    <3>3. QED BY <1>1, <1>6, <3>1, <3>2
  <2>2. at[i] = at[i - 1] + Len(SentAs(t, r[i]))
    BY <1>5
  <2>3. n - i \in Nat
    BY <1>1
  <2> HIDE DEF n, m
  <2>4. ASSUME NEW x \in Nat, NEW y \in Nat, NEW z \in Nat, NEW l, m \in Nat, x >= y + 1, m >= x + z, x = y + l
        PROVE  x \in 1 .. m /\ y \in 0 .. x /\ (l = 2 => x - 1 \in 1 .. m)
    BY <2>4
  <2>5. QED BY <1>1, <2>1, <2>2, <2>3, <2>4
<1> HIDE DEF n, m, k, rr, qq
<1>8. /\ a \in [P .. n + 1 -> Nat] /\ a[P] = 0 /\ a[n + 1] = m + k
      /\ \A i \in P .. n : a[i] = at[i]
  BY <1>1, <1>2
<1> HIDE DEF a
<1>9. ASSUME NEW i \in P + 1 .. n + 1
      PROVE  /\ a[i] = a[i - 1] + Len(SentAs(t, rr[i]))
             /\ qq[a[i]] = SentAs(t, rr[i])[Len(SentAs(t, rr[i]))]
             /\ Len(SentAs(t, rr[i])) = 2 => qq[a[i] - 1] = 240
  <2>1. CASE i = n + 1
    <3>1. SentAs(t, rr[i]) = s /\ a[i] = m + k /\ a[i - 1] = m
      BY <1>1, <1>4, <1>8, <2>1 DEF s
    <3>2. qq[m + k] = s[k] /\ (k = 2 => qq[m + k - 1] = s[1])
      BY <1>1, <1>2, <1>3
    <3>3. QED BY <1>1, <1>2, <3>1, <3>2 DEF k
  <2>2. CASE i # n + 1
    <3>1. i \in P + 1 .. n /\ i \in P .. n /\ i - 1 \in P .. n /\ i \in 1 .. n
      BY <1>1, <2>2
    <3>2. rr[i] = r[i] /\ a[i] = at[i] /\ a[i - 1] = at[i - 1]
      BY <1>4, <1>8, <3>1
    <3>3. qq[at[i]] = q[at[i]] /\ (Len(SentAs(t, r[i])) = 2 => qq[at[i] - 1] = q[at[i] - 1])
      BY <1>3, <1>7, <3>1
    <3>4. QED BY <1>5, <3>1, <3>2, <3>3
  <2>3. QED BY <2>1, <2>2
<1>10. ASSUME NEW i \in P .. n + 1, NEW j \in P .. n + 1, i <= j
       PROVE  /\ a[j] >= a[i] + (j - i)
              /\ (\A l \in i + 1 .. j : Len(SentAs(t, rr[l])) = 1) => a[j] = a[i] + (j - i)
  <2>1. CASE j <= n
    <3>1. i \in P .. n /\ j \in P .. n /\ \A l \in i + 1 .. j : l \in 1 .. n
      BY <1>1, <1>10, <2>1
    <3>2. a[i] = at[i] /\ a[j] = at[j] /\ \A l \in i + 1 .. j : rr[l] = r[l]
      BY <1>4, <1>8, <3>1
    <3>3. QED BY <1>6, <1>10, <3>1, <3>2
  <2>2. CASE j = n + 1 /\ i = n + 1
    BY <1>1, <1>2, <1>8, <2>2
  <2>3. CASE j = n + 1 /\ i <= n
    <3>1. i \in P .. n /\ n \in P .. n /\ i <= n
      BY <1>1, <2>3
    <3>2. a[i] = at[i] /\ a[j] = m + k /\ at[n] = m /\ at[i] \in Nat
      BY <1>1, <1>8, <2>3, <3>1
    <3>3. m >= at[i] + (n - i)
      BY <1>6, <3>1, <3>2
    <3>4. a[j] >= a[i] + (j - i)
      BY <1>1, <1>2, <2>3, <3>1, <3>2, <3>3
    <3>5. ASSUME \A l \in i + 1 .. j : Len(SentAs(t, rr[l])) = 1 PROVE a[j] = a[i] + (j - i)
      <4>1. n + 1 \in i + 1 .. j /\ \A l \in i + 1 .. n : l \in i + 1 .. j /\ l \in 1 .. n
        BY <1>1, <2>3, <3>1
      <4>2. k = 1
        BY <1>4, <3>5, <4>1 DEF k, s
      <4>3. \A l \in i + 1 .. n : Len(SentAs(t, r[l])) = 1
        BY <1>4, <3>5, <4>1
      <4>4. m = at[i] + (n - i)
        BY <1>6, <3>1, <3>2, <4>3
      <4>5. QED BY <1>1, <2>3, <3>1, <3>2, <4>2, <4>4
    <3>6. QED BY <3>4, <3>5
  <2>4. QED BY <1>1, <2>1, <2>2, <2>3
<1>11. P \in 0 .. n + 1
  BY <1>1
<1>12. ScSent(rr, t, P, qq, a)
  BY <1>3, <1>4, <1>8, <1>9, <1>10, <1>11 DEF ScSent
<1>13. QED BY <1>12 DEF rr, qq, s

\* The bytes up to the N-th are extracted.
LEMMA SentLess ==
  ASSUME NEW t \in Sets, ScApart(t), NEW r, NEW P, NEW q, NEW at, ScSent(r, t, P, q, at), NEW N \in P .. Len(r)
  PROVE  /\ at[N] \in 0 .. Len(q)
         /\ \E a : ScSent(r, t, N, SubSeq(q, at[N] + 1, Len(q)), a)
<1> DEFINE n == Len(r)
           m == Len(q)
           v == at[N]
           qq == SubSeq(q, v + 1, m)
           a == [i \in N .. n |-> at[i] - v]
<1>1. /\ q \in Seq(0 .. 255) /\ r \in Seq(Codes) /\ n \in Nat /\ m \in Nat /\ P \in 0 .. n
      /\ at \in [P .. n -> Nat] /\ at[n] = m /\ N \in P .. n /\ N \in 0 .. n
  BY LenProperties DEF ScSent
<1>2. \A i \in P + 1 .. n :
         /\ at[i] = at[i - 1] + Len(SentAs(t, r[i]))
         /\ q[at[i]] = SentAs(t, r[i])[Len(SentAs(t, r[i]))]
         /\ Len(SentAs(t, r[i])) = 2 => q[at[i] - 1] = 240
  BY DEF ScSent
<1>3. \A i, j \in P .. n : i <= j =>
         /\ at[j] >= at[i] + (j - i)
         /\ (\A l \in i + 1 .. j : Len(SentAs(t, r[l])) = 1) => at[j] = at[i] + (j - i)
  BY DEF ScSent
<1> HIDE DEF n, m
<1>4. \A i \in N .. n : at[i] \in Nat /\ at[i] >= v + (i - N) /\ m >= at[i] + (n - i) /\ i \in P .. n
  <2> SUFFICES ASSUME NEW i \in N .. n
               PROVE  at[i] \in Nat /\ at[i] >= v + (i - N) /\ m >= at[i] + (n - i) /\ i \in P .. n
    OBVIOUS
  <2>1. i \in P .. n /\ n \in P .. n /\ N <= i /\ i <= n
    BY <1>1
  <2>2. QED BY <1>1, <1>3, <2>1
<1>5. v \in 0 .. m
  <2>1. N \in N .. n
    BY <1>1
  <2>2. v \in Nat /\ m >= v + (n - N) /\ n - N \in Nat
    BY <1>1, <1>4, <2>1
  <2> HIDE DEF v
  <2>3. QED BY <1>1, <2>2
<1>6. /\ qq \in Seq(0 .. 255) /\ Len(qq) = m - v
      /\ \A i \in 1 .. m - v : qq[i] = q[v + i]
  <2> HIDE DEF v
  <2>1. \A i \in v + 1 .. m : q[i] \in 0 .. 255
    <3>1. \A i \in 1 .. Len(q) : q[i] \in 0 .. 255
      BY <1>1, ElementOfSeq
    <3>2. QED BY <1>5, <3>1 DEF m
  <2>2. v + 1 \in Nat /\ v + 1 - 1 = v /\ v + 1 <= m + 1
    BY <1>1, <1>5
  <2>3. /\ qq \in Seq(0 .. 255) /\ Len(qq) = (IF v + 1 <= m THEN m - (v + 1) + 1 ELSE 0)
        /\ \A i \in 1 .. m - (v + 1) + 1 : qq[i] = q[v + 1 + i - 1]
    BY <1>1, <1>5, <2>1, <2>2, SubSeqProperties DEF m
  <2> HIDE DEF qq
  <2>4. QED BY <1>1, <1>5, <2>3
<1> HIDE DEF qq
<1>7. /\ a \in [N .. n -> Nat] /\ a[N] = 0 /\ a[n] = m - v
      /\ \A i \in N .. n : a[i] = at[i] - v
  <2>1. \A i \in N .. n : at[i] - v \in Nat
    <3> SUFFICES ASSUME NEW i \in N .. n PROVE at[i] - v \in Nat
      OBVIOUS
    <3>1. at[i] \in Nat /\ at[i] >= v + (i - N) /\ i - N \in Nat
      BY <1>1, <1>4
    <3> HIDE DEF v
    <3>2. QED BY <1>5, <3>1
  <2>2. N \in N .. n /\ n \in N .. n /\ v - v = 0
    BY <1>1, <1>5
  <2>3. QED BY <1>1, <2>1, <2>2
<1> HIDE DEF a
<1>8. ASSUME NEW i \in N + 1 .. n
      PROVE  /\ a[i] = a[i - 1] + Len(SentAs(t, r[i]))
             /\ qq[a[i]] = SentAs(t, r[i])[Len(SentAs(t, r[i]))]
             /\ Len(SentAs(t, r[i])) = 2 => qq[a[i] - 1] = 240
  <2>1. i \in N .. n /\ i - 1 \in N .. n /\ i \in P + 1 .. n
    BY <1>1
  <2>2. /\ at[i] \in Nat /\ at[i - 1] \in Nat /\ at[i] >= v + (i - N) /\ m >= at[i] + (n - i)
        /\ at[i - 1] >= v + (i - 1 - N)
    BY <1>4, <2>1
  <2>3. at[i] = at[i - 1] + Len(SentAs(t, r[i]))
    BY <1>2, <2>1
  <2>4. a[i] = at[i] - v /\ a[i - 1] = at[i - 1] - v
    BY <1>7, <2>1
  <2>5. i - N \in Nat \ {0} /\ n - i \in Nat /\ i - 1 - N \in Nat
    BY <1>1
  <2>6. Len(SentAs(t, r[i])) \in {1, 2}
    <3>1. r[i] \in Codes
      <4>1. i \in 1 .. n
        BY <1>1, <2>1
      <4>2. QED BY <1>1, <4>1, ElementOfSeq DEF n
    <3>2. QED BY <3>1, SentIs DEF SentRight
  <2> DEFINE x == at[i]
             y == at[i - 1]
             k == Len(SentAs(t, r[i]))
  <2>8. /\ x - v = y - v + k
        /\ x - v \in 1 .. m - v /\ v + (x - v) = x
        /\ k = 2 => x - v - 1 \in 1 .. m - v
        /\ v + (x - v - 1) = x - 1
    <3> DEFINE f == i - 1 - N
               g == n - i
    <3>1. /\ x \in Nat /\ y \in Nat /\ k \in {1, 2} /\ f \in Nat /\ g \in Nat
          /\ x = y + k /\ m >= x + g /\ y >= v + f
      BY <2>2, <2>3, <2>5, <2>6
    <3> HIDE DEF x, y, k, v, f, g
    <3>2. v \in 0 .. m
      BY <1>5
    <3>3. QED BY <1>1, <3>1, <3>2
  <2>9. a[i] = x - v /\ a[i - 1] = y - v
    BY <2>4
  <2>10. q[x] = SentAs(t, r[i])[k] /\ (k = 2 => q[x - 1] = 240)
    BY <1>2, <2>1
  <2> HIDE DEF x, y, v
  <2>11. qq[x - v] = q[x] /\ (k = 2 => qq[x - v - 1] = q[x - 1])
    BY <1>6, <2>8
  <2>12. QED BY <2>8, <2>9, <2>10, <2>11
<1>9. ASSUME NEW i \in N .. n, NEW j \in N .. n, i <= j
      PROVE  /\ a[j] >= a[i] + (j - i)
             /\ (\A l \in i + 1 .. j : Len(SentAs(t, r[l])) = 1) => a[j] = a[i] + (j - i)
  <2>1. i \in P .. n /\ j \in P .. n /\ a[i] = at[i] - v /\ a[j] = at[j] - v /\ at[i] \in Nat /\ at[j] \in Nat
    BY <1>4, <1>7
  <2>2. /\ at[j] >= at[i] + (j - i)
        /\ (\A l \in i + 1 .. j : Len(SentAs(t, r[l])) = 1) => at[j] = at[i] + (j - i)
    BY <1>3, <1>9, <2>1
  <2>3. ASSUME NEW x \in Nat, NEW y \in Nat, NEW d \in Nat, NEW e \in 0 .. m
        PROVE  (y >= x + d => y - e >= x - e + d) /\ (y = x + d => y - e = x - e + d)
    BY <1>1
  <2>4. j - i \in Nat
    BY <1>1, <1>9
  <2> HIDE DEF v
  <2>5. QED BY <1>5, <2>1, <2>2, <2>3, <2>4
<1>10. ScSent(r, t, N, qq, a)
  BY <1>1, <1>6, <1>7, <1>8, <1>9 DEF ScSent, n
<1>11. QED BY <1>5, <1>10 DEF qq, m

\* The bytes of one sequence: prefixes and a byte that is none.
OneShown(R) == R \in Seq(Codes) /\ Len(R) > 0 /\ \A i \in 1 .. Len(R) : Prefix("set1", R[i]) <=> i < Len(R)

\* What was sent of the sequence R, when translation is undone, has the key of R.
Last(E) == CHOOSE i \in E : \A j \in E : j <= i

LEMMA SameKey ==
  ASSUME NEW R, NEW Q, NEW L \in Nat \ {0}, NEW M \in {L, L + 1},
         Len(R) = L, OneShown(R), Q \in Seq(0 .. 255), Len(Q) = M,
         \A i \in 1 .. L - 1 : Q[i] = R[i],
         Q[M] = Set1ToSet2(R[L] % 128), ~Extended("set2", Q[M]),
         (M = L + 1) <=> R[L] > 127, M = L + 1 => Q[L] = 240
  PROVE  DecodeKey("set2", Q) = DecodeKey("set1", R)
<1> DEFINE Es(s, q) == {i \in DOMAIN q : Extended(s, q[i])}
           Ext(s, q) == IF Es(s, q) = {} THEN 0 ELSE q[Last(Es(s, q))]
           up2 == \E i \in 1 .. M - 1 : Break("set2", Q[i])
           up1 == R[L] > 127
<1>1. DOMAIN R = 1 .. L /\ DOMAIN Q = 1 .. M
  BY LenProperties DEF OneShown
<1>2. \A i \in 1 .. L : R[i] \in 0 .. 255 /\ (Extended("set1", R[i]) <=> i < L) /\ (R[i] \div 16 = 14 <=> i < L)
  <2> SUFFICES ASSUME NEW i \in 1 .. L
               PROVE  R[i] \in 0 .. 255 /\ (Extended("set1", R[i]) <=> i < L) /\ (R[i] \div 16 = 14 <=> i < L)
    OBVIOUS
  <2>1. R[i] \in 0 .. 255 /\ (Prefix("set1", R[i]) <=> i < L)
    BY ElementOfSeq, ScAssumption DEF OneShown
  <2>2. QED BY <2>1 DEF Prefix, Extended, Break
<1>3. Es("set2", Q) = 1 .. L - 1 /\ Es("set1", R) = 1 .. L - 1
  <2>1. Es("set1", R) = 1 .. L - 1
    BY <1>1, <1>2
  <2>2. ASSUME NEW i \in 1 .. M PROVE Extended("set2", Q[i]) <=> i < L
    <3>1. CASE i < L
      BY <1>2, <3>1 DEF Extended
    <3>2. CASE i = M
      BY <3>2
    <3>3. CASE i # M /\ i >= L
      <4>1. i = L /\ M = L + 1
        BY <3>3
      <4>2. QED BY <3>3, <4>1 DEF Extended
    <3>4. QED BY <3>1, <3>2, <3>3
  <2>3. QED BY <1>1, <2>1, <2>2
<1>4. Ext("set2", Q) = Ext("set1", R)
  <2>1. CASE L = 1
    BY <1>3, <2>1
  <2>2. CASE L > 1
    <3> DEFINE m == Last(1 .. L - 1)
    <3>1. L - 1 \in 1 .. L - 1 /\ \A j \in 1 .. L - 1 : j <= L - 1
      BY <2>2
    <3>2. m \in 1 .. L - 1
      BY <3>1 DEF Last
    <3>3. Q[m] = R[m]
      BY <3>2
    <3>4. 1 .. L - 1 # {}
      BY <3>1
    <3> HIDE DEF Es
    <3>5. Ext("set2", Q) = Q[m] /\ Ext("set1", R) = R[m]
      BY <1>3, <3>4
    <3>6. QED BY <3>3, <3>5
  <2>3. QED BY <2>1, <2>2
<1>5. up2 <=> up1
  <2>1. \A i \in 1 .. L - 1 : ~Break("set2", Q[i])
    BY <1>2 DEF Break
  <2>2. M = L + 1 => Break("set2", Q[L]) /\ L \in 1 .. M - 1
    BY DEF Break
  <2>3. QED BY <2>1, <2>2
<1>6. DecodeKey("set2", Q) = [up |-> up2, key |-> Set2Key(Ext("set2", Q), Q[M])]
  <2>1. ((\E i \in 1 .. Len(Q) - 1 : Break("set2", Q[i])) \/ ("set2" = "set1" /\ Q[Len(Q)] > 127)) <=> up2
    BY "set2" # "set1", Zenon
  <2> DEFINE kk == CASE "set2" = "set1" -> Set2Key(Ext("set2", Q), Set1ToSet2(Q[Len(Q)] % 128))
                     [] "set2" = "set2" -> Set2Key(Ext("set2", Q), Q[Len(Q)])
                     [] "set2" = "set3" -> Set3Key(Q[Len(Q)])
             uu == (\E i \in 1 .. Len(Q) - 1 : Break("set2", Q[i])) \/ ("set2" = "set1" /\ Q[Len(Q)] > 127)
  <2>2. kk = Set2Key(Ext("set2", Q), Q[M])
    <3> HIDE DEF Ext
    <3>1. QED OBVIOUS
  <2>3. DecodeKey("set2", Q) = [up |-> uu, key |-> kk]
    BY Zenon DEF DecodeKey, Last
  <2>4. uu = up2
    <3>1. uu \in BOOLEAN /\ up2 \in BOOLEAN
      BY Zenon
    <3>2. QED BY <2>1, <3>1, Zenon
  <2> HIDE DEF kk, uu
  <2>5. QED BY <2>2, <2>3, <2>4
<1>7. DecodeKey("set1", R) = [up |-> up1, key |-> Set2Key(Ext("set1", R), Set1ToSet2(R[L] % 128))]
  <2>1. \A d : ~Break("set1", d)
    BY DEF Break
  <2>2. ((\E i \in 1 .. Len(R) - 1 : Break("set1", R[i])) \/ ("set1" = "set1" /\ R[Len(R)] > 127)) <=> up1
    BY <2>1, Zenon
  <2>3. QED BY <2>2 DEF DecodeKey, Last
<1>8. up2 = up1
  <2>1. up2 \in BOOLEAN /\ up1 \in BOOLEAN
    OBVIOUS
  <2> HIDE DEF up1, up2
  <2>2. QED BY <1>5, <2>1
<1> HIDE DEF Ext, up1, up2
<1>9. QED BY <1>4, <1>6, <1>7, <1>8

\* Where N is the first end after P, what was sent of P + 1 .. N is the first sequence queued.
LEMMA SentEnd ==
  ASSUME NEW t \in Sets, ScApart(t), NEW r, NEW P, NEW q, NEW at, ScSent(r, t, P, q, at),
         NEW N \in P + 1 .. Len(r), \A l \in P + 1 .. N - 1 : Prefix(ShownAs(t), r[l])
  PROVE  /\ at[N] \in 1 .. Len(q) /\ at[N] = N - 1 - P + Len(SentAs(t, r[N]))
         /\ \A l \in P + 1 .. N - 1 : q[l - P] = r[l]
         /\ q[at[N]] = SentAs(t, r[N])[Len(SentAs(t, r[N]))]
         /\ Len(SentAs(t, r[N])) = 2 => q[at[N] - 1] = 240
<1> DEFINE n == Len(r)
           m == Len(q)
           k == Len(SentAs(t, r[N]))
<1>1. /\ q \in Seq(0 .. 255) /\ r \in Seq(Codes) /\ n \in Nat /\ m \in Nat /\ P \in 0 .. n
      /\ at \in [P .. n -> Nat] /\ at[P] = 0 /\ at[n] = m /\ N \in P + 1 .. n
      /\ \A l \in 1 .. n : r[l] \in Codes
  BY LenProperties, ElementOfSeq DEF ScSent
<1>2. \A i \in P + 1 .. n :
         /\ at[i] = at[i - 1] + Len(SentAs(t, r[i]))
         /\ q[at[i]] = SentAs(t, r[i])[Len(SentAs(t, r[i]))]
         /\ Len(SentAs(t, r[i])) = 2 => q[at[i] - 1] = 240
  BY DEF ScSent
<1>3. \A i, j \in P .. n : i <= j =>
         /\ at[j] >= at[i] + (j - i)
         /\ (\A l \in i + 1 .. j : Len(SentAs(t, r[l])) = 1) => at[j] = at[i] + (j - i)
  BY DEF ScSent
<1> HIDE DEF n, m
<1>4. \A l \in P + 1 .. N - 1 : Len(SentAs(t, r[l])) = 1 /\ SentAs(t, r[l])[1] = r[l]
  <2> SUFFICES ASSUME NEW l \in P + 1 .. N - 1 PROVE Len(SentAs(t, r[l])) = 1 /\ SentAs(t, r[l])[1] = r[l]
    OBVIOUS
  <2>1. r[l] \in Codes
    BY <1>1
  <2>2. QED BY <2>1, SentIs DEF SentRight
<1>5. \A i \in P .. N - 1 : at[i] = i - P
  <2> SUFFICES ASSUME NEW i \in P .. N - 1 PROVE at[i] = i - P
    OBVIOUS
  <2>1. P \in P .. n /\ i \in P .. n /\ P <= i /\ \A l \in P + 1 .. i : l \in P + 1 .. N - 1
    BY <1>1
  <2>2. at[i] = at[P] + (i - P)
    BY <1>3, <1>4, <2>1
  <2>3. QED BY <1>1, <2>1, <2>2
<1>6. \A l \in P + 1 .. N - 1 : q[l - P] = r[l]
  <2> SUFFICES ASSUME NEW l \in P + 1 .. N - 1 PROVE q[l - P] = r[l]
    OBVIOUS
  <2>1. l \in P + 1 .. n /\ l \in P .. N - 1
    BY <1>1
  <2>2. at[l] = l - P /\ q[at[l]] = SentAs(t, r[l])[Len(SentAs(t, r[l]))]
    BY <1>2, <1>5, <2>1
  <2>3. QED BY <1>4, <2>2
<1>7. at[N] = N - 1 - P + k
  <2>1. N \in P + 1 .. n /\ N - 1 \in P .. N - 1
    BY <1>1
  <2>2. at[N] = at[N - 1] + k /\ at[N - 1] = N - 1 - P
    BY <1>2, <1>5, <2>1
  <2>3. QED BY <2>2
<1>8. at[N] \in 1 .. m
  <2>1. N \in P .. n /\ n \in P .. n /\ N <= n /\ P \in P .. n /\ P <= N
    BY <1>1
  <2>2. m >= at[N] + (n - N) /\ at[N] >= N - P /\ at[N] \in Nat
    <3>1. at[n] >= at[N] + (n - N) /\ at[N] >= at[P] + (N - P)
      BY <1>3, <2>1
    <3>2. at[N] \in Nat
      BY <1>1, <2>1
    <3>3. QED BY <1>1, <3>1, <3>2
  <2>3. n - N \in Nat /\ N - P \in Nat \ {0}
    BY <1>1
  <2>4. QED BY <1>1, <2>2, <2>3
<1>9. N \in P + 1 .. n
  BY <1>1
<1>10. QED BY <1>2, <1>6, <1>7, <1>8, <1>9 DEF m

\* A sequence that is queued whole is that of the bytes up to their next end, with its key.
LEMMA SentFirst ==
  ASSUME NEW t \in Sets, ScApart(t), NEW r, NEW P, NEW q, NEW at, ScSent(r, t, P, q, at),
         \E i \in DOMAIN q : ~Prefix(ReadAs(t), q[i])
  PROVE  \E N \in P + 1 .. Len(r) :
           /\ N \in Ends(ShownAs(t), r) /\ \A l \in P + 1 .. N - 1 : l \notin Ends(ShownAs(t), r)
           /\ First(ReadAs(t), q) = at[N]
           /\ DecodeKey(ReadAs(t), SubSeq(q, 1, at[N])) = DecodeKey(ShownAs(t), SubSeq(r, P + 1, N))
<1> DEFINE n == Len(r)
           m == Len(q)
           E == {l \in P + 1 .. n : ~Prefix(ShownAs(t), r[l])}
<1>1. /\ q \in Seq(0 .. 255) /\ r \in Seq(Codes) /\ n \in Nat /\ m \in Nat /\ P \in 0 .. n
      /\ at[P] = 0 /\ at[n] = m /\ DOMAIN q = 1 .. m /\ DOMAIN r = 1 .. n
      /\ \A l \in 1 .. n : r[l] \in Codes
  BY LenProperties, ElementOfSeq DEF ScSent
<1>2. \A l \in 1 .. n : l \in Ends(ShownAs(t), r) <=> ~Prefix(ShownAs(t), r[l])
  BY <1>1 DEF Ends
<1>3. PICK f \in 1 .. m : ~Prefix(ReadAs(t), q[f])
  BY <1>1
<1> HIDE DEF n, m
<1>4. E # {}
  <2> SUFFICES ASSUME E = {} PROVE FALSE
    OBVIOUS
  <2>1. \A l \in P + 1 .. n : Prefix(ShownAs(t), r[l])
    OBVIOUS
  <2>2. CASE n = P
    BY <1>1, <1>3, <2>2
  <2>3. CASE n # P
    <3>1. n \in P + 1 .. n /\ \A l \in P + 1 .. n - 1 : l \in P + 1 .. n
      BY <1>1, <2>3
    <3>2. /\ at[n] = n - 1 - P + Len(SentAs(t, r[n]))
          /\ \A l \in P + 1 .. n - 1 : q[l - P] = r[l]
          /\ q[at[n]] = SentAs(t, r[n])[Len(SentAs(t, r[n]))]
      BY <2>1, <3>1, SentEnd DEF n
    <3>3. /\ Len(SentAs(t, r[n])) = 1
          /\ Prefix(ReadAs(t), SentAs(t, r[n])[Len(SentAs(t, r[n]))])
      <4>1. r[n] \in Codes /\ Prefix(ShownAs(t), r[n])
        BY <1>1, <2>1, <3>1
      <4>2. QED BY <4>1, SentIs DEF SentRight
    <3>4. m = n - P /\ Prefix(ReadAs(t), q[m])
      BY <1>1, <3>2, <3>3
    <3>5. CASE f = m
      BY <1>3, <3>4, <3>5
    <3>6. CASE f # m
      <4>1. f + P \in P + 1 .. n - 1 /\ f + P - P = f /\ f + P \in 1 .. n
        BY <1>1, <1>3, <3>4, <3>6
      <4>2. q[f] = r[f + P] /\ r[f + P] \in Codes /\ Prefix(ShownAs(t), r[f + P])
        BY <1>1, <2>1, <3>1, <3>2, <4>1
      <4>3. Prefix(ReadAs(t), r[f + P])
        BY <4>2, SentIs DEF SentRight
      <4>4. QED BY <1>3, <4>2, <4>3
    <3>7. QED BY <3>5, <3>6
  <2>4. QED BY <2>2, <2>3
<1>5. PICK N \in E : \A l \in E : ~(l < N)
  <2>1. E \subseteq Nat
    BY <1>1
  <2> HIDE DEF E
  <2>2. PICK N \in E : \A l \in E : <<l, N>> \notin OpToRel(<, Nat)
    BY <1>4, <2>1, NatLessThanWellFounded, WFMin
  <2>3. QED BY <2>1, <2>2 DEF OpToRel
<1>6. /\ N \in P + 1 .. n /\ ~Prefix(ShownAs(t), r[N]) /\ N \in 1 .. n /\ r[N] \in Codes
      /\ \A l \in P + 1 .. N - 1 : Prefix(ShownAs(t), r[l]) /\ l \in 1 .. n
  <2>1. N \in P + 1 .. n /\ ~Prefix(ShownAs(t), r[N])
    OBVIOUS
  <2>2. N \in 1 .. n /\ \A l \in P + 1 .. N - 1 : l \in 1 .. n /\ l \in P + 1 .. n /\ l < N
    BY <1>1, <2>1
  <2>3. QED BY <1>1, <1>5, <2>1, <2>2
<1> DEFINE s == SentAs(t, r[N])
           k == Len(s)
           M == at[N]
           L == N - P
<1>7. /\ M \in 1 .. m /\ M = N - 1 - P + k
      /\ \A l \in P + 1 .. N - 1 : q[l - P] = r[l]
      /\ q[M] = s[k] /\ (k = 2 => q[M - 1] = 240)
  BY <1>6, SentEnd DEF n, m
<1>8. SentRight(t, r[N], s)
  BY <1>6, SentIs
<1>9. /\ k \in {1, 2} /\ ~Prefix(ReadAs(t), q[M]) /\ (t # "translated" => k = 1 /\ s[1] = r[N])
      /\ t = "translated" => /\ q[M] = Set1ToSet2(r[N] % 128) /\ ~Extended("set2", q[M])
                             /\ (k = 2) <=> r[N] > 127
  BY <1>6, <1>7, <1>8 DEF SentRight, ShownAs
<1> HIDE DEF s, k, M, E
<1>10. L \in Nat \ {0} /\ M \in {L, L + 1} /\ (M = L + 1 <=> k = 2)
  BY <1>1, <1>6, <1>7, <1>9
<1> HIDE DEF L
<1>11. \A i \in 1 .. L - 1 : q[i] = r[P + i] /\ P + i \in P + 1 .. N - 1
  <2> SUFFICES ASSUME NEW i \in 1 .. L - 1 PROVE q[i] = r[P + i] /\ P + i \in P + 1 .. N - 1
    OBVIOUS
  <2> DEFINE l == P + i
  <2>1. l \in P + 1 .. N - 1 /\ l - P = i
    BY <1>1, <1>6 DEF L
  <2> HIDE DEF l
  <2>2. q[l - P] = r[l]
    BY <1>7, <2>1
  <2>3. QED BY <2>1, <2>2 DEF l
<1>12. \A i \in 1 .. M - 1 : Prefix(ReadAs(t), q[i])
  <2> SUFFICES ASSUME NEW i \in 1 .. M - 1 PROVE Prefix(ReadAs(t), q[i])
    OBVIOUS
  <2>1. CASE i \in 1 .. L - 1
    <3>1. q[i] = r[P + i] /\ r[P + i] \in Codes /\ Prefix(ShownAs(t), r[P + i])
      BY <1>1, <1>6, <1>11, <2>1
    <3>2. QED BY <3>1, SentIs DEF SentRight
  <2>2. CASE i \notin 1 .. L - 1
    <3>1. i = M - 1 /\ k = 2
      BY <1>7, <1>10, <2>2
    <3>2. q[i] = 240 /\ t = "translated"
      BY <1>7, <1>9, <3>1
    <3>3. QED BY <3>2 DEF Prefix, Break, ReadAs
  <2>3. QED BY <2>1, <2>2
<1>13. First(ReadAs(t), q) = M
  <2>1. ASSUME NEW i \in DOMAIN q, ~Prefix(ReadAs(t), q[i]), \A j \in 1 .. i - 1 : Prefix(ReadAs(t), q[j])
        PROVE  i = M
    <3>1. i \in 1 .. m
      BY <1>1, <2>1
    <3>2. ~(i < M)
      BY <1>7, <1>12, <2>1, <3>1
    <3>3. ~(M < i)
      BY <1>7, <1>9, <2>1, <3>1
    <3>4. QED BY <1>7, <3>1, <3>2, <3>3
  <2>2. M \in DOMAIN q /\ ~Prefix(ReadAs(t), q[M]) /\ \A j \in 1 .. M - 1 : Prefix(ReadAs(t), q[j])
    BY <1>1, <1>7, <1>9, <1>12
  <2>3. QED BY <2>1, <2>2 DEF First
<1> DEFINE Q == SubSeq(q, 1, M)
           R == SubSeq(r, P + 1, N)
<1>14. Q \in Seq(0 .. 255) /\ Len(Q) = M /\ \A i \in 1 .. M : Q[i] = q[i]
  <2>1. \A i \in 1 .. M : q[i] \in 0 .. 255
    <3>1. \A i \in 1 .. Len(q) : q[i] \in 0 .. 255
      <4>1. q \in Seq(0 .. 255)
        BY <1>1
      <4>2. QED BY <4>1, ElementOfSeq
    <3>2. QED BY <1>1, <1>7, <3>1 DEF m
  <2>2. M \in Nat \ {0} /\ 1 <= M /\ M - 1 + 1 = M /\ \A i \in 1 .. M : 1 + i - 1 = i
    BY <1>1, <1>7
  <2>3. /\ Q \in Seq(0 .. 255) /\ Len(Q) = (IF 1 <= M THEN M - 1 + 1 ELSE 0)
        /\ \A i \in 1 .. M - 1 + 1 : Q[i] = q[1 + i - 1]
    BY <2>1, <2>2, SubSeqProperties
  <2> HIDE DEF Q
  <2>4. QED BY <2>2, <2>3
<1>15. R \in Seq(Codes) /\ Len(R) = L /\ \A i \in 1 .. L : R[i] = r[P + i]
  <2>1. \A i \in P + 1 .. N : r[i] \in Codes
    BY <1>1, <1>6
  <2>2. P + 1 \in Int /\ N \in Int /\ P + 1 <= N /\ N - (P + 1) + 1 = L /\ \A i \in 1 .. L : P + 1 + i - 1 = P + i
    BY <1>1, <1>6 DEF L
  <2>3. /\ R \in Seq(Codes) /\ Len(R) = (IF P + 1 <= N THEN N - (P + 1) + 1 ELSE 0)
        /\ \A i \in 1 .. N - (P + 1) + 1 : R[i] = r[P + 1 + i - 1]
    BY <2>1, <2>2, SubSeqProperties
  <2> HIDE DEF R
  <2>4. QED BY <2>2, <2>3
<1>16. R[L] = r[N]
  <2>1. L \in 1 .. L /\ P + L = N
    BY <1>1, <1>6, <1>10 DEF L
  <2>2. QED BY <1>15, <2>1
<1> HIDE DEF Q, R
<1>17. \A i \in 1 .. L - 1 : Q[i] = R[i]
  <2>1. \A i \in 1 .. L - 1 : i \in 1 .. L /\ i \in 1 .. M
    BY <1>10
  <2>2. QED BY <1>11, <1>14, <1>15, <2>1
<1>18. Q[M] = q[M] /\ (M = L + 1 => Q[L] = q[M - 1])
  <2>1. M \in 1 .. M /\ (M = L + 1 => L \in 1 .. M /\ M - 1 = L)
    BY <1>10
  <2>2. QED BY <1>14, <2>1
<1>19. DecodeKey(ReadAs(t), Q) = DecodeKey(ShownAs(t), R)
  <2>1. CASE t = "translated"
    <3>1. OneShown(R)
      <4>1. \A i \in 1 .. L : Prefix("set1", R[i]) <=> i < L
        <5> SUFFICES ASSUME NEW i \in 1 .. L PROVE Prefix("set1", R[i]) <=> i < L
          OBVIOUS
        <5>1. CASE i < L
          <6>1. i \in 1 .. L - 1
            BY <1>10, <5>1
          <6>2. Prefix(ShownAs(t), R[i])
            BY <1>6, <1>11, <1>15, <6>1
          <6>3. QED BY <2>1, <5>1, <6>2 DEF ShownAs
        <5>2. CASE ~(i < L)
          <6>1. i = L
            BY <1>10, <5>2
          <6>2. QED BY <1>6, <1>16, <2>1, <5>2, <6>1 DEF ShownAs
        <5>3. QED BY <5>1, <5>2
      <4>2. QED BY <1>10, <1>15, <4>1 DEF OneShown
    <3>2. ReadAs(t) = "set2" /\ ShownAs(t) = "set1"
      BY <2>1 DEF ReadAs, ShownAs
    <3>3. /\ Q[M] = Set1ToSet2(R[L] % 128) /\ ~Extended("set2", Q[M])
          /\ (M = L + 1) <=> R[L] > 127
      BY <1>9, <1>10, <1>16, <1>18, <2>1
    <3>4. M = L + 1 => Q[L] = 240
      BY <1>7, <1>10, <1>18
    <3>5. DecodeKey("set2", Q) = DecodeKey("set1", R)
      BY <1>10, <1>14, <1>15, <1>17, <3>1, <3>3, <3>4, SameKey
    <3>6. QED BY <3>2, <3>5
  <2>2. CASE t # "translated"
    <3>1. k = 1 /\ M = L /\ q[M] = r[N]
      BY <1>7, <1>9, <1>10, <2>2
    <3>2. \A i \in 1 .. L : Q[i] = R[i]
      <4>1. \A i \in 1 .. L : i \in 1 .. L - 1 \/ i = L
        BY <1>10
      <4>2. QED BY <1>16, <1>17, <1>18, <3>1, <4>1
    <3>3. Q = R
      BY <1>14, <1>15, <3>1, <3>2, SeqEqual
    <3>4. QED BY <2>2, <3>3 DEF ReadAs, ShownAs
  <2>3. QED BY <2>1, <2>2
<1>20. \A l \in P + 1 .. N - 1 : l \notin Ends(ShownAs(t), r)
  BY <1>2, <1>6
<1>21. QED BY <1>2, <1>6, <1>13, <1>19, <1>20 DEF n, M, Q, R

-----------------------------------------------------------------------------
\* Where the k-th sequence starts
From(s, r, k) == IF k = 1 THEN 1 ELSE Nth(s, r, k - 1) + 1

\* The keys are those of the sequences up to the P-th byte, where a sequence ends, and the queue
\* is what was sent of the others.
ScWell(t, r, q, ks) ==
    /\ r \in Seq(Codes) /\ \E S : ks \in Seq(S)
    /\ \E P \in {0} \cup Ends(ShownAs(t), r) :
         EndsUpTo(ShownAs(t), r, P) = Len(ks) /\ \E at : ScSent(r, t, P, q, at)
    /\ \A k \in 1 .. Len(ks) : \E i \in Ends(ShownAs(t), r) :
         /\ EndsUpTo(ShownAs(t), r, i) = k
         /\ ks[k] = DecodeKey(ShownAs(t), SubSeq(r, From(ShownAs(t), r, k), i))

ScInv == scSet \in Sets /\ ScApart(scSet) /\ ScWell(scSet, scRaw, scQueue, scKeys)

LEMMA ScWellDecoded == ASSUME ScInv PROVE ScKeysDecoded
<1> DEFINE s == ShownAs(scSet)
<1>1. s = IF scSet = "translated" THEN "set1" ELSE scSet
  BY DEF ShownAs
<1> HIDE DEF s
<1>2. scRaw \in Seq(Codes) /\ DOMAIN scKeys = 1 .. Len(scKeys)
  BY LenProperties DEF ScInv, ScWell
<1>3. ASSUME NEW k \in DOMAIN scKeys
      PROVE  scKeys[k] = DecodeKey(s, SubSeq(scRaw, From(s, scRaw, k), Nth(s, scRaw, k)))
  <2>1. PICK i \in Ends(s, scRaw) :
           EndsUpTo(s, scRaw, i) = k /\ scKeys[k] = DecodeKey(s, SubSeq(scRaw, From(s, scRaw, k), i))
    BY <1>2, <1>3 DEF ScInv, ScWell, s
  <2>2. Nth(s, scRaw, k) = i
    BY <1>2, <2>1, NthIs
  <2>3. QED BY <2>1, <2>2
<1>4. QED BY <1>1, <1>3 DEF ScKeysDecoded, RightKeys, From

LEMMA ScWellExtract ==
  ASSUME NEW t \in Sets, ScApart(t), NEW r, NEW q, NEW ks, ScWell(t, r, q, ks),
         \E i \in DOMAIN q : ~Prefix(ReadAs(t), q[i])
  PROVE  LET n == First(ReadAs(t), q) IN
         ScWell(t, r, SubSeq(q, n + 1, Len(q)), Append(ks, DecodeKey(ReadAs(t), SubSeq(q, 1, n))))
<1> DEFINE s == ShownAs(t)
           n == First(ReadAs(t), q)
           d == DecodeKey(ReadAs(t), SubSeq(q, 1, n))
           K == Len(ks)
           qq == SubSeq(q, n + 1, Len(q))
<1>1. PICK P \in {0} \cup Ends(s, r) : EndsUpTo(s, r, P) = K /\ \E at : ScSent(r, t, P, q, at)
  BY DEF ScWell
<1>2. PICK at : ScSent(r, t, P, q, at)
  BY <1>1
<1>3. PICK N \in P + 1 .. Len(r) :
           /\ N \in Ends(s, r) /\ \A l \in P + 1 .. N - 1 : l \notin Ends(s, r)
           /\ n = at[N] /\ d = DecodeKey(s, SubSeq(r, P + 1, N))
  <2>1. PICK N \in P + 1 .. Len(r) :
           /\ N \in Ends(s, r) /\ \A l \in P + 1 .. N - 1 : l \notin Ends(s, r)
           /\ n = at[N]
           /\ DecodeKey(ReadAs(t), SubSeq(q, 1, at[N])) = DecodeKey(s, SubSeq(r, P + 1, N))
    <3> HIDE DEF n
    <3>1. QED BY <1>2, SentFirst DEF n
  <2> HIDE DEF n
  <2>2. QED BY <2>1 DEF d
<1>4. r \in Seq(Codes) /\ Len(r) \in Nat /\ P \in 0 .. Len(r) /\ N \in P .. Len(r)
  <2>1. r \in Seq(Codes) /\ P \in 0 .. Len(r)
    BY <1>2 DEF ScSent
  <2>2. QED BY <2>1, LenProperties
<1>5. \E a : ScSent(r, t, N, qq, a)
  <2>1. \E a : ScSent(r, t, N, SubSeq(q, at[N] + 1, Len(q)), a)
    BY <1>2, <1>4, SentLess
  <2> HIDE DEF n
  <2>2. QED BY <1>3, <2>1
<1> HIDE DEF n, d, qq, s
<1>6. /\ Ends(s, r) \subseteq 1 .. Len(r) /\ EndsUpTo(s, r, 0) = 0
      /\ \A i \in 0 .. Len(r) : \A j \in Ends(s, r) :
           i < j => /\ EndsUpTo(s, r, i) < EndsUpTo(s, r, j)
                    /\ (\A l \in i + 1 .. j - 1 : l \notin Ends(s, r)) =>
                          EndsUpTo(s, r, j) = EndsUpTo(s, r, i) + 1
      /\ \A i \in 0 .. Len(r) : EndsUpTo(s, r, i) \in Nat
  BY <1>4, EndsCounted
<1>7. EndsUpTo(s, r, N) = K + 1
  <2>1. P < N
    BY <1>3, <1>4
  <2>2. QED BY <1>1, <1>3, <1>4, <1>6, <2>1
<1>8. PICK S : ks \in Seq(S)
  BY DEF ScWell
<1> DEFINE kk == Append(ks, d)
<1>9. /\ kk \in Seq(S \cup {d}) /\ Len(kk) = K + 1 /\ K \in Nat /\ kk[K + 1] = d
      /\ \A k \in 1 .. K : kk[k] = ks[k]
  <2>1. ks \in Seq(S \cup {d})
    BY <1>8, SeqMonotonic
  <2>2. QED BY <2>1, AppendProperties, LenProperties
<1> HIDE DEF kk, K
<1>10. From(s, r, K + 1) = P + 1
  <2>1. CASE K = 0
    <3>1. P = 0
      <4>1. P \in Ends(s, r) => EndsUpTo(s, r, 0) < EndsUpTo(s, r, P)
        BY <1>4, <1>6
      <4>2. QED BY <1>1, <1>6, <2>1, <4>1
    <3>2. QED BY <2>1, <3>1 DEF From
  <2>2. CASE K # 0
    <3>1. P \in Ends(s, r)
      BY <1>1, <1>6, <2>2
    <3>2. Nth(s, r, K) = P
      BY <1>1, <1>4, <3>1, NthIs
    <3> DEFINE k == K + 1
    <3>3. k # 1 /\ k - 1 = K
      BY <1>9, <2>2
    <3> HIDE DEF k
    <3>4. From(s, r, k) = Nth(s, r, K) + 1
      BY <3>3 DEF From
    <3>5. QED BY <3>2, <3>4 DEF k
  <2>3. QED BY <2>1, <2>2
<1>11. ASSUME NEW k \in 1 .. K + 1
       PROVE  \E i \in Ends(s, r) : EndsUpTo(s, r, i) = k /\ kk[k] = DecodeKey(s, SubSeq(r, From(s, r, k), i))
  <2>1. CASE k = K + 1
    BY <1>3, <1>7, <1>9, <1>10, <2>1
  <2>2. CASE k # K + 1
    <3>1. k \in 1 .. K
      BY <1>9, <2>2
    <3>2. PICK i \in Ends(s, r) : EndsUpTo(s, r, i) = k /\ ks[k] = DecodeKey(s, SubSeq(r, From(s, r, k), i))
      BY <3>1 DEF ScWell, K, s
    <3>3. QED BY <1>9, <3>1, <3>2
  <2>3. QED BY <2>1, <2>2
<1>12. ScWell(t, r, qq, kk)
  <2>1. EndsUpTo(s, r, N) = Len(kk) /\ N \in Ends(s, r)
    BY <1>3, <1>7, <1>9
  <2>2. QED BY <1>4, <1>5, <1>9, <1>11, <2>1 DEF ScWell, s
<1>13. QED BY <1>12 DEF kk, d, qq, n

LEMMA ScWellReceive ==
  ASSUME NEW t \in Sets, ScApart(t), NEW r, NEW q, NEW ks, ScWell(t, r, q, ks), NEW c \in Codes
  PROVE  ScWell(t, Append(r, c), q \o SentAs(t, c), ks)
<1> DEFINE s == ShownAs(t)
           n == Len(r)
           rr == Append(r, c)
           K == Len(ks)
<1>1. /\ r \in Seq(Codes) /\ n \in Nat /\ rr \in Seq(Codes) /\ Len(rr) = n + 1
      /\ \A i \in 1 .. n : rr[i] = r[i] /\ r[i] \in Codes /\ rr[i] \in Codes
  <2>1. r \in Seq(Codes)
    BY DEF ScWell
  <2>2. QED BY <2>1, LenProperties, AppendProperties, ElementOfSeq
<1>2. PICK P \in {0} \cup Ends(s, r) : EndsUpTo(s, r, P) = K /\ \E at : ScSent(r, t, P, q, at)
  BY DEF ScWell
<1>3. \E a : ScSent(rr, t, P, q \o SentAs(t, c), a)
  BY <1>2, SentMore
<1>4. \A i \in 0 .. n : EndsUpTo(s, rr, i) = EndsUpTo(s, r, i) /\ (i \in Ends(s, rr) <=> i \in Ends(s, r))
  BY <1>1, EndsAppended
<1>5. Ends(s, r) \subseteq 1 .. n
  BY <1>1, EndsCounted
<1> HIDE DEF s, n, rr, K
<1>6. \A i \in Ends(s, r) : /\ i \in 1 .. n /\ i \in Ends(s, rr) /\ EndsUpTo(s, rr, i) = EndsUpTo(s, r, i)
                            /\ Nth(s, rr, EndsUpTo(s, r, i)) = i /\ Nth(s, r, EndsUpTo(s, r, i)) = i
  <2> SUFFICES ASSUME NEW i \in Ends(s, r)
               PROVE  /\ i \in 1 .. n /\ i \in Ends(s, rr) /\ EndsUpTo(s, rr, i) = EndsUpTo(s, r, i)
                      /\ Nth(s, rr, EndsUpTo(s, r, i)) = i /\ Nth(s, r, EndsUpTo(s, r, i)) = i
    OBVIOUS
  <2>1. i \in 1 .. n /\ i \in 0 .. n
    BY <1>1, <1>5
  <2>2. i \in Ends(s, rr) /\ EndsUpTo(s, rr, i) = EndsUpTo(s, r, i)
    BY <1>4, <2>1
  <2>3. Nth(s, rr, EndsUpTo(s, rr, i)) = i
    BY <1>1, <2>2, NthIs
  <2>4. Nth(s, r, EndsUpTo(s, r, i)) = i
    BY <1>1, NthIs
  <2>5. QED BY <2>1, <2>2, <2>3, <2>4
<1>7. \A k \in 1 .. K : \E i \in Ends(s, r) :
         EndsUpTo(s, r, i) = k /\ ks[k] = DecodeKey(s, SubSeq(r, From(s, r, k), i))
  BY DEF ScWell, K, s
<1>8. K \in Nat
  BY LenProperties DEF ScWell, K
<1>9. ASSUME NEW k \in 1 .. K
      PROVE  \E i \in Ends(s, rr) : EndsUpTo(s, rr, i) = k /\ ks[k] = DecodeKey(s, SubSeq(rr, From(s, rr, k), i))
  <2>1. PICK i \in Ends(s, r) : EndsUpTo(s, r, i) = k /\ ks[k] = DecodeKey(s, SubSeq(r, From(s, r, k), i))
    BY <1>7
  <2>2. From(s, rr, k) = From(s, r, k) /\ From(s, r, k) \in Nat \ {0}
    <3>1. CASE k = 1
      BY <3>1 DEF From
    <3>2. CASE k # 1
      <4>1. k - 1 \in 1 .. K
        BY <1>8, <3>2
      <4>2. PICK j \in Ends(s, r) : EndsUpTo(s, r, j) = k - 1
        BY <1>7, <4>1
      <4>3. Nth(s, rr, k - 1) = j /\ Nth(s, r, k - 1) = j /\ j \in 1 .. n
        BY <1>6, <4>2
      <4>4. QED BY <1>1, <3>2, <4>3 DEF From
    <3>3. QED BY <3>1, <3>2
  <2> DEFINE f == From(s, r, k)
  <2> HIDE DEF f
  <2>3. i \in 1 .. n
    BY <1>6
  <2>4. \A j \in f .. i : j \in 1 .. n /\ r[j] \in Codes /\ rr[j] \in Codes /\ rr[j] = r[j]
    BY <1>1, <2>2, <2>3 DEF f
  <2>5. SubSeq(rr, f, i) = SubSeq(r, f, i)
    <3> DEFINE x == SubSeq(rr, f, i)
               y == SubSeq(r, f, i)
    <3>1. f \in Int /\ i \in Int
      BY <1>1, <2>2, <2>3 DEF f
    <3>2. /\ x \in Seq(Codes) /\ Len(x) = (IF f <= i THEN i - f + 1 ELSE 0)
          /\ \A l \in 1 .. i - f + 1 : x[l] = rr[f + l - 1]
      BY <2>4, <3>1, SubSeqProperties
    <3>3. /\ y \in Seq(Codes) /\ Len(y) = (IF f <= i THEN i - f + 1 ELSE 0)
          /\ \A l \in 1 .. i - f + 1 : y[l] = r[f + l - 1]
      BY <2>4, <3>1, SubSeqProperties
    <3> HIDE DEF x, y
    <3>4. \A l \in 1 .. Len(x) : l \in 1 .. i - f + 1 /\ f + l - 1 \in f .. i
      BY <3>1, <3>2
    <3>5. Len(x) = Len(y) /\ \A l \in 1 .. Len(x) : x[l] = y[l]
      BY <2>4, <3>2, <3>3, <3>4
    <3>6. x = y
      BY <3>2, <3>3, <3>5, SeqEqual
    <3>7. QED BY <3>6 DEF x, y
  <2>6. QED BY <1>6, <2>1, <2>2, <2>5 DEF f
<1>10. P \in {0} \cup Ends(s, rr) /\ EndsUpTo(s, rr, P) = K
  <2>1. P \in 0 .. n
    BY <1>1, <1>5
  <2>2. QED BY <1>2, <1>4, <2>1
<1>11. ScWell(t, rr, q \o SentAs(t, c), ks)
  <2>1. \E S : ks \in Seq(S)
    BY DEF ScWell
  <2>2. QED BY <1>1, <1>3, <1>9, <1>10, <2>1 DEF ScWell, K, s
<1>12. QED BY <1>11 DEF rr

LEMMA ScWellInit == ASSUME ScInit, ScApart(scSet) PROVE ScInv
<1> DEFINE s == ShownAs(scSet)
           at == [i \in 0 .. 0 |-> 0]
           e == <<>>
<1>1. scSet \in Sets /\ scRaw = e /\ scQueue = e /\ scKeys = e
  BY DEF ScInit
<1>2. e \in Seq(Codes) /\ e \in Seq(0 .. 255) /\ Len(e) = 0
  OBVIOUS
<1> HIDE DEF e
<1>3. ScSent(e, scSet, 0, e, at)
  <2>1. 0 \in 0 .. 0 /\ at \in [0 .. 0 -> Nat] /\ at[0] = 0
    OBVIOUS
  <2>2. \A i \in 0 + 1 .. 0 : FALSE
    OBVIOUS
  <2>3. \A i, j \in 0 .. 0 : at[j] >= at[i] + (j - i) /\ at[j] = at[i] + (j - i)
    OBVIOUS
  <2> HIDE DEF at
  <2>4. QED BY <1>2, <2>1, <2>2, <2>3 DEF ScSent
<1>4. EndsUpTo(s, e, 0) = 0
  <2> HIDE DEF s
  <2>1. QED BY <1>2, EndsCounted
<1> HIDE DEF at
<1>5. ScWell(scSet, e, e, e)
  BY <1>2, <1>3, <1>4 DEF ScWell
<1>6. QED BY <1>1, <1>5 DEF ScInv

LEMMA ScWellNext == ASSUME ScInv, [ScNext]_scVars PROVE ScInv'
<1>1. scSet \in Sets /\ ScApart(scSet) /\ ScWell(scSet, scRaw, scQueue, scKeys)
  BY DEF ScInv
<1>2. CASE Extract
  <2> DEFINE n == First(Decoded, scQueue)
  <2>1. /\ \E i \in DOMAIN scQueue : ~Prefix(Decoded, scQueue[i])
        /\ scKeys' = Append(scKeys, DecodeKey(Decoded, SubSeq(scQueue, 1, n)))
        /\ scQueue' = SubSeq(scQueue, n + 1, Len(scQueue)) /\ scSet' = scSet /\ scRaw' = scRaw
    BY <1>2 DEF Extract
  <2>2. Decoded = ReadAs(scSet)
    BY DEF Decoded, ReadAs
  <2>3. ScWell(scSet, scRaw, scQueue', scKeys')
    BY <1>1, <2>1, <2>2, ScWellExtract
  <2>4. QED BY <1>1, <2>1, <2>3 DEF ScInv
<1>3. ASSUME NEW c \in Codes, Receive(c) PROVE ScInv'
  <2>1. /\ scRaw' = Append(scRaw, c) /\ scSet' = scSet /\ scKeys' = scKeys
        /\ scQueue' = scQueue \o SentAs(scSet, c)
    BY <1>3 DEF Receive, SentAs
  <2>2. ScWell(scSet, scRaw', scQueue', scKeys)
    BY <1>1, <2>1, ScWellReceive
  <2>3. QED BY <1>1, <2>1, <2>2 DEF ScInv
<1>4. CASE UNCHANGED scVars
  BY <1>1, <1>4 DEF scVars, ScInv
<1>5. QED BY <1>2, <1>3, <1>4 DEF ScNext

-----------------------------------------------------------------------------
(* KeyText                                                                  *)

\* The characters that are not read are those that were typed; the number held with Alt is the one
\* typed, and without digits one that is no character.
KtUnread(b, g, ty) ==
    /\ \E S : b \in Seq(S)
    /\ g \in 0 .. Len(b) /\ Len(b) <= BufSize /\ ty = SubSeq(b, g + 1, Len(b))

KtNumber ==
    /\ ndigits \in 0 .. 3 /\ number \in Nat
    /\ number < (CASE ndigits = 0 -> 1 [] ndigits = 1 -> 10 [] ndigits = 2 -> 100 [] ndigits = 3 -> 1000)
    /\ alt = IF ndigits = 0 THEN Width \div 2 ELSE number

\* While the handler of an event yields there is room for its character.
KtRoom ==
    event # NoEvent => event \in Events /\ Len(buffer) < BufSize /\ (AltTyped(event) => ndigits < 3)

KtInv == KtUnread(buffer, get, ktTyped) /\ KtNumber /\ KtRoom

\* What is left of a sequence after its first g
LEMMA RestIs ==
  ASSUME NEW S, NEW b \in Seq(S), NEW g \in 0 .. Len(b)
  PROVE  LET y == SubSeq(b, g + 1, Len(b)) IN
         /\ y \in Seq(S) /\ Len(y) = Len(b) - g /\ \A l \in 1 .. Len(b) - g : y[l] = b[g + l]
         /\ g = 0 => y = b
<1> DEFINE y == SubSeq(b, g + 1, Len(b))
           L == Len(b)
<1>1. L \in Nat /\ \A i \in g + 1 .. L : b[i] \in S
  <2>1. L \in Nat /\ \A i \in 1 .. L : b[i] \in S
    BY LenProperties, ElementOfSeq
  <2>2. QED BY <2>1
<1>2. g + 1 \in Int /\ L \in Int /\ L - (g + 1) + 1 = L - g /\ \A l \in 1 .. L - g : g + 1 + l - 1 = g + l
  BY <1>1
<1>3. /\ y \in Seq(S) /\ Len(y) = (IF g + 1 <= L THEN L - (g + 1) + 1 ELSE 0)
      /\ \A l \in 1 .. L - (g + 1) + 1 : y[l] = b[g + 1 + l - 1]
  BY <1>1, <1>2, SubSeqProperties
<1> HIDE DEF y, L
<1>4. g \in 0 .. L
  BY DEF L
<1>5. y \in Seq(S) /\ Len(y) = L - g /\ \A l \in 1 .. L - g : y[l] = b[g + l]
  BY <1>1, <1>2, <1>3, <1>4
<1>6. g = 0 => y = b
  <2> SUFFICES ASSUME g = 0 PROVE y = b
    OBVIOUS
  <2>1. Len(y) = Len(b) /\ \A l \in 1 .. Len(y) : y[l] = b[l]
    <3>1. Len(y) = L /\ \A l \in 1 .. L : y[l] = b[g + l] /\ g + l = l
      BY <1>1, <1>5
    <3>2. QED BY <3>1 DEF L
  <2>2. QED BY <1>5, <2>1, SeqEqual
<1>7. QED BY <1>5, <1>6 DEF y, L

\* A character that is inserted is the last one unread.
LEMMA InsertKeeps ==
  ASSUME NEW b, NEW g, NEW ty, KtUnread(b, g, ty), Len(b) < BufSize, NEW c
  PROVE  KtUnread(Append(b, c), g, Append(ty, c))
<1>1. PICK S0 : b \in Seq(S0)
  BY DEF KtUnread
<1> DEFINE S == S0 \cup {c}
           L == Len(b)
<1>2. b \in Seq(S) /\ c \in S
  BY <1>1, SeqMonotonic
<1> HIDE DEF S
<1>3. g \in 0 .. L /\ L \in Nat /\ L < BufSize /\ ty = SubSeq(b, g + 1, L) /\ BufSize \in Nat \ {0}
  BY <1>2, LenProperties, KtAssumption DEF KtUnread
<1>4. ty \in Seq(S) /\ Len(ty) = L - g /\ (\A l \in 1 .. L - g : ty[l] = b[g + l]) /\ (g = 0 => ty = b)
  BY <1>2, <1>3, RestIs
<1> DEFINE bb == Append(b, c)
           y == SubSeq(bb, g + 1, L + 1)
           z == Append(ty, c)
<1>5. /\ bb \in Seq(S) /\ Len(bb) = L + 1 /\ bb[L + 1] = c /\ \A l \in 1 .. L : bb[l] = b[l]
      /\ L + 1 <= BufSize
  BY <1>2, <1>3, AppendProperties
<1>6. /\ z \in Seq(S) /\ Len(z) = L - g + 1 /\ z[L - g + 1] = c
      /\ \A l \in 1 .. L - g : z[l] = ty[l]
  BY <1>2, <1>4, AppendProperties
<1> HIDE DEF bb
<1>7. y \in Seq(S) /\ Len(y) = L + 1 - g /\ \A l \in 1 .. L + 1 - g : y[l] = bb[g + l]
  <2>1. g \in 0 .. Len(bb) /\ L + 1 = Len(bb)
    BY <1>3, <1>5
  <2>2. QED BY <1>5, <2>1, RestIs
<1> HIDE DEF y, z, L
<1>8. ASSUME NEW l \in 1 .. L + 1 - g PROVE y[l] = z[l]
  <2>1. CASE l = L - g + 1
    <3>1. g + l = L + 1
      BY <1>3, <2>1
    <3>2. QED BY <1>5, <1>6, <1>7, <2>1, <3>1
  <2>2. CASE l # L - g + 1
    <3>1. l \in 1 .. L - g /\ g + l \in 1 .. L
      BY <1>3, <2>2
    <3>2. QED BY <1>4, <1>5, <1>6, <1>7, <3>1
  <2>3. QED BY <2>1, <2>2
<1>9. Len(y) = Len(z) /\ \A l \in 1 .. Len(y) : y[l] = z[l]
  <2>1. Len(y) = L + 1 - g /\ Len(z) = L + 1 - g
    BY <1>3, <1>6, <1>7
  <2>2. QED BY <1>8, <2>1
<1>10. y = z
  BY <1>6, <1>7, <1>9, SeqEqual
<1>11. KtUnread(bb, g, z)
  <2>1. g \in 0 .. Len(bb) /\ Len(bb) <= BufSize
    BY <1>3, <1>5
  <2>2. QED BY <1>5, <1>10, <2>1 DEF KtUnread, y
<1>12. QED BY <1>11 DEF bb, z, L

\* sync() leaves what is unread, but for the oldest of a full buffer, and makes room.
LEMMA SyncKeeps ==
  ASSUME KtUnread(buffer, get, ktTyped), KtSync
  PROVE  KtUnread(buffer', get', ktTyped') /\ Len(buffer') < BufSize
<1>1. PICK S : buffer \in Seq(S)
  BY DEF KtUnread
<1> DEFINE L == Len(buffer)
<1>2. /\ get \in 0 .. L /\ L \in Nat /\ L <= BufSize /\ BufSize \in Nat \ {0}
      /\ ktTyped = SubSeq(buffer, get + 1, L)
  BY <1>1, LenProperties, KtAssumption DEF KtUnread
<1>3. ktTyped \in Seq(S) /\ Len(ktTyped) = L - get /\ (get = 0 => ktTyped = buffer)
  BY <1>1, <1>2, RestIs
<1>4. Len(ktTyped) = BufSize <=> get = 0 /\ L = BufSize
  BY <1>2, <1>3
<1> DEFINE u == IF get = 0 /\ L = BufSize THEN Tail(buffer) ELSE ktTyped
<1>5. u \in Seq(S) /\ Len(u) \in Nat /\ Len(u) < BufSize
  <2>1. CASE get = 0 /\ L = BufSize
    <3>1. buffer # <<>>
      BY <1>1, <1>2, <2>1, EmptySeq
    <3>2. QED BY <1>1, <1>2, <2>1, <3>1, HeadTailProperties, LenProperties
  <2>2. CASE ~(get = 0 /\ L = BufSize)
    BY <1>2, <1>3, <2>2
  <2>3. QED BY <2>1, <2>2
<1>6. buffer' = u /\ get' = 0 /\ ktTyped' = u
  <2>1. buffer' = u /\ get' = 0
    BY <1>2 DEF KtSync, KtSynced
  <2>2. ktTyped' = IF Len(ktTyped) = BufSize THEN Tail(ktTyped) ELSE ktTyped
    BY DEF KtSync, Spill
  <2> HIDE DEF L
  <2>3. ktTyped' = u
    BY <1>3, <1>4, <2>2
  <2>4. QED BY <2>1, <2>3
<1> HIDE DEF u
<1>7. KtUnread(u, 0, u)
  <2>1. 0 \in 0 .. Len(u) /\ Len(u) <= BufSize
    BY <1>2, <1>5
  <2>2. u = SubSeq(u, 0 + 1, Len(u))
    BY <1>5, <2>1, RestIs
  <2>3. QED BY <1>5, <2>1, <2>2 DEF KtUnread
<1>8. QED BY <1>5, <1>6, <1>7

LEMMA ReadKeeps ==
  ASSUME NEW b, NEW g, NEW ty, KtUnread(b, g, ty), NEW n \in Nat, g + n <= Len(b)
  PROVE  KtUnread(b, g + n, SubSeq(ty, n + 1, Len(ty)))
<1>1. PICK S : b \in Seq(S)
  BY DEF KtUnread
<1> DEFINE L == Len(b)
           x == SubSeq(ty, n + 1, Len(ty))
           y == SubSeq(b, g + n + 1, L)
<1>2. g \in 0 .. L /\ L \in Nat /\ L <= BufSize /\ ty = SubSeq(b, g + 1, L) /\ g + n \in 0 .. L
  BY <1>1, LenProperties DEF KtUnread
<1>3. ty \in Seq(S) /\ Len(ty) = L - g /\ \A l \in 1 .. L - g : ty[l] = b[g + l]
  BY <1>1, <1>2, RestIs
<1>4. x \in Seq(S) /\ Len(x) = Len(ty) - n /\ \A l \in 1 .. Len(ty) - n : x[l] = ty[n + l]
  <2>1. n \in 0 .. Len(ty)
    BY <1>2, <1>3
  <2>2. QED BY <1>3, <2>1, RestIs
<1>5. y \in Seq(S) /\ Len(y) = L - (g + n) /\ \A l \in 1 .. L - (g + n) : y[l] = b[g + n + l]
  BY <1>1, <1>2, RestIs
<1> HIDE DEF L, x, y
<1>6. Len(x) = Len(y) /\ Len(x) = L - g - n
  BY <1>2, <1>3, <1>4, <1>5
<1>7. ASSUME NEW l \in 1 .. Len(x) PROVE x[l] = y[l]
  <2>1. /\ l \in 1 .. Len(ty) - n /\ n + l \in 1 .. L - g /\ l \in 1 .. L - (g + n)
        /\ g + (n + l) = g + n + l
    BY <1>2, <1>3, <1>6
  <2>2. QED BY <1>3, <1>4, <1>5, <2>1
<1>8. x = y
  BY <1>4, <1>5, <1>6, <1>7, SeqEqual
<1>9. QED BY <1>1, <1>2, <1>8 DEF KtUnread, L, x, y

LEMMA KtInvInit == ASSUME KtInit PROVE KtInv
<1>1. KtUnread(buffer, get, ktTyped)
  <2> DEFINE e == <<>>
  <2>1. buffer = e /\ get = 0 /\ ktTyped = e
    BY DEF KtInit
  <2>2. e \in Seq({}) /\ Len(e) = 0 /\ 0 \in 0 .. Len(e)
    OBVIOUS
  <2> HIDE DEF e
  <2>3. e = SubSeq(e, 0 + 1, Len(e))
    BY <2>2, RestIs
  <2>4. KtUnread(e, 0, e)
    BY <2>2, <2>3, KtAssumption DEF KtUnread
  <2>5. QED BY <2>1, <2>4
<1>2. KtNumber
  BY DEF KtInit, KtNumber
<1>3. QED BY <1>1, <1>2 DEF KtInit, KtInv, KtRoom

\* What event_handler() does when the buffer has room.
LEMMA HandleKeeps ==
  ASSUME KtUnread(buffer, get, ktTyped), KtNumber, Len(buffer) < BufSize, NEW e \in Events,
         HandleEvent(e), AltTyped(e) => ndigits < 3
  PROVE  KtUnread(buffer', get', ktTyped') /\ KtNumber'
<1>1. ASSUME NEW c, Insert(c), Typed(c) PROVE KtUnread(buffer', get', ktTyped')
  <2>1. buffer' = Append(buffer, c) /\ get' = get /\ ktTyped' = Append(ktTyped, c)
    BY <1>1 DEF Insert, Typed
  <2>2. QED BY <2>1, InsertKeeps
<1>2. CASE AltUp
  <2>1. KtNumber'
    BY <1>2 DEF AltUp, KtNumber
  <2>2. CASE alt <= 255
    <3>1. ndigits > 0 /\ number <= 255 /\ alt = number
      BY <2>2, KtAssumption DEF KtNumber
    <3>2. Insert(<<"alt", alt>>) /\ Typed(<<"alt", alt>>)
      BY <1>2, <2>2, <3>1 DEF AltUp
    <3>3. QED BY <1>1, <2>1, <3>2
  <2>3. CASE ~(alt <= 255)
    <3>1. ~(ndigits > 0 /\ number <= 255)
      BY <2>3 DEF KtNumber
    <3>2. UNCHANGED <<buffer, get, ktTyped>>
      BY <1>2, <2>3, <3>1 DEF AltUp
    <3>3. QED BY <2>1, <3>2
  <2>4. QED BY <2>2, <2>3
<1>3. ASSUME NEW d \in Digits, AltDigit(d), ndigits < 3
      PROVE  KtUnread(buffer', get', ktTyped') /\ KtNumber'
  <2>1. d \in 0 .. 9 /\ Width \in Nat /\ Width % 2 = 0 /\ Width >= 1000
    BY KtAssumption
  <2>2. /\ ndigits \in 0 .. 2 /\ alt' = (alt * 10 + d) % Width /\ number' = number * 10 + d
        /\ ndigits' = ndigits + 1
    BY <1>3 DEF AltDigit, KtNumber
  <2>3. CASE ndigits = 0
    <3>1. number = 0 /\ alt = Width \div 2 /\ number' = d /\ ndigits' = 1
      BY <2>1, <2>2, <2>3 DEF KtNumber
    <3>2. alt' = d
      BY <2>1, <2>2, <3>1
    <3>3. KtNumber'
      BY <2>1, <3>1, <3>2 DEF KtNumber
    <3>4. QED BY <1>3, <3>3 DEF AltDigit, ktText
  <2>4. CASE ndigits # 0
    <3>1. alt = number /\ number \in 0 .. 99 /\ (ndigits = 1 => number < 10)
      <4>1. ndigits \in {1, 2} /\ number \in Nat /\ alt = number
        BY <2>2, <2>4 DEF KtNumber
      <4>2. ndigits = 1 => number < 10
        BY DEF KtNumber
      <4>3. ndigits = 2 => number < 100
        BY DEF KtNumber
      <4>4. QED BY <4>1, <4>2, <4>3
    <3>2. alt' = number'
      BY <2>1, <2>2, <3>1
    <3>3. KtNumber'
      <4>1. CASE ndigits = 1
        <5>1. ndigits' = 2 /\ number' \in Nat /\ number' < 100
          BY <2>1, <2>2, <3>1, <4>1
        <5>2. QED BY <3>2, <5>1 DEF KtNumber
      <4>2. CASE ndigits = 2
        <5>1. ndigits' = 3 /\ number' \in Nat /\ number' < 1000
          BY <2>1, <2>2, <3>1, <4>2
        <5>2. QED BY <3>2, <5>1 DEF KtNumber
      <4>3. QED BY <2>2, <2>4, <4>1, <4>2
    <3>4. QED BY <1>3, <3>3 DEF AltDigit, ktText
  <2>5. QED BY <2>3, <2>4
<1>4. CASE AltTyped(e) /\ AltDigit(e[2])
  <2>1. e[2] \in Digits /\ ndigits < 3
    BY <1>4 DEF AltTyped, Events, AltEvent
  <2>2. QED BY <1>3, <1>4, <2>1
<1>5. ASSUME NEW k, Key(k) PROVE KtUnread(buffer', get', ktTyped') /\ KtNumber'
  <2>1. KtUnread(buffer', get', ktTyped')
    BY <1>1, <1>5 DEF Key
  <2>2. KtNumber'
    BY <1>5 DEF Key, KtNumber, ktAlt
  <2>3. QED BY <2>1, <2>2
<1>6. CASE UNCHANGED <<ktText, ktAlt>>
  BY <1>6 DEF ktText, ktAlt, KtNumber
<1>7. QED BY <1>2, <1>4, <1>5, <1>6 DEF HandleEvent

LEMMA KtInvNext == ASSUME KtInv, [KtNext]_ktVars PROVE KtInv'
<1>1. KtUnread(buffer, get, ktTyped) /\ KtNumber /\ KtRoom /\ Len(buffer) <= BufSize /\ BufSize \in Nat
  BY KtAssumption DEF KtInv, KtUnread
<1>2. Len(buffer) \in Nat
  <2>1. PICK S : buffer \in Seq(S)
    BY <1>1 DEF KtUnread
  <2>2. QED BY <2>1, LenProperties
<1>3. ASSUME KtSync, UNCHANGED ktAlt
      PROVE  KtUnread(buffer', get', ktTyped') /\ Len(buffer') < BufSize /\ KtNumber'
  <2>1. KtUnread(buffer', get', ktTyped') /\ Len(buffer') < BufSize
    BY <1>1, <1>3, SyncKeeps
  <2>2. KtNumber'
    BY <1>1, <1>3 DEF ktAlt, KtNumber
  <2>3. QED BY <2>1, <2>2
<1>4. ASSUME NEW e \in Events, Event(e) PROVE KtInv'
  <2>1. CASE Len(buffer) = BufSize
    <3>1. /\ KtSync /\ event' = e /\ UNCHANGED ktAlt
          /\ AltTyped(e) => ndigits < 3
          /\ e[1] = "digit" => mods' = mods
      BY <1>4, <2>1 DEF Event
    <3>2. AltTyped(e)' => AltTyped(e)
      BY <3>1 DEF AltTyped, Xor
    <3>3. KtRoom'
      BY <1>3, <1>4, <3>1, <3>2 DEF KtRoom, ktAlt
    <3>4. QED BY <1>3, <3>1, <3>3 DEF KtInv
  <2>2. CASE Len(buffer) # BufSize
    <3>1. /\ HandleEvent(e) /\ event' = event /\ event = NoEvent /\ (AltTyped(e) => ndigits < 3)
          /\ Len(buffer) < BufSize
      BY <1>1, <1>2, <1>4, <2>2 DEF Event
    <3>2. KtUnread(buffer', get', ktTyped') /\ KtNumber'
      BY <1>1, <3>1, HandleKeeps
    <3>3. QED BY <3>1, <3>2 DEF KtInv, KtRoom
  <2>3. QED BY <2>1, <2>2
<1>5. CASE Resume
  <2>1. /\ HandleEvent(event) /\ event' = NoEvent /\ event \in Events /\ Len(buffer) < BufSize
        /\ AltTyped(event) => ndigits < 3
    BY <1>1, <1>5 DEF Resume, KtRoom
  <2>2. KtUnread(buffer', get', ktTyped') /\ KtNumber'
    BY <1>1, <2>1, HandleKeeps
  <2>3. QED BY <2>1, <2>2 DEF KtInv, KtRoom
<1>6. ASSUME NEW n \in 1 .. BufSize, Read(n) PROVE KtInv'
  <2>1. /\ n \in Nat /\ get + n <= Len(buffer) /\ buffer' = buffer /\ get' = get + n
        /\ ktTyped' = SubSeq(ktTyped, n + 1, Len(ktTyped)) /\ event' = event
    BY <1>1, <1>6 DEF Read
  <2>2. KtUnread(buffer', get', ktTyped')
    BY <1>1, <2>1, ReadKeeps
  <2>3. KtNumber'
    BY <1>1, <1>6 DEF Read, KtNumber, ktAlt
  <2>4. KtRoom'
    BY <1>1, <1>6, <2>1 DEF KtRoom, Read, ktAlt, AltTyped, Xor
  <2>5. QED BY <2>2, <2>3, <2>4 DEF KtInv
<1>7. CASE UNCHANGED ktVars
  BY <1>1, <1>7 DEF ktVars, ktText, ktAlt, KtInv, KtNumber, KtRoom, AltTyped, Xor
<1>8. CASE KtSync /\ UNCHANGED <<mods, event, ktAlt>>
  BY <1>1, <1>3, <1>8 DEF KtInv, KtRoom, AltTyped, Xor, ktAlt
<1>9. QED BY <1>4, <1>5, <1>6, <1>7, <1>8 DEF KtNext

\* scancode.cpp, key.cpp, keyboard_streambuf.cpp: whenever sequences are extracted and however the
\* bytes come, the k-th key is that of the k-th sequence sent, also where the controller translated
\* it (unless it is F7 or 0, which the table that undoes the translation takes for other codes);
\* and what the reader has left in the buffer are the characters typed, in order, but for the oldest
\* one each time a key event, or a sync() of the reader, meets a full buffer of which nothing was
\* read, also when the reader runs while that event's handler yields (no second event does).
THEOREM KeysStayDecoded == ScSpec /\ ScApart(scSet) /\ KtSpec => []KeysDecoded
<1>1. ScInit /\ ScApart(scSet) => ScInv
  BY ScWellInit
<1>2. ScInv /\ [ScNext]_scVars => ScInv'
  BY ScWellNext
<1>3. KtInit => KtInv
  BY KtInvInit
<1>4. KtInv /\ [KtNext]_ktVars => KtInv'
  BY KtInvNext
<1>5. ScInv /\ KtInv => KeysDecoded
  BY ScWellDecoded DEF KeysDecoded, KtInv, KtUnread, TextKept
<1>6. QED BY <1>1, <1>2, <1>3, <1>4, <1>5, PTL DEF ScSpec, KtSpec
=============================================================================
