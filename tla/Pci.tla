-------------------------------- MODULE Pci --------------------------------
(***************************************************************************)
(* PCI devices (pci.cpp): each pci_device finds a device that no other     *)
(* object drives, by vendor and device or by class, through the PCI BIOS;  *)
(* the map of the devices in use lives while one is.  vga::find_irq()      *)
(* (vga.cpp) makes such an object for a moment.                            *)
(***************************************************************************)
EXTENDS Optional, Sequences

CONSTANTS
    Objects,
    Addresses,      \* <<bus, device, function>>, as the BIOS lists them
    Kinds           \* what a search asks for: a device number, or a class

\* No pointer is null that points to an address or a map.
ASSUME PcAssumption ==
    /\ Addresses \in Seq(Nat \X Nat \X Nat) /\ None \notin Nat \X Nat \X Nat
    /\ \A m \in SUBSET ({Addresses[i] : i \in DOMAIN Addresses} \X Objects) : m # None

VARIABLES
    slots,          \* the machine: the kind of the device at each address, or None
    pcBios,         \* whether there is a PCI BIOS
    map,            \* device_map, a set of <<address, object>>, or None
    uses,           \* the address of each object, or None
    asked           \* ghost: what each object asked for

pcVars == <<slots, pcBios, map, uses, asked>>

PcInit ==
    /\ slots \in [DOMAIN Addresses -> Kinds \cup {None}] /\ pcBios \in BOOLEAN
    /\ map = None /\ uses = [o \in Objects |-> None] /\ asked = [o \in Objects |-> {}]

-----------------------------------------------------------------------------

Entries == IF map = None THEN {} ELSE map
Mapped == {e[1] : e \in Entries}

\* The BIOS answers the search for a kind, i = 0, 1, ...; a function number must match if it is given.
Answers(kind, function) ==
    {i \in DOMAIN Addresses : slots[i] = kind /\ function \in {None, Addresses[i][3]}}

\* Mutant: a device on a bus and slot that are known is passed over whatever its function.
UnusedSlots(kind, function) ==
    {i \in Answers(kind, function) :
        ~\E a \in Mapped : a[1] = Addresses[i][1] /\ a[2] = Addresses[i][2]}

Unused(kind, function) == {i \in Answers(kind, function) : Addresses[i] \notin Mapped}

\* Both constructors: the first device of the first kind in the list that no object has; or an
\* exception, after pci_init() has made the map.
Construct(o, kinds, function) ==
    /\ uses[o] = None /\ pcBios
    /\ \/ /\ \A k \in DOMAIN kinds : Unused(kinds[k], function) = {}
          /\ map' = Entries /\ UNCHANGED <<uses, asked>>
       \/ \E k \in DOMAIN kinds : \E i \in Unused(kinds[k], function) :
             /\ \A l \in 1 .. k - 1 : Unused(kinds[l], function) = {}
             /\ \A j \in Unused(kinds[k], function) : i <= j
             /\ map' = Entries \cup {<<Addresses[i], o>>}
             /\ uses' = [uses EXCEPT ![o] = Addresses[i]]
             /\ asked' = [asked EXCEPT ![o] = {kinds[l] : l \in DOMAIN kinds}]
    /\ UNCHANGED <<slots, pcBios>>

\* Mutant: the bus goes with its first device.
EraseBus(a) == LET rest == {e \in map : e[1][1] # a[1]} IN map' = IF rest = {} THEN None ELSE rest

Erase(a) == LET rest == {e \in map : e[1] # a} IN map' = IF rest = {} THEN None ELSE rest

Destroy(o) ==
    /\ uses[o] # None /\ Erase(uses[o])
    /\ uses' = [uses EXCEPT ![o] = None] /\ asked' = [asked EXCEPT ![o] = {}]
    /\ UNCHANGED <<slots, pcBios>>

Searches == {<<k>> : k \in Kinds} \cup {<<k, l>> : k, l \in Kinds}

PcNext ==
    \E o \in Objects :
      \/ \E kinds \in Searches, function \in {None, 0} : Construct(o, kinds, function)
      \/ Destroy(o)

PcSpec == PcInit /\ [][PcNext]_pcVars

-----------------------------------------------------------------------------
(* Properties                                                              *)

\* The map is what the objects drive, each device one object's and of a kind that it asked for; and
\* an object that finds no device was right: what it asks for is all in use.
DevicesOwned ==
    /\ \A o \in Objects : uses[o] # None => <<uses[o], o>> \in Entries /\ \E i \in DOMAIN Addresses :
         Addresses[i] = uses[o] /\ slots[i] \in asked[o]
    /\ \A e \in Entries : uses[e[2]] = e[1]
    /\ \A o, p \in Objects : o # p /\ uses[o] # None => uses[o] # uses[p]
    /\ \A kind \in Kinds : Unused(kind, None) = {} =>
         \A i \in DOMAIN Addresses : slots[i] = kind => \E o \in Objects : uses[o] = Addresses[i]
=============================================================================
