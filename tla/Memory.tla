------------------------------- MODULE Memory -------------------------------
(***************************************************************************)
(* Memory objects (src/memory.cpp, dpmi/memory.h): linear memory of the    *)
(* DPMI host, device memory, conventional memory mapped or allocated.  The *)
(* host is the environment: it may lack the functions of DPMI 1.0, fail,   *)
(* and move blocks; a block below the base address of the program is left  *)
(* behind by the loop that asks for it.  Sizes and conventional addresses  *)
(* are in paragraphs, linear addresses in pages.                           *)
(***************************************************************************)
EXTENDS Integers

CONSTANTS
    MemObjects, HostBlocks, DosBlocks, NoBlock,
    Sizes,      \* that are asked for
    PageSize,   \* paragraphs of a page
    MaxPage,    \* bound: the last page where a block begins
    MeOps       \* "below": a resized block is returned below the base;
                \* "grow": dos_memory that does not begin a page, or in vain, is resized to
                \* more than it has;
                \* "destroy": dos_memory, and device memory of DPMI 0.9, are destroyed

ASSUME MemoryAssumption ==
    /\ PageSize \in Nat \ {0} /\ Sizes \subseteq Nat
    /\ NoBlock \notin HostBlocks /\ NoBlock \notin DosBlocks

VARIABLES
    host10,     \* whether the host has the functions of DPMI 1.0
    live,       \* the host's blocks: the page where they begin, or 0
    dosLive,    \* the host's conventional blocks: address within its page, or -1
    mapped,     \* device mappings of function 0800
    deviceDpmi10,   \* device_memory_base::dpmi10_alloc_supported
    limit,      \* __djgpp_selector_limit
    obj         \* the objects

hostVars == <<host10, live, dosLive, mapped>>
memVars == <<hostVars, deviceDpmi10, limit, obj>>

RoundUp(n) == ((n + PageSize - 1) \div PageSize) * PageSize
End(page, bytes) == page + RoundUp(bytes) \div PageSize

\* want: what was asked for; offset: offset_in_block()
Gone == [kind |-> "none", handle |-> NoBlock, dos |-> NoBlock, map |-> NoBlock,
         page |-> 0, bytes |-> 0, offset |-> 0, want |-> 0]

MeInit ==
    /\ host10 \in BOOLEAN /\ deviceDpmi10 = TRUE /\ limit = 1
    /\ live = [b \in HostBlocks |-> 0] /\ dosLive = [d \in DosBlocks |-> -1] /\ mapped = {}
    /\ obj = [o \in MemObjects |-> Gone]

\* check_base_limit()
Reach(page, bytes) == limit' = IF End(page, bytes) > limit THEN End(page, bytes) ELSE limit

\* memory_base::allocate(): function 0504, or 0501 when the host lacks it
AllocateBlock(b, page, bytes) ==
    live[b] = 0 /\ live' = [live EXCEPT ![b] = page] /\ Reach(page, bytes)

CreateMemory(o, n) ==
    /\ obj[o] = Gone
    /\ \E b \in HostBlocks, p \in 1 .. MaxPage :
          /\ AllocateBlock(b, p, n)
          /\ obj' = [obj EXCEPT ![o] =
                [Gone EXCEPT !.kind = "memory", !.handle = b, !.page = p, !.bytes = n, !.want = n]]
    /\ UNCHANGED <<host10, dosLive, mapped, deviceDpmi10>>

\* mapped_dos_memory_base::allocate() with function 0509, up to the object's bytes
MapDos(o, kind, d, bytes, want, offset) ==
    \E b \in HostBlocks, p \in 1 .. MaxPage :
        /\ host10 /\ AllocateBlock(b, p, bytes)
        /\ obj' = [obj EXCEPT ![o] =
              [kind |-> kind, handle |-> b, dos |-> d, map |-> NoBlock, page |-> p,
               bytes |-> bytes - offset, offset |-> offset, want |-> want]]

CreateMapped(o, n) ==
    /\ obj[o] = Gone
    /\ \E offset \in 0 .. PageSize - 1 : MapDos(o, "mapped", NoBlock, RoundUp(n) + PageSize, n, offset)
    /\ UNCHANGED <<host10, dosLive, mapped, deviceDpmi10>>

CreateDos(o, n) ==
    /\ obj[o] = Gone
    /\ \E d \in DosBlocks, at \in 0 .. PageSize - 1 :
          /\ dosLive[d] = -1 /\ dosLive' = [dosLive EXCEPT ![d] = at]
          /\ MapDos(o, "dos", d, RoundUp(n) + PageSize, n, at)
    /\ UNCHANGED <<host10, mapped, deviceDpmi10>>

\* device_memory_base::allocate(): function 0508 into a block, or a mapping of function 0800
\* with the size that the failed attempt left.
CreateDevice(o, n, use09) ==
    /\ obj[o] = Gone
    /\ LET bytes == RoundUp(n) + PageSize
           try10 == deviceDpmi10 /\ ~use09
       IN  \E offset \in 0 .. PageSize - 1, p \in 1 .. MaxPage, b \in HostBlocks :
           \/ /\ try10 /\ host10 /\ AllocateBlock(b, p, bytes)
              /\ obj' = [obj EXCEPT ![o] = [Gone EXCEPT !.kind = "device", !.handle = b,
                    !.page = p, !.bytes = bytes - offset, !.offset = offset, !.want = n]]
              /\ UNCHANGED <<mapped, deviceDpmi10>>
           \/ /\ try10 => ~host10
              /\ b \notin mapped /\ mapped' = mapped \cup {b}
              /\ deviceDpmi10' = (deviceDpmi10 /\ use09)
              /\ LET left == IF try10 THEN bytes - offset ELSE bytes IN
                 /\ Reach(p, left)
                 /\ obj' = [obj EXCEPT ![o] = [Gone EXCEPT !.kind = "device", !.map = b,
                       !.page = p, !.bytes = left, !.want = n]]
              /\ UNCHANGED live
    /\ UNCHANGED <<host10, dosLive>>

\* The move constructors, and the assignments, which swap.
MoveMemory(o, p) ==
    /\ o # p /\ obj[o].kind # "none" /\ obj[p].kind \in {obj[o].kind, "none"}
    /\ obj' = [obj EXCEPT ![o] = obj[p], ![p] = obj[o]]
    /\ UNCHANGED <<hostVars, deviceDpmi10, limit>>

Resized(o, b, page, n) ==
    obj' = [obj EXCEPT ![o].handle = b, ![o].page = page, ![o].bytes = n, ![o].want = n]

\* Mutant: the handle of a block that was moved is not stored.
ResizeStale(o, n) ==
    /\ obj[o].kind = "memory"
    /\ \E b \in HostBlocks, p \in 1 .. MaxPage :
          /\ b = obj[o].handle \/ live[b] = 0
          /\ live' = [live EXCEPT ![obj[o].handle] = 0, ![b] = p]
          /\ Reach(p, n) /\ Resized(o, obj[o].handle, p, n)
    /\ UNCHANGED <<host10, dosLive, mapped, deviceDpmi10>>

\* memory_base::resize(): a block below the base is resized once more, and that may fail.
ResizeMemory(o, n) ==
    /\ obj[o].kind = "memory"
    /\ \E b \in HostBlocks, p \in 1 .. MaxPage :
          /\ b = obj[o].handle \/ live[b] = 0
          /\ live' = [live EXCEPT ![obj[o].handle] = 0, ![b] = p]
          /\ \/ Reach(p, n) /\ Resized(o, b, p, n)
             \/ "below" \in MeOps /\ UNCHANGED <<limit, obj>>
    /\ UNCHANGED <<host10, dosLive, mapped, deviceDpmi10>>

\* dos_memory_base::resize(): smaller in place; for more the mapping is given up first, and
\* may be lost when the host refuses.
ShrinkDos(o, n) ==
    /\ obj[o].kind = "dos" /\ n <= obj[o].bytes
    /\ obj' = [obj EXCEPT ![o].bytes = n, ![o].want = n]
    /\ UNCHANGED <<hostVars, deviceDpmi10, limit>>

GrowDos(o, n) ==
    /\ obj[o].kind = "dos" /\ n > obj[o].bytes /\ obj[o].handle # NoBlock
    /\ \/ /\ "grow" \in MeOps
          /\ live' = [live EXCEPT ![obj[o].handle] = 0] /\ UNCHANGED limit
          /\ obj' = [obj EXCEPT ![o].handle = NoBlock]
       \/ \E p \in 1 .. MaxPage :
             /\ dosLive[obj[o].dos] = 0 \/ "grow" \in MeOps
             /\ live' = [live EXCEPT ![obj[o].handle] = p] /\ Reach(p, n)
             /\ obj' = [obj EXCEPT ![o].page = p, ![o].want = n,
                                   ![o].bytes = n - dosLive[obj[o].dos]]
    /\ UNCHANGED <<host10, dosLive, mapped, deviceDpmi10>>

\* ~memory_base() calls its own deallocate(), not that of the derived class.
DestroyMemory(o) ==
    /\ obj[o].kind # "none" /\ (obj[o].dos # NoBlock \/ obj[o].map # NoBlock => "destroy" \in MeOps)
    /\ live' = [b \in HostBlocks |-> IF b = obj[o].handle THEN 0 ELSE live[b]]
    /\ obj' = [obj EXCEPT ![o] = Gone]
    /\ UNCHANGED <<host10, dosLive, mapped, deviceDpmi10, limit>>

MeNext ==
    \E o \in MemObjects :
        \/ \E n \in Sizes :
              \/ CreateMemory(o, n) \/ CreateMapped(o, n) \/ CreateDos(o, n)
              \/ \E use09 \in BOOLEAN : CreateDevice(o, n, use09)
              \/ ResizeMemory(o, n) \/ ShrinkDos(o, n) \/ GrowDos(o, n)
        \/ \E p \in MemObjects : MoveMemory(o, p)
        \/ DestroyMemory(o)

MeSpec == MeInit /\ [][MeNext]_memVars

-----------------------------------------------------------------------------
(* Properties                                                              *)

Owned(f) == {obj[o][f] : o \in MemObjects} \ {NoBlock}

\* Every object has its memory: as much as was asked for although the offset in the page is
\* taken from it, in a block that the host has, that no other object has, and that the
\* selector limit covers; also after moves, resizes that move the block, and the way back
\* from DPMI 1.0 to 0.9.
ObjectsHold ==
    \A o \in MemObjects : obj[o].kind # "none" =>
        /\ obj[o].bytes >= obj[o].want
        /\ obj[o].map # NoBlock \/ (obj[o].handle # NoBlock /\ live[obj[o].handle] = obj[o].page)
        /\ End(obj[o].page, obj[o].bytes) <= limit
        /\ \A p \in MemObjects \ {o} : obj[p].handle # NoBlock => obj[p].handle # obj[o].handle

\* What no object has any more is given back to the host.
NothingLeaks ==
    /\ \A b \in HostBlocks : live[b] # 0 => b \in Owned("handle")
    /\ \A d \in DosBlocks : dosLive[d] # -1 => d \in Owned("dos")
    /\ mapped \subseteq Owned("map")
=============================================================================
