----------------------------- MODULE MCDevices ------------------------------
(***************************************************************************)
(* Instances of the device drivers for TLC.  They share no state, so one   *)
(* behaviour runs one of them, part, and leaves the state of the others    *)
(* alone.  Devices.cfg gives Rs232 no output: MCLive has one that sends.   *)
(***************************************************************************)
EXTENDS Rs232, Mpu401, Opl, Vbe, Pci, Clocks, Keyboard, Scancode, KeyText, Dma

CONSTANTS t1, t2, o1, o2, o3, k1, k2

\* A pair of channels and one that belongs to none; two voices have more priority.
VoicePriority == [v \in {"a", "b", "x"} |-> IF v = "b" THEN 2 ELSE 1]
PlainChannels == <<2>>
ChannelPairs == <<<<0, 1>>>>
\* Two functions of a device, a second device, and one on another bus.
PcAddresses == <<<<0, 1, 0>>, <<0, 1, 1>>, <<0, 2, 0>>, <<1, 1, 0>>>>

VARIABLE part   \* the component that runs

Parts == {"rs232", "mpu401", "keyboard", "scancode", "text", "pit", "rtc", "opl", "vbe", "dma",
          "pci"}

DevicesInit ==
    /\ part \in Parts
    /\ RsInit
    /\ part # "rs232" => flow = "continuous" /\ eofOnBreak
    /\ MpuInit
    /\ part # "mpu401" => useIrq /\ mpuReady /\ mpuMode = "normal"
    /\ KbInit
    /\ part # "keyboard" => flags = {}
    /\ ScInit
    /\ part # "scancode" => scSet = "set1"
    /\ KtInit
    /\ CkInit
    /\ part # "pit" => count = Full
    /\ OplInit
    /\ part # "opl" => oplMode = "no"
    /\ VbInit
    /\ part # "vbe" => vbBios.version = 1 /\ DOMAIN vbBios.good = {}
    /\ DmInit
    /\ PcInit
    /\ part # "pci" => ~pcBios /\ \A i \in DOMAIN slots : slots[i] = None

DevicesNext ==
    \/ part = "rs232" /\ RsNext
       /\ UNCHANGED <<part, mpuVars, kbVars, scVars, ktVars, ckVars, oplVars, vbVars, dmVars,
                      pcVars>>
    \/ part = "mpu401" /\ MpuNext
       /\ UNCHANGED <<part, rsVars, kbVars, scVars, ktVars, ckVars, oplVars, vbVars, dmVars,
                      pcVars>>
    \/ part = "keyboard" /\ KbNext
       /\ UNCHANGED <<part, rsVars, mpuVars, scVars, ktVars, ckVars, oplVars, vbVars, dmVars,
                      pcVars>>
    \/ part = "scancode" /\ ScNext
       /\ UNCHANGED <<part, rsVars, mpuVars, kbVars, ktVars, ckVars, oplVars, vbVars, dmVars,
                      pcVars>>
    \/ part = "text" /\ KtNext
       /\ UNCHANGED <<part, rsVars, mpuVars, kbVars, scVars, ckVars, oplVars, vbVars, dmVars,
                      pcVars>>
    \/ part = "pit" /\ PitNext
       /\ UNCHANGED <<part, rsVars, mpuVars, kbVars, scVars, ktVars, oplVars, vbVars, dmVars,
                      pcVars>>
    \/ part = "rtc" /\ RtcNext
       /\ UNCHANGED <<part, rsVars, mpuVars, kbVars, scVars, ktVars, oplVars, vbVars, dmVars,
                      pcVars>>
    \/ part = "opl" /\ OplNext
       /\ UNCHANGED <<part, rsVars, mpuVars, kbVars, scVars, ktVars, ckVars, vbVars, dmVars,
                      pcVars>>
    \/ part = "vbe" /\ VbNext
       /\ UNCHANGED <<part, rsVars, mpuVars, kbVars, scVars, ktVars, ckVars, oplVars, dmVars,
                      pcVars>>
    \/ part = "dma" /\ DmNext
       /\ UNCHANGED <<part, rsVars, mpuVars, kbVars, scVars, ktVars, ckVars, oplVars, vbVars,
                      pcVars>>
    \/ part = "pci" /\ PcNext
       /\ UNCHANGED <<part, rsVars, mpuVars, kbVars, scVars, ktVars, ckVars, oplVars, vbVars,
                      dmVars>>

DevicesSpec ==
    DevicesInit /\ [][DevicesNext]_<<part, rsVars, mpuVars, kbVars, scVars, ktVars, ckVars, oplVars, vbVars, dmVars, pcVars>>
-----------------------------------------------------------------------------
\* rs232.cpp, mpu401.cpp: the program reads every byte received once and in order, and where some
\* are missing it is told before it reads on.
LossesMarked == RsLossesMarked /\ MpuLossesMarked

\* scancode.cpp, keyboard_streambuf.cpp: scancodes are decoded to the keys that were pressed, and
\* the keys to the text that was typed.
KeysDecoded == ScKeysDecoded /\ TextKept

\* opl.cpp: no note hangs, no two voices share operators, and a sounding voice loses its channel
\* only to one of at least its priority.
NotesKept == []NotesOwned /\ [][part = "opl" => StealsNone]_oplVars
=============================================================================
