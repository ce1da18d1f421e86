------------------------------ MODULE Examples ------------------------------
(***************************************************************************)
(* The two example programs one after the other: main_dmx cuts bars.ts     *)
(* into files, main_mx multiplexes these files again. It is started when   *)
(* there are as many video files as it goes by (1201 in the code).         *)
(***************************************************************************)
EXTENDS MainDmx, MainMx

vars == <<dmxVars, mxVars>>

Init == DmxInit /\ MxInit

Dmx == ReadPacket /\ UNCHANGED mxVars
Mx  == /\ eof /\ Len(vFiles) > LoopFrames["video"]
       /\ MxNext
       /\ UNCHANGED dmxVars

Next == Dmx \/ Mx
Spec == Init /\ [][Next]_vars
=============================================================================
