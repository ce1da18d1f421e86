------------------------------ MODULE BarsDmx ------------------------------
(***************************************************************************)
(* The directory bars_dmx, which main_dmx writes and main_mx reads.        *)
(***************************************************************************)
VARIABLES
    aFiles,         \* af<n>.adts, n from 1 on: runs of frames of bars.ts
    vFiles          \* vf<n>.h264 with ptsdts<n>.txt: [data, pts, dts]
=============================================================================
