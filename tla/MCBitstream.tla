------------------------------ MODULE MCBitstream ------------------------------
(***************************************************************************)
(* Instances of Bitstream for TLC, with the widths of the build and the    *)
(* removals of DecodeModuleData, for streams of up to six words.           *)
(***************************************************************************)
EXTENDS Bitstream

DecoderRemovals == {1, 3, 4, 11, 13, 19, 28}
===============================================================================
