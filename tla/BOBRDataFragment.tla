--------------------------- MODULE BOBRDataFragment ---------------------------
(***************************************************************************)
(* The decoder of the beam observation board (BOBRDataFragment.hpp), a     *)
(* struct of eight words.  A payload is [size, words]; the first word is   *)
(* [header, status], the status a set of bits, the sixth                   *)
(* [machinemode, momentum]; the others are values.                         *)
(***************************************************************************)
EXTENDS Integers, Sequences

BOBRSize == 32                 \* sizeof(BOBREventV1)
BOBRHeaderV1 == 45233          \* 0xB0B1

BOBRThrows(payload) ==
  payload.size # BOBRSize \/ payload.words[1].header # BOBRHeaderV1

(* The modes with a name. *)
KnownModes == (1..11) \cup {13, 14, 15, 19, 21}

machinemode_txt(word) == IF word.machinemode \in KnownModes THEN word.machinemode ELSE 0

(* The lines that operator<< writes about the status: bits 0 and 12 tell   *)
(* of a problem, bits 8 to 11 that there is none.                          *)
Warnings(status) == ({0, 12} \cap status) \cup ({8, 9, 10, 11} \ status)

BOBRPrint(payload) ==
  [status   |-> payload.words[1].status,
   warnings |-> Warnings(payload.words[1].status),
   values   |-> SubSeq(payload.words, 2, 5) \o SubSeq(payload.words, 7, 8),
   mode     |-> machinemode_txt(payload.words[6]),
   momentum |-> payload.words[6].momentum]

===============================================================================
