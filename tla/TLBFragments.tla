----------------------------- MODULE TLBFragments -----------------------------
(***************************************************************************)
(* The decoders of the trigger logic board: TLBDataFragment.hpp and        *)
(* TLBMonitoringFragment.hpp, two structs of words with the same rules in  *)
(* two versions.                                                           *)
(*                                                                         *)
(* A word is [frame, content]: its upper 8 and lower 24 bits.  A payload   *)
(* is [size, words]: its bytes, and its words, the last of them incomplete *)
(* if size is no multiple of 4.  It has at least one complete word, which  *)
(* both constructors read before they look at the size.                    *)
(***************************************************************************)
EXTENDS FletcherChecksum

CONSTANT MaxTrigLine      \* MAX_TRIG_LINE, trigger lines of the board: 6

(* The content of a word is three bytes; the first words of formats and    *)
(* versions differ in their low bits.                                      *)
ASSUME BytesAssumption ==
  MaxTrigLine \in Nat \ {0} /\ (2 * FieldBits) % 3 = 0 /\ FieldBits >= 3

WordSize == 4
ByteRange == 2^((2 * FieldBits) \div 3)

NumberOf(word) == (word.frame * ContentRange + word.content) % WordModulus

WholeWords(payload) == SubSeq(payload.words, 1, payload.size \div WordSize)

ChecksumCalculated(payload) ==
  LET whole == WholeWords(payload)
  IN  ReturnFletcherChecksum([k \in DOMAIN whole |-> NumberOf(whole[k])])

(* The first word of a format and version: 0xFEAD and 16 bits. *)
HeaderWord(low) == [frame |-> 254, content |-> (173 * 65536 + low) % ContentRange]

Headers(format) ==
  CASE format = "data"       -> <<HeaderWord(10), HeaderWord(160)>>
    [] format = "monitoring" -> <<HeaderWord(80), HeaderWord(5)>>

UnknownVersion == 255

VersionOf(format, payload) ==
  IF \E v \in {1, 2} : payload.words[1] = Headers(format)[v]
  THEN CHOOSE v \in {1, 2} : payload.words[1] = Headers(format)[v]
  ELSE UnknownVersion

(* Where the words are.  Monitoring data of version 2 have three more      *)
(* counters (formerly one) before the checksum than version 1, which has   *)
(* none.                                                                   *)
EventID == 2
OrbitID == 3
BCID    == 4
TBPTAP  == 5
TBP(line) == 5 + line
TAP(line) == 5 + MaxTrigLine + line
TAV(line) == 5 + 2 * MaxTrigLine + line
Veto(n) == 4 + 3 * MaxTrigLine + n        \* deadtime, busy, rate limiter, bcr; digitizer busy
ORed(n) == Veto(5) + n                    \* tap, tav

LengthOf(format, version) ==
  CASE format = "data"       -> IF version = 1 THEN TBPTAP ELSE TBPTAP + 1
    [] format = "monitoring" -> IF version = 1 THEN Veto(4) ELSE ORed(3)

ChecksumAt(format) == LengthOf(format, 2)

(* Sizes that valid() accepts; 112 is MONDATA_V2_OLD_SIZE. *)
Sizes(format, version) ==
  {WordSize * LengthOf(format, version)}
    \cup IF format = "monitoring" /\ version = 2 THEN {WordSize * ORed(1)} ELSE {}

-------------------------------------------------------------------------------
(* The structs before anything is copied. *)
Word(frame, content) == [frame |-> frame, content |-> content]
AllOnes == ContentRange - 1

Blank(format) ==
  [k \in 1..ChecksumAt(format) |->
     CASE k = EventID -> Word(0, AllOnes)
       [] k = OrbitID -> Word(255, AllOnes)
       [] k = BCID    -> Word(0, (16 * FieldRange - 1) % ContentRange)
       [] format = "monitoring" /\ k \in ORed(1)..ORed(2) -> Word(240, AllOnes)
       [] format = "monitoring" /\ k \in Veto(1)..Veto(5) -> Word(0, AllOnes)
       [] OTHER -> Word(0, 0)]

(* memcpy of some bytes; of the last word perhaps only the lower ones, at  *)
(* most three.                                                             *)
LowBytesOver(old, new, bytes) ==
  LET range == ByteRange^bytes
  IN  [old EXCEPT !.content = (old.content \div range) * range + (new.content % range)]

CopiedOver(struct, payload, bytes) ==
  [k \in DOMAIN struct |->
     IF WordSize * k <= bytes THEN payload.words[k]
     ELSE IF WordSize * (k - 1) < bytes
          THEN LowBytesOver(struct[k], payload.words[k], bytes - WordSize * (k - 1))
          ELSE struct[k]]

Smaller(a, b) == IF a < b THEN a ELSE b

(* TLBDataFragment: whatever the version, as much as there is and fits.    *)
(* Nothing else is written to the checksum, which begins as garbage.       *)
DataStruct(payload, garbage) ==
  CopiedOver([Blank("data") EXCEPT ![ChecksumAt("data")] = garbage], payload,
             Smaller(payload.size, WordSize * ChecksumAt("data")))

(* TLBMonitoringFragment: as the version says, and nothing of an unknown   *)
(* one; the checksum is the last word of the payload.                      *)
MonitoringStruct(payload) ==
  LET version == VersionOf("monitoring", payload)
      size == WordSize * LengthOf("monitoring", version)
      bytes == CASE version = 1 -> Smaller(payload.size, size)
                 [] version = 2 -> Smaller(payload.size, size) - WordSize
                 [] OTHER -> 0
  IN  [CopiedOver(Blank("monitoring"), payload, bytes)
         EXCEPT ![ChecksumAt("monitoring")] = payload.words[payload.size \div WordSize]]

(* Both constructors. *)
TLBFragment(format, payload, garbage) ==
  [format         |-> format,
   size           |-> payload.size,
   version        |-> VersionOf(format, payload),
   event          |-> IF format = "data" THEN DataStruct(payload, garbage)
                      ELSE MonitoringStruct(payload),
   crc_calculated |-> ChecksumCalculated(payload)]

(* The frame id of the word at k is the one it should have. *)
Nibble(frame, id) == frame \div 16 = id

RightFrame(format, k, frame) ==
  CASE k = EventID -> Nibble(frame, 1)
    [] k = BCID    -> Nibble(frame, 3)
    [] k = ChecksumAt(format) -> Nibble(frame, IF format = "data" THEN 14 ELSE 13)
    [] format = "data" /\ k = TBPTAP -> Nibble(frame, 12)
    [] format = "monitoring" /\ k \in TBP(0)..(TAP(0) - 1)  -> frame = 64 + (k - TBP(0))
    [] format = "monitoring" /\ k \in TAP(0)..(TAV(0) - 1)  -> frame = 80 + (k - TAP(0))
    [] format = "monitoring" /\ k \in TAV(0)..(Veto(1) - 1) -> frame = 96 + (k - TAV(0))
    [] format = "monitoring" /\ k \in ORed(1)..ORed(2)      -> Nibble(frame, 15)
    [] OTHER -> TRUE

(* Defect: the last words have no frame. *)
frame_checkButLast(f) ==
  f.version < 2 \/ \A k \in 1..(Len(f.event) - 3) : RightFrame(f.format, k, f.event[k].frame)

frame_check(f) ==
  f.version < 2 \/ \A k \in DOMAIN f.event : RightFrame(f.format, k, f.event[k].frame)

checksum(f) == f.event[ChecksumAt(f.format)].content

has_checksum_error(f) == f.version >= 2 /\ f.crc_calculated # checksum(f)
has_frameid_error(f)  == ~frame_check(f)

TLBValid(f) ==
  /\ f.version # UnknownVersion
  /\ f.version > 1 => f.crc_calculated = checksum(f) /\ frame_check(f)
  /\ f.size \in Sizes(f.format, f.version)

-------------------------------------------------------------------------------
(* The fields that operator<< writes, in order.  The event id is read      *)
(* without a test, orbit_id is the first whose getter throws.  TAP, TBP    *)
(* and input bits are the whole word they are taken from: which of its     *)
(* bits the getters mask and shift out is in the name, and not checked.    *)
Field(name, value) == <<[name |-> name, value |-> value]>>
Contents(name, event, from, to) ==
  [n \in 1..(to + 1 - from) |-> [name |-> name, value |-> event[from + n - 1].content]]

DataFields(event, version) ==
     Field("event_id", event[EventID].content)
  \o Field("orbit_id", NumberOf(event[OrbitID]))
  \o Field("bc_id", event[BCID].content % FieldRange)
  \o Field(IF version < 2 THEN "TAP of bits 8 to 13" ELSE "TAP of bits 6 to 11",
           NumberOf(event[TBPTAP]))
  \o Field("TBP and input bits", NumberOf(event[TBPTAP]))
  \o Field("ext. orbits lost", event[BCID].content \div FieldRange)

LineFields(event) ==
  FlattenSeq([n \in 1..MaxTrigLine |->
                Field("tbp", event[TBP(n - 1)].content)
                  \o Field("tap", event[TAP(n - 1)].content)
                  \o Field("tav", event[TAV(n - 1)].content)])

(* Defect: the smaller size is forgotten when printing. *)
MonitoringFieldsAll(event, version, size) ==
     Field("event_id", event[EventID].content)
  \o Field("orbit_id", NumberOf(event[OrbitID]))
  \o Field("bc_id", event[BCID].content % FieldRange)
  \o LineFields(event)
  \o Contents("veto", event, Veto(1), IF version > 1 THEN Veto(5) ELSE Veto(4))
  \o (IF version > 1 THEN Contents("ORed", event, ORed(1), ORed(2)) ELSE <<>>)
  \o Field("ext. orbits lost", event[BCID].content \div FieldRange)

MonitoringFields(event, version, size) ==
     Field("event_id", event[EventID].content)
  \o Field("orbit_id", NumberOf(event[OrbitID]))
  \o Field("bc_id", event[BCID].content % FieldRange)
  \o LineFields(event)
  \o Contents("veto", event, Veto(1), IF version > 1 THEN Veto(5) ELSE Veto(4))
  \o (IF version > 1 /\ size # WordSize * ORed(1)
      THEN Contents("ORed", event, ORed(1), ORed(2)) ELSE <<>>)
  \o Field("ext. orbits lost", event[BCID].content \div FieldRange)

Fields(f) ==
  IF f.format = "data" THEN DataFields(f.event, f.version)
  ELSE MonitoringFields(f.event, f.version, f.size)

(* What the handler of the exception writes after the fields so far. *)
Corrupted(f) ==
  [event_id |-> f.event[EventID].content,
   bc_id    |-> f.event[BCID].content % FieldRange,
   size     |-> f.size,
   errors   |-> IF f.version > 1
                THEN {[checksum |-> has_checksum_error(f), frameid |-> has_frameid_error(f)]}
                ELSE {}]

(* Every getter behind event_id, except bc_id and the lost orbits. *)
Readable(f, debug) == TLBValid(f) \/ debug

(* operator<<: the fields shown, and the message if a getter threw. *)
TLBPrint(f, debug) ==
  IF Readable(f, debug)
  THEN [shown |-> Fields(f), corrupted |-> {}]
  ELSE [shown |-> SubSeq(Fields(f), 1, 1), corrupted |-> {Corrupted(f)}]

===============================================================================
