----------------------------- MODULE ModuleDecoder -----------------------------
(***************************************************************************)
(* DecodeModuleData of TrackerDataFragment.icc for one module, and the     *)
(* SCTEvent it fills.  A module sends its data on two lines, led (LED = 0) *)
(* and ledx (LED = 1); the decoder runs a Bitstream over the words of each *)
(* and takes one packet after the other from the front of its window.  The *)
(* modules of a fragment are decoded one by one, and share nothing.        *)
(*                                                                         *)
(* Positions in the window count from 1, the most significant bit: bit b   *)
(* of the code's masks is position 32 - b.  Chips keep the addresses of    *)
(* the data; the table m_chipIDMap only numbers them.                      *)
(***************************************************************************)
EXTENDS Integers, Sequences, SequencesExt, FiniteSets

CONSTANTS
  UIntModulus,     \* of the unsigned arithmetic in Bitstream
  Inputs           \* what the two lines carry: [sent : lines, flips : positions]

ASSUME UIntAssumption == UIntModulus \in Nat /\ UIntModulus > 64

VARIABLES
  m_currentBuffer, m_bitstreamData, m_bitsUsedOfNextWord, m_bitsAvailable,
  total, removed,   \* the Bitstream of the line being decoded
  input,            \* history: what was sent, and what became of it on the way
  data,             \* dataMap: the bits that arrived, by line
  LED,              \* the line being decoded
  pc,               \* "side", "packet", "firstHit", "hit", "align", "done"
  praeambleFound,
  first,            \* nothing of this line has been removed
  chip, channel,    \* of the data packet being decoded
  sctEvent          \* the event of the module, as {event}; {} for nullptr

bitstream == <<m_currentBuffer, m_bitstreamData, m_bitsUsedOfNextWord, m_bitsAvailable,
               total, removed>>
vars == <<bitstream, input, data, LED, pc, praeambleFound, first, chip, channel, sctEvent>>

Stream == INSTANCE Bitstream
  WITH BufferBits <- 32, UsedBitsPerWord <- 24,
       WordCounts <- {}, Removals <- {1, 3, 4, 11, 13, 19, 28}

-------------------------------------------------------------------------------
(* What modules send. *)

BitValues == <<1, 2, 4, 8, 16, 32, 64, 128>>
Digits(n, width) == [i \in 1..width |-> (n \div BitValues[width - i + 1]) % 2]

HitBits(pattern) == <<1>> \o Digits(pattern, 3)
TrailerBits      == [i \in 1..16 |-> IF i = 1 THEN 1 ELSE 0]

(* The bits of a packet; DecodeModuleData knows them from its masks. *)
PacketBits(p) ==
  CASE p.kind = "header"  -> <<1,1,1,0,1,0>> \o Digits(p.l1id, 4) \o Digits(p.bcid, 8) \o <<1>>
    [] p.kind = "data"    -> <<0,1>> \o Digits(p.chip, 4) \o Digits(p.channel, 7)
                               \o FlattenSeq([i \in DOMAIN p.hits |-> HitBits(p.hits[i])])
    [] p.kind = "nodata"  -> <<0,0,1>>
    [] p.kind = "error"   -> <<0,0,0>> \o Digits(p.chip, 4) \o Digits(p.err, 3) \o <<1>>
    [] p.kind = "config"  -> <<0,0,0>> \o Digits(p.chip, 4) \o <<1,1,1>> \o Digits(p.conf1, 8)
                               \o <<1>> \o Digits(p.conf2, 8) \o <<1>>
    [] p.kind = "trailer" -> TrailerBits

(* The packets of a line, filled up to whole words. *)
BitsOf(packets, n) == FlattenSeq([i \in 1..n |-> PacketBits(packets[i])])

LineBits(packets) ==
  LET bits == BitsOf(packets, Len(packets))
  IN  bits \o [i \in 1..((-Len(bits)) % 24) |-> 0]

SendablePackets ==
  [kind : {"header"}, l1id : 0..15, bcid : 0..255]
    \cup [kind : {"data"}, chip : 0..15, channel : 0..127, hits : Seq(0..7)]
    \cup [kind : {"error"}, chip : 0..15, err : 0..7]
    \cup [kind : {"config"}, chip : 0..15, conf1 : 0..255, conf2 : 0..255]
    \cup [kind : {"nodata", "trailer"}]

(* Fields have the widths that the masks give them; the strips of a data   *)
(* packet follow each other and are bytes.                                 *)
ASSUME InputsAssumption ==
  \A in \in Inputs, line \in {0, 1} :
    /\ in.sent[line] \in Seq(SendablePackets)
    /\ \A i \in DOMAIN in.sent[line] :
         LET p == in.sent[line][i]
         IN  p.kind = "data" => p.hits # <<>> /\ p.channel + Len(p.hits) <= 256

(* What arrives: flips names the bits that changed on the way, as          *)
(* <<line, position>>.                                                     *)
Arrived(in, line) ==
  LET bits == LineBits(in.sent[line])
  IN  [i \in DOMAIN bits |-> IF <<line, i>> \in in.flips THEN 1 - bits[i] ELSE bits[i]]

-------------------------------------------------------------------------------
(* The window and the tags of packets. *)

WindowOn(line, buffer) ==
  [i \in 1..32 |-> IF \E k \in buffer[i] : data[line][k] = 1 THEN 1 ELSE 0]

(* bitstream.GetWord32() *)
GetWord32 == WindowOn(LED, m_currentBuffer)

(* The first word of a line, from a Bitstream of its own. *)
FirstWord(line) ==
  WindowOn(line, Stream!Constructed(Len(data[line]) \div 24).m_currentBuffer)

OtherWord32 == FirstWord(1 - LED)

Field(word, from, to) == FoldLeft(LAMBDA n, bit : 2 * n + bit, 0, SubSeq(word, from, to))

IsHeader(word)  == SubSeq(word, 1, 6) = <<1,1,1,0,1,0>> /\ word[19] = 1
IsErrorOrConfig(word) == SubSeq(word, 1, 3) = <<0,0,0>>   \* Defect: one bit less in the mask.
IsError(word)   == SubSeq(word, 1, 3) = <<0,0,0>> /\ word[11] = 1
IsConfig(word)  == /\ SubSeq(word, 1, 3) = <<0,0,0>> /\ SubSeq(word, 8, 10) = <<1,1,1>>
                   /\ word[19] = 1 /\ word[28] = 1
IsData(word)    == SubSeq(word, 1, 2) = <<0,1>>
IsNoData(word)  == SubSeq(word, 1, 3) = <<0,0,1>>
NeverTrailer(word) == FALSE      \* Defect: the trailer is not looked for.
IsTrailer(word) == SubSeq(word, 1, 16) = TrailerBits
IsZero(word)    == \A i \in 1..32 : word[i] = 0

-------------------------------------------------------------------------------
(* SCTEvent *)

KnownChips == (0..5) \cup (8..13)

NewEvent(l1id, bcid) ==
  [l1id |-> l1id, bcid |-> bcid, complete |-> TRUE, missingData |-> FALSE,
   bcidMismatch |-> FALSE, hasError |-> FALSE,
   hits |-> [c \in KnownChips |-> <<>>], errors |-> [c \in KnownChips |-> <<>>]]

(* ChipIsValid of an unknown chip; the packet is then dropped. *)
WithoutChip(e) == [e EXCEPT !.complete = FALSE, !.missingData = TRUE]

(* ChipIsValid, and AddError or AddHit.  A strip is kept as a uint8_t. *)
WithError(e, c, err) ==
  IF c \in KnownChips
  THEN [e EXCEPT !.hasError = TRUE, !.errors[c] = Append(@, err)]
  ELSE WithoutChip(e)

WithHit(e, c, strip, pattern) ==
  IF c \in KnownChips
  THEN [e EXCEPT !.hits[c] = Append(@, <<strip % 256, pattern>>)]
  ELSE WithoutChip(e)

-------------------------------------------------------------------------------
Init ==
  /\ input \in Inputs
  /\ data = [line \in {0, 1} |-> Arrived(input, line)]
  /\ LED = 0 /\ pc = "side" /\ praeambleFound = FALSE /\ first = TRUE
  /\ chip = 0 /\ channel = 0
  /\ sctEvent = {}
  /\ m_currentBuffer = Stream!Zero /\ m_bitstreamData = <<>>
  /\ m_bitsUsedOfNextWord = 0 /\ m_bitsAvailable = 0
  /\ total = 0 /\ removed = 0

(* The variables local to a line. *)
LocalsKept   == UNCHANGED praeambleFound /\ first' = TRUE   \* Defect: one outlives its line.
LocalsOfSide == praeambleFound' = FALSE /\ first' = TRUE

StartSide ==
  LET stream == Stream!Constructed(Len(data[LED]) \div 24)
  IN  /\ pc = "side"
      /\ m_currentBuffer' = stream.m_currentBuffer
      /\ m_bitstreamData' = stream.m_bitstreamData
      /\ m_bitsUsedOfNextWord' = stream.m_bitsUsedOfNextWord
      /\ m_bitsAvailable' = stream.m_bitsAvailable
      /\ total' = Len(data[LED]) /\ removed' = 0
      /\ LocalsOfSide
      /\ pc' = "packet"
      /\ UNCHANGED <<input, data, LED, chip, channel, sctEvent>>

LeaveSide ==
  /\ IF LED = 0 THEN LED' = 1 /\ pc' = "side" ELSE LED' = LED /\ pc' = "done"
  /\ UNCHANGED <<bitstream, input, data, praeambleFound, first, chip, channel, sctEvent>>

NoBitsAvailable == pc = "packet" /\ ~Stream!BitsAvailable /\ LeaveSide

(* The word looked at for a header.  For the first of a line, the first    *)
(* word of the other line takes the place of one that is no header; on     *)
(* led, it takes the place of one that differs in the header bits, too.    *)
OwnWord == GetWord32       \* Defect: the other line is not consulted.
HeaderWord ==
  LET word == IF first /\ ~IsHeader(GetWord32) THEN OtherWord32 ELSE GetWord32
  IN  IF first /\ LED = 0 /\ SubSeq(word, 1, 19) # SubSeq(OtherWord32, 1, 19)
      THEN OtherWord32 ELSE word

(* A header on led always begins an event, one on ledx only if led had none. *)
AlwaysBegins == TRUE      \* Defect: the event led has begun is not looked up.
BeginsEvent == LED = 0 \/ sctEvent = {}

AtPacket == pc = "packet" /\ Stream!BitsAvailable

ModuleHeader ==
  LET word == HeaderWord
  IN  /\ AtPacket
      /\ IsHeader(word)
      /\ sctEvent' = IF BeginsEvent
                     THEN {NewEvent(Field(word, 7, 10), Field(word, 11, 18))}
                     ELSE sctEvent
      /\ Stream!RemoveBits(19)
      /\ praeambleFound' = TRUE /\ first' = FALSE
      /\ UNCHANGED <<input, data, LED, pc, chip, channel>>

NoPraeamble ==
  /\ AtPacket /\ ~IsHeader(HeaderWord) /\ ~praeambleFound
  /\ Stream!RemoveBits(1)
  /\ first' = FALSE
  /\ UNCHANGED <<input, data, LED, pc, praeambleFound, chip, channel, sctEvent>>

(* After the preamble there is an event to fill. *)
InEvent == AtPacket /\ ~IsHeader(HeaderWord) /\ praeambleFound

ErrorPacket ==
  /\ InEvent /\ IsError(GetWord32)
  /\ sctEvent' = {WithError(e, Field(GetWord32, 4, 7), Field(GetWord32, 8, 10)) : e \in sctEvent}
  /\ Stream!RemoveBits(11)
  /\ UNCHANGED <<input, data, LED, pc, praeambleFound, first, chip, channel>>

ConfigPacket ==
  /\ InEvent /\ ~IsError(GetWord32) /\ IsConfig(GetWord32)
  /\ Stream!RemoveBits(28)
  /\ UNCHANGED <<input, data, LED, pc, praeambleFound, first, chip, channel, sctEvent>>

(* The bit before a hit is missing: a flipped bit, which may have cost the *)
(* low bits of the channel.                                                *)
Repaired(c) == (c \div 8) * 8 + 7

DataPacket ==
  /\ InEvent /\ IsData(GetWord32)
  /\ Stream!RemoveBits(13)
  /\ chip' = Field(GetWord32, 3, 6)
  /\ channel' = LET c == Field(GetWord32, 7, 13)
                IN  IF WindowOn(LED, m_currentBuffer')[1] = 1 THEN c ELSE Repaired(c)
  /\ pc' = "firstHit"
  /\ UNCHANGED <<input, data, LED, praeambleFound, first, sctEvent>>

(* The first round of the loop over hits takes the leading bit as set. *)
MoreHits ==
  /\ pc = "firstHit" \/ (pc = "hit" /\ GetWord32[1] = 1)
  /\ ~IsTrailer(GetWord32)

Hit ==
  /\ MoreHits
  /\ sctEvent' = {WithHit(e, chip, channel, Field(GetWord32, 2, 4)) : e \in sctEvent}
  /\ channel' = IF chip \in KnownChips THEN channel + 1 ELSE channel
  /\ Stream!RemoveBits(4)
  /\ pc' = "hit"
  /\ UNCHANGED <<input, data, LED, praeambleFound, first, chip>>

HitsEnd ==
  /\ pc \in {"firstHit", "hit"} /\ ~MoreHits
  /\ pc' = "packet"
  /\ UNCHANGED <<bitstream, input, data, LED, praeambleFound, first, chip, channel, sctEvent>>

NoDataPacket ==
  /\ InEvent /\ IsNoData(GetWord32)
  /\ Stream!RemoveBits(3)
  /\ UNCHANGED <<input, data, LED, pc, praeambleFound, first, chip, channel, sctEvent>>

(* What follows the trailer is ignored. *)
Trailer == InEvent /\ IsTrailer(GetWord32) /\ LeaveSide

Unknown ==
  /\ InEvent
  /\ ~IsError(GetWord32) /\ ~IsConfig(GetWord32) /\ ~IsData(GetWord32)
  /\ ~IsNoData(GetWord32) /\ ~IsTrailer(GetWord32)

AnyBits(word) == TRUE      \* Defect: a word of zeros is not told apart.
SomeBits(word) == ~IsZero(word)

UnableToDecode ==
  /\ Unknown /\ SomeBits(GetWord32)
  /\ pc' = "align"
  /\ UNCHANGED <<bitstream, input, data, LED, praeambleFound, first, chip, channel, sctEvent>>

(* The loop that looks for the tag of a data packet. *)
Aligned == IsData(GetWord32) \/ IsZero(GetWord32)

Align ==
  /\ pc = "align" /\ ~Aligned
  /\ Stream!RemoveBits(1)
  /\ UNCHANGED <<input, data, LED, pc, praeambleFound, first, chip, channel, sctEvent>>

EndAlign ==
  /\ pc = "align" /\ Aligned
  /\ pc' = "packet"
  /\ UNCHANGED <<bitstream, input, data, LED, praeambleFound, first, chip, channel, sctEvent>>

SkipZeros ==
  /\ Unknown /\ ~SomeBits(GetWord32)
  /\ Stream!RemoveBits(1)
  /\ UNCHANGED <<input, data, LED, pc, praeambleFound, first, chip, channel, sctEvent>>

Next ==
  \/ StartSide \/ NoBitsAvailable
  \/ ModuleHeader \/ NoPraeamble
  \/ ErrorPacket \/ ConfigPacket \/ NoDataPacket
  \/ DataPacket \/ Hit \/ HitsEnd
  \/ Trailer
  \/ UnableToDecode \/ Align \/ EndAlign \/ SkipZeros

(* Sequential code that waits for nobody. *)
Spec == Init /\ [][Next]_vars /\ WF_vars(Next)

-------------------------------------------------------------------------------
Packets(line) == input.sent[line]

(* A line as modules send it: a header, packets, a trailer.  Of the        *)
(* configuration packets, those whose first register begins with a one     *)
(* carry the tag of an error packet and are taken for one.                 *)
Proper(line) ==
  LET p == Packets(line)
  IN  /\ Len(p) >= 2
      /\ \A i \in DOMAIN p :
           /\ p[i].kind = "header" <=> i = 1
           /\ p[i].kind = "trailer" <=> i = Len(p)
           /\ p[i].kind = "config" => p[i].conf1 < 128

(* Of chip c, in a packet and in the first n packets of a line.            *)
HitsIn(p, c) ==
  IF p.kind = "data" /\ p.chip = c
  THEN [j \in DOMAIN p.hits |-> <<p.channel + j - 1, p.hits[j]>>] ELSE <<>>
ErrorsIn(p, c) == IF p.kind = "error" /\ p.chip = c THEN <<p.err>> ELSE <<>>

HitsOfFirst(line, n, c)   == FlattenSeq([i \in 1..n |-> HitsIn(Packets(line)[i], c)])
ErrorsOfFirst(line, n, c) == FlattenSeq([i \in 1..n |-> ErrorsIn(Packets(line)[i], c)])
HitsSent(line, c)         == HitsOfFirst(line, Len(Packets(line)), c)
ErrorsSent(line, c)       == ErrorsOfFirst(line, Len(Packets(line)), c)

ChipsIn(kinds) ==
  {p.chip : p \in {q \in Range(Packets(0)) \cup Range(Packets(1)) : q.kind \in kinds}}

Intact == input.flips = {} /\ Proper(0) /\ Proper(1)

(* There is an event to fill whenever one is filled (the code's test for   *)
(* none after a preamble never fires), and strips are bytes.               *)
TypeOK ==
  /\ LED \in {0, 1}
  /\ pc \in {"side", "packet", "firstHit", "hit", "align", "done"}
  /\ Cardinality(sctEvent) <= 1
  /\ praeambleFound => sctEvent # {} /\ ~first
  /\ pc \in {"firstHit", "hit", "align"} => praeambleFound
  /\ \A e \in sctEvent, c \in KnownChips :
       /\ Range(e.hits[c]) \subseteq (0..255) \X (0..7)
       /\ Range(e.errors[c]) \subseteq 0..7
       /\ e.errors[c] # <<>> => e.hasError
  /\ m_bitsAvailable \in 0..32

(* Every hit sent is in the event of the module, with its chip, strip and  *)
(* pattern, in order, and nothing else is, wherever packets lie in the     *)
(* words; the event is marked incomplete if hits of an unknown chip were   *)
(* dropped, and not marked so for no reason.                               *)
HitsDecoded ==
  pc = "done" /\ Intact =>
    \E e \in sctEvent :
      /\ \A c \in KnownChips : e.hits[c] = HitsSent(0, c) \o HitsSent(1, c)
      /\ ~(ChipsIn({"data"}) \subseteq KnownChips) => ~e.complete /\ e.missingData
      /\ ChipsIn({"data", "error"}) \subseteq KnownChips => e.complete /\ ~e.missingData

(* The errors of a line are in the event in order, up to a last few: an    *)
(* error can only be missing if it begins in the last 32 bits of its line, *)
(* which are in the buffer when m_bitsAvailable drops to zero too early.   *)
ErrorsDecoded ==
  LET safe(line, c) == Cardinality({i \in DOMAIN Packets(line) :
                         /\ Packets(line)[i].kind = "error" /\ Packets(line)[i].chip = c
                         /\ Len(BitsOf(Packets(line), i - 1)) < Len(data[line]) - 32})
      upTo(line, c, n) == SubSeq(ErrorsSent(line, c), 1, n)
  IN  pc = "done" /\ Intact =>
        \A e \in sctEvent, c \in KnownChips :
          \E n \in safe(0, c)..Len(ErrorsSent(0, c)),
             m \in safe(1, c)..Len(ErrorsSent(1, c)) :
            e.errors[c] = upTo(0, c, n) \o upTo(1, c, m)

(* Only the headers were damaged. *)
HeadersDamaged ==
  /\ Proper(0)
  /\ Packets(1) = <<>> \/ Proper(1)
  /\ \A flip \in input.flips : flip[2] <= 19

(* Bits of led that look like a header, after its first. *)
HeaderWithin(line) ==
  \E p \in 2..(Len(data[line]) - 18) :
    IsHeader(SubSeq(data[line], p, p + 18))

(* Whatever happened to the header of led, its hits are in the event, and  *)
(* the event has the identity that ledx gives, if ledx begins with a       *)
(* header.  If ledx does not, the hits of led are lost even behind an      *)
(* intact header; and if ledx is silent there is no event at all.  This is *)
(* said of lines without bits that look like a header behind their first   *)
(* word: behind a damaged header the decoder would take those for one.     *)
LedNeedsLedx ==
  LET begins(line) == IsHeader(FirstWord(line))
      decoded(word, hits(_)) ==
        \E e \in sctEvent :
          /\ e.l1id = Field(word, 7, 10) /\ e.bcid = Field(word, 11, 18)
          /\ \A c \in KnownChips : e.hits[c] = hits(c)
      both(c) == HitsSent(0, c) \o HitsSent(1, c)
      ledx(c) == HitsSent(1, c)
  IN  pc = "done" /\ HeadersDamaged /\ ~HeaderWithin(0) /\ ~HeaderWithin(1) =>
        CASE begins(1) -> decoded(FirstWord(1), both)
          [] ~begins(1) /\ begins(0) /\ data[1] # <<>> -> decoded(FirstWord(0), ledx)
          [] OTHER -> sctEvent = {}

(* Whatever arrives on ledx, nothing that led brought is lost, and the     *)
(* event keeps its identity.                                               *)
LedKept ==
  [][LED = 1 =>
       \A e \in sctEvent : \E f \in sctEvent' :
         /\ f.l1id = e.l1id /\ f.bcid = e.bcid
         /\ \A c \in KnownChips : IsPrefix(e.hits[c], f.hits[c]) /\ IsPrefix(e.errors[c], f.errors[c])]_vars

(* The decoder comes to an end on every input. *)
Termination == <>(pc = "done")

(* When both lines begin with headers that differ in the bunch crossing,   *)
(* BCIDMismatch() returns true ("bcid mismatch between led and ledX data   *)
(* streams").                                                              *)
MismatchReported ==
  pc = "done" /\ IsHeader(FirstWord(0)) /\ IsHeader(FirstWord(1)) =>
    \A e \in sctEvent :
      Field(FirstWord(0), 11, 18) # Field(FirstWord(1), 11, 18) => e.bcidMismatch

===============================================================================
