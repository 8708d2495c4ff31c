------------------------------ MODULE TrackerWords ------------------------------
(***************************************************************************)
(* The constructor of TrackerDataFragment (TrackerDataFragment.icc) up to  *)
(* the decoding of modules, and valid(): the loop over the words of a      *)
(* tracker readout board, which fills the TRBEvent.                        *)
(*                                                                         *)
(* A word has a kind, which its type bits make, a frame counter and a      *)
(* content, the low bits:                                                  *)
(*   eventid, crc, end, header   header words: an event id, a checksum,    *)
(*                               TRB_END, any other                        *)
(*   bcid, trberror, moduleerror, trbdata   data words of the board, the   *)
(*                               last of a type the loop does not know     *)
(*   module                      data of a line <<module, channel>>        *)
(***************************************************************************)
EXTENDS FletcherChecksum, FiniteSets

CONSTANTS
  Transmissions  \* [sent : words, fault : [lost : their positions,
                 \*                         changed : from positions to contents]]

FrameCounterCycle == 8      \* FRAME_COUNTER_CYCLE; a frame counter has three bits

BoardKinds == {"eventid", "crc", "end", "header", "bcid", "trberror", "moduleerror", "trbdata"}
Contents   == 0..(ContentRange - 1)

Words ==
  [kind : BoardKinds, counter : 0..(FrameCounterCycle - 1), content : Contents]
    \cup [kind : {"module"}, line : (0..7) \X (0..1),
          counter : 0..(FrameCounterCycle - 1), content : Contents]

ASSUME TransmissionsAssumption ==
  \A t \in Transmissions :
    /\ t.sent \in Seq(Words)
    /\ t.fault.lost \subseteq DOMAIN t.sent
    /\ DOMAIN t.fault.changed \subseteq DOMAIN t.sent
    /\ \A k \in DOMAIN t.fault.changed : t.fault.changed[k] \in Contents

(* The type bits above and below the frame counter. *)
TypeBits(w) ==
  CASE w.kind = "eventid"     -> <<0, 0>>
    [] w.kind = "crc"         -> <<0, 1>>
    [] w.kind = "end"         -> <<0, 7>>
    [] w.kind = "header"      -> <<0, 2>>
    [] w.kind = "bcid"        -> <<1, 0>>
    [] w.kind = "trberror"    -> <<1, 1>>
    [] w.kind = "moduleerror" -> <<1, 2>>
    [] w.kind = "trbdata"     -> <<1, 4>>
    [] w.kind = "module"      -> <<2 + w.line[2], w.line[1]>>

(* The word as the checksum sees it. *)
Number(w) ==
  (((TypeBits(w)[1] * FrameCounterCycle + w.counter) * 8 + TypeBits(w)[2]) * ContentRange
     + w.content) % WordModulus

Numbers(words) == [k \in DOMAIN words |-> Number(words[k])]

VARIABLES
  sent, fault,              \* history: the fragment sent, and what became of it
  data,                     \* the words that arrived
  i,                        \* the loop's index, from 1
  nextFrameCounter,
  reading,                  \* the loop has not ended
  m_event_id, m_bc_id,      \* {value}, {} while missing
  m_crc,                    \* {content}, {} while missing
  uninitialised,            \* whether what m_crc holds while it is missing matches
  m_crc_calculated,
  m_trb_error_id, m_module_error_ids,
  m_frame_counter_invalid, m_unrecognized_frames,
  m_modDB                   \* from lines to their words

ids     == <<m_event_id, m_bc_id, m_crc>>
errors  == <<m_trb_error_id, m_module_error_ids>>
defects == <<m_frame_counter_invalid, m_unrecognized_frames>>
inputs  == <<sent, fault, data, uninitialised, m_crc_calculated>>
vars == <<inputs, i, nextFrameCounter, reading, ids, errors, defects, m_modDB>>

(* The words left when those at the positions in lost are gone. *)
Without(words, lost) ==
  FoldLeftDomain(LAMBDA left, k : IF k \in lost THEN left ELSE Append(left, words[k]),
                 <<>>, words)

(* What arrives of words. *)
Arrived(words, f) ==
  Without([k \in DOMAIN words |-> IF k \in DOMAIN f.changed
                                  THEN [words[k] EXCEPT !.content = f.changed[k]]
                                  ELSE words[k]], f.lost)

Lines == {w.line : w \in {v \in Range(data) : v.kind = "module"}}

Init ==
  /\ \E t \in Transmissions : sent = t.sent /\ fault = t.fault
  /\ data = Arrived(sent, fault)
  /\ m_crc_calculated = ReturnFletcherChecksum(Numbers(data))
  /\ i = 1 /\ nextFrameCounter = 15 /\ reading = TRUE
  /\ m_event_id = {} /\ m_bc_id = {} /\ m_crc = {}
  /\ uninitialised \in BOOLEAN
  /\ m_trb_error_id = {} /\ m_module_error_ids = <<>>
  /\ m_frame_counter_invalid = FALSE /\ m_unrecognized_frames = FALSE
  /\ m_modDB = [line \in Lines |-> <<>>]

(* The word at i does not carry the counter expected.  The first word may  *)
(* carry any, and TRB_END carries none.                                    *)
BehindOnly ==        \* Defect: < in place of !=.
  /\ i > 1
  /\ data[i].kind # "end"
  /\ data[i].counter < nextFrameCounter

OutOfOrder ==
  /\ i > 1
  /\ data[i].kind # "end"
  /\ data[i].counter # nextFrameCounter

FrameLost ==
  /\ reading /\ i <= Len(data) /\ OutOfOrder
  /\ m_frame_counter_invalid' = TRUE
  /\ reading' = FALSE
  /\ UNCHANGED <<inputs, i, nextFrameCounter, ids, errors, m_unrecognized_frames, m_modDB>>

(* A word of this kind, in order: the counter expected next is its         *)
(* successor.                                                              *)
NextCounterUnwrapped(counter) == counter + 1      \* Defect: the cycle is forgotten.
NextCounter(counter) == (counter + 1) % FrameCounterCycle

Word(kind) ==
  /\ reading /\ i <= Len(data) /\ ~OutOfOrder
  /\ data[i].kind = kind
  /\ nextFrameCounter' = NextCounter(data[i].counter)
  /\ UNCHANGED inputs

Continue == i' = i + 1 /\ UNCHANGED reading
Break    == reading' = FALSE /\ UNCHANGED i

EventId ==
  /\ Word("eventid") /\ m_event_id = {}
  /\ m_event_id' = {data[i].content}
  /\ Continue
  /\ UNCHANGED <<m_bc_id, m_crc, errors, defects, m_modDB>>

(* TRB_END *)
End == Word("end") /\ Break /\ UNCHANGED <<ids, errors, defects, m_modDB>>

(* What follows a checksum is ignored. *)
Crc ==
  /\ Word("crc")
  /\ m_crc' = {data[i].content}
  /\ Break
  /\ UNCHANGED <<m_event_id, m_bc_id, errors, defects, m_modDB>>

(* Any other header word, a second event id included. *)
Unrecognized ==
  /\ Word("header") \/ (Word("eventid") /\ m_event_id # {})
  /\ m_unrecognized_frames' = TRUE
  /\ Break
  /\ UNCHANGED <<ids, errors, m_frame_counter_invalid, m_modDB>>

(* A bunch crossing after the first is ignored. *)
BcidOf(value) == IF m_bc_id = {} THEN {value} ELSE m_bc_id

Bcid ==
  /\ Word("bcid")
  /\ m_bc_id' = BcidOf(data[i].content % FieldRange)
  /\ Continue
  /\ UNCHANGED <<m_event_id, m_crc, errors, defects, m_modDB>>

TrbError ==
  /\ Word("trberror")
  /\ m_trb_error_id' = {data[i].content}
  /\ Continue
  /\ UNCHANGED <<ids, m_module_error_ids, defects, m_modDB>>

ModuleError ==
  /\ Word("moduleerror")
  /\ m_module_error_ids' = Append(m_module_error_ids, data[i].content)
  /\ Continue
  /\ UNCHANGED <<ids, m_trb_error_id, defects, m_modDB>>

OtherData == Word("trbdata") /\ Continue /\ UNCHANGED <<ids, errors, defects, m_modDB>>

(* event.m_modDB[key].push_back(...) *)
Prepended(bits, words) == <<bits>> \o words      \* Defect: at the wrong end.
Pushed(bits, words) == Append(words, bits)

ModuleData ==
  /\ Word("module")
  /\ m_modDB' = [m_modDB EXCEPT ![data[i].line] = Pushed(data[i].content, @)]
  /\ Continue
  /\ UNCHANGED <<ids, errors, defects>>

AllRead ==
  /\ reading /\ i > Len(data)
  /\ reading' = FALSE
  /\ UNCHANGED <<inputs, i, nextFrameCounter, ids, errors, defects, m_modDB>>

Next ==
  \/ EventId \/ End \/ Crc \/ Unrecognized
  \/ Bcid \/ TrbError \/ ModuleError \/ OtherData
  \/ ModuleData
  \/ FrameLost \/ AllRead

Spec == Init /\ [][Next]_vars

(* What valid() asks of the checksum. *)
CrcMatches == IF m_crc = {} THEN uninitialised ELSE m_crc = {m_crc_calculated}

ValidUnlessMismatch ==      \* Defect: a missing checksum is not told from a matching one.
  /\ m_event_id # {} /\ m_bc_id # {} /\ CrcMatches
  /\ m_trb_error_id = {} /\ m_module_error_ids = <<>>
  /\ ~m_frame_counter_invalid /\ ~m_unrecognized_frames

valid ==
  /\ m_event_id # {} /\ m_bc_id # {}
  /\ m_crc # {} /\ CrcMatches
  /\ m_trb_error_id = {}
  /\ m_module_error_ids = <<>>
  /\ ~m_frame_counter_invalid
  /\ ~m_unrecognized_frames

-------------------------------------------------------------------------------
Constructed == ~reading

InOrder(words) ==
  \A k \in 2..Len(words) : words[k].counter = (words[k - 1].counter + 1) % FrameCounterCycle

KindsIn(words) == {w.kind : w \in Range(words)}

(* Words that make a good fragment, but for the checksum: one event id, a  *)
(* bunch crossing, no errors, and a checksum word, which is the last.      *)
Whole(words) ==
  /\ InOrder(words)
  /\ Cardinality({k \in DOMAIN words : words[k].kind = "eventid"}) = 1
  /\ "bcid" \in KindsIn(words)
  /\ KindsIn(words) \cap {"end", "header", "trberror", "moduleerror"} = {}
  /\ {k \in DOMAIN words : words[k].kind = "crc"} = {Len(words)}

(* The checksum as a sum: each word but the last counts once in one half,  *)
(* and in the other as often as words follow it.                           *)
Sum(numbers) == FoldLeft(LAMBDA sum, number : (sum + number) % WordModulus, 0, numbers)

ChecksumOf(words) ==
  LET numbers == Numbers(Front(words))
  IN  ComputeFletcherChecksum(
        Sum([k \in DOMAIN numbers |-> (Len(words) - k) * numbers[k]]), Sum(numbers))

(* A missing event id, bunch crossing or checksum is told from every       *)
(* value, and nothing is kept of a line that sent nothing.                 *)
TypeOK ==
  /\ i \in 1..(Len(data) + 1)
  /\ nextFrameCounter \in (0..(FrameCounterCycle - 1)) \cup {15}
  /\ nextFrameCounter = 15 => i = 1 /\ m_event_id = {} /\ m_bc_id = {} /\ m_crc = {}
  /\ Cardinality(m_event_id) <= 1 /\ Cardinality(m_bc_id) <= 1 /\ Cardinality(m_crc) <= 1
  /\ \A line \in DOMAIN m_modDB : Len(m_modDB[line]) < i

(* valid() accepts a fragment exactly if its words, up to one of them, are *)
(* a good fragment, and this word has the checksum of all words that       *)
(* arrived but the last, "ignored" words behind it included.  In           *)
(* particular it never looks at the checksum of a fragment that has none,  *)
(* which would be the value of an uninitialised member.                    *)
ValidIffWhole ==
  Constructed =>
    (valid <=> \E n \in 1..Len(data) :
                 Whole(SubSeq(data, 1, n)) /\ data[n].content = ChecksumOf(data))

(* However the checksum came out, a good fragment that lost fewer words    *)
(* than FRAME_COUNTER_CYCLE is not valid, wherever they were: what its     *)
(* frame counters do not show, because nothing follows, or because the     *)
(* counter of the first word is not checked, shows as a missing checksum   *)
(* or event id.                                                            *)
LossFound ==
  /\ Constructed /\ Whole(sent) /\ sent[1].kind = "eventid"
  /\ Cardinality(fault.lost) \in 1..(FrameCounterCycle - 1)
  /\ \A k \in DOMAIN fault.changed : sent[k].kind = "crc"
  => ~valid

(* A change of one word in its low bits, the checksum word included, is    *)
(* always found: the checksum of a good fragment says what was sent.       *)
ChangeFound ==
  /\ Constructed /\ Whole(sent) /\ Last(sent).content = ChecksumOf(sent)
  /\ fault.lost = {}
  /\ \E k \in DOMAIN sent : /\ DOMAIN fault.changed = {k}
                            /\ fault.changed[k] % FieldRange # sent[k].content % FieldRange
  => ~valid

(* What the words of a line say, in their order. *)
OfLine(line, words) ==
  FoldLeft(LAMBDA bits, w : IF w.kind = "module" /\ w.line = line
                            THEN Append(bits, w.content) ELSE bits, <<>>, words)

(* The words of a line reach its decoder in the order they were sent, none *)
(* added and, of those before the word the loop is at, which is the        *)
(* checksum of a valid fragment, none missing; the identity of a valid     *)
(* fragment is that of the first words that give one.                      *)
LinesInOrder ==
  LET value(kind) == data[Min({k \in DOMAIN data : data[k].kind = kind})].content
  IN  /\ \A line \in Lines : m_modDB[line] = OfLine(line, SubSeq(data, 1, i - 1))
      /\ Constructed /\ valid =>
           /\ data[i].kind = "crc"
           /\ m_event_id = {value("eventid")} /\ m_bc_id = {value("bcid") % FieldRange}

================================================================================
