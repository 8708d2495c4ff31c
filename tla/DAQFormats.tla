------------------------------ MODULE DAQFormats ------------------------------
(***************************************************************************)
(* The two containers of EventFormats/DAQFormats.hpp as values: a fragment *)
(* (EventFragment) is a header and its payload, an event (EventFull) is a  *)
(* header and a map from source id to fragment.  The module has no         *)
(* behaviour of its own; EventBuilding and EventFilter are the state       *)
(* machines built from it.                                                 *)
(*                                                                         *)
(* Bytes.  A byte string is a sequence of cells, one per byte.  The first  *)
(* cell of a packed header carries the header record, the other bytes of   *)
(* that header are tail cells, and every other byte is a data cell with an *)
(* opaque value.  So lengths, offsets and truncation are those of the      *)
(* code, and what a payload byte is plays no part, except that it is not   *)
(* taken for the marker of a header.                                       *)
(*                                                                         *)
(* Bit fields (status, trigger bits) are sets of bit numbers: | is \cup,   *)
(* & is \cap.  Timestamps, tags and the run number are copied and never    *)
(* looked at by the code modelled here, and are left out.                  *)
(***************************************************************************)
EXTENDS Integers, Sequences, SequencesExt, FiniteSets

CONSTANTS
  EventHeaderSize,      \* sizeof(EventHeader), 44 in the build
  FragmentHeaderSize,   \* sizeof(EventFragmentHeader), 36 in the build
  MinFragmentSize,      \* what EventFragment demands before it looks, 8
  MaxFilePayload,       \* largest payload the file constructor reads, 10^6
  CountModulus,         \* 2^8: fragment_count is a uint8_t
  HeaderSizeModulus,    \* 2^16: header_size is a uint16_t
  SizeModulus           \* 2^32: payload_size is a uint32_t, and so is what size() returns

ASSUME SizesAssumption ==
  /\ CountModulus \in Nat \ {0, 1}
  /\ HeaderSizeModulus \in Nat /\ SizeModulus \in Nat
  /\ EventHeaderSize \in 1..(HeaderSizeModulus - 1)
  /\ FragmentHeaderSize \in 1..(HeaderSizeModulus - 1)
  /\ MinFragmentSize \in 1..FragmentHeaderSize
  /\ MaxFilePayload \in Nat
  /\ HeaderSizeModulus + MaxFilePayload <= SizeModulus

FragmentMarker == 170          \* 0xAA
EventMarker    == 187          \* 0xBB
FragmentVersionLatest == 1
EventVersionLatest    == 1

TriggerSourceID == 131072      \* 0x020000
TrackerSourceID == 196608      \* 0x030000
PMTSourceID     == 262144      \* 0x040000
BOBRSourceID    == 327680      \* 0x050000

(* The bit numbers of enum EventStatus. *)
UnclassifiedError == 0
BCIDMismatch      == 1
MissingFragment   == 7
EmptyFragment     == 8
DuplicateFragment == 9
ErrorFragment     == 10
StatusBits        == 0..15     \* status and trigger_bits are a uint16_t

NoBCID == 256 * 256 - 1        \* 0xFFFF, the bc_id of an event without fragments
BCIDs  == 0..NoBCID            \* bc_id is a uint16_t

-------------------------------------------------------------------------------
(* Fragments. *)

(* The constructor that wraps a detector payload. *)
NewFragment(source_id, event_id, bc_id, payload) ==
  [header |-> [marker         |-> FragmentMarker,
               version_number |-> FragmentVersionLatest,
               header_size    |-> FragmentHeaderSize,
               payload_size   |-> Len(payload) % SizeModulus,
               source_id      |-> source_id,
               event_id       |-> event_id,
               bc_id          |-> bc_id,
               status         |-> {},
               trigger_bits   |-> {}],
   payload |-> payload]

(* Defect: the size of a fragment without its header. *)
FragmentSizeNoHeader(f) == f.header.payload_size

(* size(), in 32 bits *)
FragmentSize(f) == (f.header.header_size + f.header.payload_size) % SizeModulus

TailByte == [kind |-> "tail"]
DataBytes == [kind : {"data"}, value : Nat]

(* Defect: the struct is not packed. *)
HeaderBytesPadded(header, size) ==
  <<[kind |-> "header", header |-> header]>> \o [i \in 1..size |-> TailByte]

(* A packed header as it lies in memory: sizeof(header) bytes. *)
HeaderBytes(header, size) ==
  <<[kind |-> "header", header |-> header]>> \o [i \in 1..(size - 1) |-> TailByte]

(* A header cast onto these bytes has the given marker and version. *)
HeaderIs(bytes, marker, version) ==
  /\ Head(bytes).kind = "header"
  /\ Head(bytes).header.marker = marker
  /\ Head(bytes).header.version_number = version

RawFragment(f) == HeaderBytes(f.header, FragmentHeaderSize) \o f.payload

(* The checks of the constructor that decodes: what passes none of them    *)
(* ends in an EFormatException.  Their sum of the two sizes wraps.         *)
FragmentAccepted(bytes, allowExcessData) ==
  /\ Len(bytes) >= MinFragmentSize
  /\ HeaderIs(bytes, FragmentMarker, FragmentVersionLatest)
  /\ LET h    == Head(bytes).header
         size == (h.header_size + h.payload_size) % SizeModulus
     IN  /\ Len(bytes) >= h.header_size
         /\ Len(bytes) >= size
         /\ allowExcessData \/ Len(bytes) = size

(* The payload is copied from the addresses data + header_size up to       *)
(* data + header_size + payload_size, which do not wrap.                   *)
PayloadInside(bytes) ==
  Head(bytes).header.header_size + Head(bytes).header.payload_size <= Len(bytes)

(* A fragment is decoded; or one is accepted whose payload goes on almost  *)
(* 2^32 bytes behind the buffer, and the program ends in copying it.       *)
FragmentDecodes(bytes, allowExcessData) ==
  FragmentAccepted(bytes, allowExcessData) /\ PayloadInside(bytes)

FragmentOverruns(bytes, allowExcessData) ==
  FragmentAccepted(bytes, allowExcessData) /\ ~PayloadInside(bytes)

DecodedFragment(bytes) ==
  LET h == Head(bytes).header
  IN  [header  |-> h,
       payload |-> SubSeq(bytes, h.header_size + 1, h.header_size + h.payload_size)]

-------------------------------------------------------------------------------
(* Events. *)

NewEventHeader(event_counter) ==
  [marker         |-> EventMarker,
   version_number |-> EventVersionLatest,
   header_size    |-> EventHeaderSize,
   payload_size   |-> 0,
   fragment_count |-> 0,
   event_id       |-> 0,
   event_counter  |-> event_counter,
   bc_id          |-> NoBCID,
   status         |-> {},
   trigger_bits   |-> {}]

AlwaysFirst(h) == TRUE     \* Defect: the test of fragment_count is missing.

IsFirst(h) == h.fragment_count = 0

(* Defect: the trigger fragment has overridden bc_id before the comparison. *)
AddStatusAfterOverride(h, f) ==
  IF /\ ~IsFirst(h) /\ h.bc_id # f.header.bc_id
     /\ f.header.source_id # TriggerSourceID
  THEN {BCIDMismatch} ELSE {}

(* What addFragment returns.  The comparison comes after a first fragment  *)
(* has set bc_id and before the trigger fragment overrides it.             *)
AddStatus(h, f) ==
  IF ~IsFirst(h) /\ h.bc_id # f.header.bc_id THEN {BCIDMismatch} ELSE {}

(* addFragment's effect on the header. *)
HeaderWithFragment(h, f) ==
  [h EXCEPT
     !.fragment_count = (@ + 1) % CountModulus,
     !.payload_size   = (@ + FragmentSize(f)) % SizeModulus,
     !.trigger_bits   = @ \cup f.header.trigger_bits,
     !.event_id       = IF IsFirst(h) THEN f.header.event_id ELSE @,
     !.bc_id          = IF IsFirst(h) \/ f.header.source_id = TriggerSourceID
                        THEN f.header.bc_id ELSE @,
     !.status         = @ \cup f.header.status \cup AddStatus(h, f)]

EventSize(e) == (e.header.header_size + e.header.payload_size) % SizeModulus

(* status() returns a uint8_t: the low eight bits. *)
EventStatusGetter(header) == {b \in header.status : b < 8}

(* The order of the map's keys. *)
KeyOrderReversed(s, t) == s > t     \* Defect: descending.
KeyOrder(s, t) == s < t

KeysInOrder(S) ==
  CHOOSE ids \in [1..Cardinality(S) -> S] :
    \A i, j \in 1..Cardinality(S) : i < j => KeyOrder(ids[i], ids[j])

(* raw(): the header, then every fragment in the order of the map's keys.  *)
RawEvent(e) ==
  LET ids == KeysInOrder(DOMAIN e.fragments)
  IN  HeaderBytes(e.header, EventHeaderSize)
        \o FlattenSeq([i \in DOMAIN ids |-> RawFragment(e.fragments[ids[i]])])

-------------------------------------------------------------------------------
(* Loading.  The loop over fragment_count is common to both constructors.  *)

(* What the loop has after all its rounds: the fragments decoded, in       *)
(* order, and the bytes left.  The set is empty when one of them did not   *)
(* decode and that ended the loop.                                         *)
AfterFragment(state) ==
  LET f == DecodedFragment(state.left)
  IN  [decoded |-> Append(state.decoded, f),
       left    |-> SubSeq(state.left, FragmentSize(f) + 1, Len(state.left))]

LoadLoop(bytes, count) ==
  LET round[n \in 0..count] ==
        IF n = 0 THEN {[decoded |-> <<>>, left |-> bytes]}
        ELSE {AfterFragment(state) :
                state \in {s \in round[n - 1] : FragmentDecodes(s.left, TRUE)}}
  IN  round[count]

(* The loop comes to a fragment whose payload is not in the buffer. *)
LoadOverruns(bytes, count) ==
  \E n \in 0..(count - 1) : \E s \in LoadLoop(bytes, n) : FragmentOverruns(s.left, TRUE)

(* fragments[source_id()] = fragment: a later fragment of the same source  *)
(* takes the place of an earlier one.                                      *)
FragmentMap(decoded) ==
  LET source(i) == decoded[i].header.source_id
  IN  [s \in {source(i) : i \in DOMAIN decoded} |->
         decoded[Max({i \in DOMAIN decoded : source(i) = s})]]

(* The events with this header and this payload: one, or none when the     *)
(* loop fails.                                                             *)
LoadedEvents(header, payload) ==
  {[header |-> header, fragments |-> FragmentMap(l.decoded)] :
     l \in LoadLoop(payload, header.fragment_count)}

(* EventFull(data, size): loadHeader, then loadPayload, which insists that *)
(* exactly payload_size bytes follow the header_size bytes of the header,  *)
(* by a difference of 32 bits; a header_size larger than the data is not   *)
(* looked for.  The event constructed, or none.                            *)
EventsOfBytes(bytes) ==
  IF /\ Len(bytes) >= EventHeaderSize
     /\ HeaderIs(bytes, EventMarker, EventVersionLatest)
     /\ (Len(bytes) - Head(bytes).header.header_size) % SizeModulus
           = Head(bytes).header.payload_size
  THEN LET h == Head(bytes).header
       IN  LoadedEvents(h, SubSeq(bytes, h.header_size + 1, h.header_size + h.payload_size))
  ELSE {}

(* EventFull(ifstream): reads sizeof(EventHeader) bytes, then payload_size *)
(* bytes; a short read is an exception, what follows stays in the stream.  *)
StreamPayload(bytes) ==
  SubSeq(bytes, EventHeaderSize + 1, EventHeaderSize + Head(bytes).header.payload_size)

StreamRest(bytes) ==
  SubSeq(bytes, EventHeaderSize + Head(bytes).header.payload_size + 1, Len(bytes))

PayloadRead(bytes) ==
  /\ Len(bytes) >= EventHeaderSize
  /\ HeaderIs(bytes, EventMarker, EventVersionLatest)
  /\ Head(bytes).header.payload_size <= MaxFilePayload
  /\ Len(bytes) >= EventHeaderSize + Head(bytes).header.payload_size

EventsOfStream(bytes) ==
  IF PayloadRead(bytes) THEN LoadedEvents(Head(bytes).header, StreamPayload(bytes)) ELSE {}

StreamOverruns(bytes) ==
  PayloadRead(bytes) /\ LoadOverruns(StreamPayload(bytes), Head(bytes).header.fragment_count)

===============================================================================
