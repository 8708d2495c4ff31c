----------------------------- MODULE MCEventFilter -----------------------------
(***************************************************************************)
(* Instances of EventFilter for TLC.  The intact files hold events filled  *)
(* as EventFull::addFragment fills them; the others are such files cut     *)
(* short, or with one header field or the order of fragments changed.      *)
(***************************************************************************)
EXTENDS EventFilter, TLC

AByte == [kind |-> "data", value |-> 7]

Fragment(source, trigger, payload) ==
  [NewFragment(source, 5, 10, payload) EXCEPT !.header.trigger_bits = trigger]

(* An event after the fragments of fs were added to it in that order. *)
Built(counter, fs) ==
  [header    |-> FoldLeft(HeaderWithFragment, NewEventHeader(counter), fs),
   fragments |-> FragmentMap(fs)]

Calo    == Fragment(PMTSourceID, {}, <<AByte>>)
Tracker == Fragment(TrackerSourceID, {}, <<>>)

EventOne   == Built(1, <<Tracker, Fragment(TriggerSourceID, {0}, <<>>)>>)
EventTwo   == Built(2, <<Fragment(TriggerSourceID, {1}, <<AByte>>)>>)
EventThree == Built(3, <<Calo>>)

FileOf(events) == FlattenSeq([i \in DOMAIN events |-> RawEvent(events[i])])

SomeEvents == {EventOne, EventTwo, EventThree}
IntactFiles ==
  {<<>>} \cup {FileOf(s) : s \in UNION {[1..n -> SomeEvents] : n \in 1..3}}

(* A file of two events that ends too early, by any number of bytes. *)
CutFiles ==
  UNION {{SubSeq(f, 1, n) : n \in 1..(Len(f) - 1)} :
           f \in {FileOf(<<EventOne, EventThree>>), FileOf(<<EventTwo, EventOne>>)}}

(* One field of the header in front changed. *)
WithHeader(bytes, header) == <<[Head(bytes) EXCEPT !.header = header]>> \o Tail(bytes)

EventDamage(h) ==
  {[h EXCEPT !.marker = 0], [h EXCEPT !.version_number = @ + 1],
   [h EXCEPT !.header_size = @ + 1], [h EXCEPT !.payload_size = @ + 1],
   [h EXCEPT !.payload_size = @ - 1], [h EXCEPT !.payload_size = MaxFilePayload + 1],
   [h EXCEPT !.payload_size = SizeModulus - 1],
   [h EXCEPT !.fragment_count = @ + 1], [h EXCEPT !.fragment_count = @ - 1]}

(* Sizes whose sum wraps to something small, and the largest that do not.  *)
NearModulus(h) ==
  {[h EXCEPT !.payload_size = SizeModulus - 1],
   [h EXCEPT !.payload_size = SizeModulus - h.header_size],
   [h EXCEPT !.payload_size = SizeModulus - h.header_size - 1],
   [h EXCEPT !.header_size = HeaderSizeModulus - 1,
             !.payload_size = SizeModulus - (HeaderSizeModulus - 1)]}

FragmentDamage(h) ==
  {[h EXCEPT !.marker = 0], [h EXCEPT !.version_number = @ + 1],
   [h EXCEPT !.header_size = @ + 1], [h EXCEPT !.payload_size = @ + 1],
   [h EXCEPT !.payload_size = 0]}
    \cup NearModulus(h)

DamagedEvents ==
  UNION {{WithHeader(RawEvent(e), h) : h \in EventDamage(e.header)} : e \in SomeEvents}
    \cup UNION {{SubSeq(RawEvent(e), 1, EventHeaderSize)
                   \o WithHeader(SubSeq(RawEvent(e), EventHeaderSize + 1, Len(RawEvent(e))), h)
                     : h \in FragmentDamage(e.fragments[s].header)}
                 : <<e, s>> \in {<<EventOne, TriggerSourceID>>, <<EventTwo, TriggerSourceID>>,
                                <<EventThree, PMTSourceID>>}}
    \cup {HeaderBytes(Built(1, fs).header, EventHeaderSize)
             \o FlattenSeq([i \in DOMAIN fs |-> RawFragment(fs[i])])
             : fs \in {<<Calo, Tracker>>, <<Calo, Calo>>, <<Tracker, Calo, Tracker>>,
                       <<Tracker, Calo>>}}

DamagedFiles == {d \o RawEvent(e) : d \in DamagedEvents, e \in SomeEvents}
                  \cup {RawEvent(e) \o d : d \in DamagedEvents, e \in SomeEvents}

Ranges == {<<>>, <<<<2, 2>>>>, <<<<1, 1>>, <<3, 3>>>>, <<<<2, 3>>>>}

CommandLines ==
  [ranges : Ranges, mask : {{}, {0}, {1, 2}}, nEventsMax : {0, 1, 2}, append : BOOLEAN]

CopyAll == [ranges |-> <<>>, mask |-> {}, nEventsMax |-> 0, append |-> FALSE]

(* Undamaged files with every command line and an output that may be there *)
(* already, and damaged ones copied.                                       *)
AnyRun ==
  [in : IntactFiles \cup CutFiles, out : {<<>>, RawEvent(EventThree)}, options : CommandLines]
    \cup [in : DamagedFiles, out : {<<>>}, options : {CopyAll}]

(* -e 3-2, a range from high to low *)
BackwardRange ==
  [in : IntactFiles, out : {<<>>}, options : {[CopyAll EXCEPT !.ranges = <<<<3, 2>>>>]}]
===============================================================================
