----------------------------- MODULE EventBuilding -----------------------------
(***************************************************************************)
(* An EventFull object being filled, and the program that fills it         *)
(* (DAQFormats.hpp, class EventFull).  The program news fragments, sets    *)
(* their status and trigger bits, hands them to addFragment in any order,  *)
(* or'es flags into the event with updateStatus, and deletes the event.    *)
(*                                                                         *)
(* Fragments are heap objects: the event keeps pointers, and its           *)
(* destructor deletes what they point to.  So a fragment has an identity   *)
(* (a member of Objects), and "held" is the set of those the program still *)
(* regards as its own to change and to delete.                             *)
(***************************************************************************)
EXTENDS DAQFormats, FiniteSets

CONSTANTS
  Objects,          \* identities of fragment objects; an identity is reused once freed
  SourceIds,        \* source ids of fragments
  EventIds,         \* event ids of fragments
  BcIds,            \* bunch crossing ids of fragments
  Payloads,         \* detector payloads
  Statuses,         \* arguments of set_status and updateStatus
  TriggerBits,      \* arguments of set_trigger_bits
  MaxHeld,          \* bound: fragments the program prepares at a time
  KeepsRejected     \* what the program does with a fragment addFragment refuses:
                    \* TRUE: it keeps it; FALSE: it regards it as given away

ASSUME BuildingAssumption ==
  /\ SourceIds \subseteq Nat
  /\ EventIds \subseteq Nat
  /\ BcIds \subseteq BCIDs
  /\ \A p \in Payloads : p \in Seq(DataBytes)
  /\ \A s \in Statuses : s \subseteq StatusBits
  /\ \A t \in TriggerBits : t \subseteq StatusBits
  /\ MaxHeld \in Nat
  /\ KeepsRejected \in BOOLEAN

VARIABLES
  heap,         \* function from the objects allocated to the fragment each holds
  held,         \* the objects the program regards as its own
  header,       \* EventFull::header
  fragments,    \* EventFull::fragments, from source id to object
  first,        \* history: {the source added first}, {} if none yet
  flagged       \* history: every flag updateStatus was given

vars == <<heap, held, header, fragments, first, flagged>>

EmptyMap == [x \in {} |-> x]

Present == DOMAIN fragments
FragmentOf(s) == heap[fragments[s]]

Init ==
  /\ heap = EmptyMap
  /\ held = {}
  /\ header = NewEventHeader(0)
  /\ fragments = EmptyMap
  /\ first = {}
  /\ flagged = {}

(* new EventFragment(tag, source, event, bc, payload, size) *)
Create(o, source, event, bc, payload) ==
  /\ o \notin DOMAIN heap
  /\ Cardinality(held) < MaxHeld
  /\ heap' = [p \in DOMAIN heap \cup {o} |->
                IF p = o THEN NewFragment(source, event, bc, payload) ELSE heap[p]]
  /\ held' = held \cup {o}
  /\ UNCHANGED <<header, fragments, first, flagged>>

(* fragment->set_status(status): overwrites *)
SetStatus(o, status) ==
  /\ o \in held
  /\ heap' = [heap EXCEPT ![o].header.status = status]
  /\ UNCHANGED <<held, header, fragments, first, flagged>>

(* fragment->set_trigger_bits(bits): overwrites *)
SetTriggerBits(o, bits) ==
  /\ o \in held
  /\ heap' = [heap EXCEPT ![o].header.trigger_bits = bits]
  /\ UNCHANGED <<held, header, fragments, first, flagged>>

(* delete fragment, by the program *)
Delete(o) ==
  /\ o \in held
  /\ heap' = [p \in DOMAIN heap \ {o} |-> heap[p]]
  /\ held' = held \ {o}
  /\ UNCHANGED <<header, fragments, first, flagged>>

(* addFragment finds a fragment of the same source in the event. *)
NeverDuplicate(f) == FALSE            \* Defect: the test is missing.
IsDuplicate(f) == f.header.source_id \in Present

(* event.addFragment(fragment) *)
AddFragment(o) ==
  LET f == heap[o]
      s == f.header.source_id
  IN  /\ o \in held
      /\ ~IsDuplicate(f)
      /\ fragments' = [t \in Present \cup {s} |-> IF t = s THEN o ELSE fragments[t]]
      /\ header' = HeaderWithFragment(header, f)
      /\ held' = held \ {o}
      /\ first' = IF Present = {} THEN {s} ELSE first
      /\ UNCHANGED <<heap, flagged>>

(* event.addFragment(fragment) throws "Duplicate fragment addition!" *)
AddDuplicate(o) ==
  /\ o \in held
  /\ IsDuplicate(heap[o])
  /\ held' = IF KeepsRejected THEN held ELSE held \ {o}
  /\ UNCHANGED <<heap, header, fragments, first, flagged>>

(* Defect: = in place of |=. *)
UpdateStatusAssigning(flags) ==
  /\ header' = [header EXCEPT !.status = flags]
  /\ flagged' = flagged \cup flags
  /\ UNCHANGED <<heap, held, fragments, first>>

(* event.updateStatus(flags) *)
UpdateStatus(flags) ==
  /\ header' = [header EXCEPT !.status = @ \cup flags]
  /\ flagged' = flagged \cup flags
  /\ UNCHANGED <<heap, held, fragments, first>>

(* What the destructor deletes. *)
NothingDeleted == {}                  \* Defect: the destructor is missing.
AllDeleted == DOMAIN heap             \* Defect: it deletes the program's, too.
Deleted == {fragments[s] : s \in Present}

(* ~EventFull, and a new event in its place *)
Renew ==
  /\ heap' = [o \in DOMAIN heap \ Deleted |-> heap[o]]
  /\ header' = NewEventHeader(0)
  /\ fragments' = EmptyMap
  /\ first' = {}
  /\ flagged' = {}
  /\ UNCHANGED held

Next ==
  \/ \E o \in Objects, s \in SourceIds, e \in EventIds, b \in BcIds, p \in Payloads :
       Create(o, s, e, b, p)
  \/ \E o \in Objects, st \in Statuses : SetStatus(o, st)
  \/ \E o \in Objects, t \in TriggerBits : SetTriggerBits(o, t)
  \/ \E o \in Objects : Delete(o) \/ AddFragment(o) \/ AddDuplicate(o)
  \/ \E st \in Statuses : UpdateStatus(st)
  \/ Renew

Spec == Init /\ [][Next]_vars

-------------------------------------------------------------------------------
FragmentHeaders ==
  [marker : {FragmentMarker}, version_number : {FragmentVersionLatest},
   header_size : {FragmentHeaderSize}, payload_size : 0..(SizeModulus - 1),
   source_id : SourceIds,
   event_id : EventIds, bc_id : BcIds, status : SUBSET StatusBits,
   trigger_bits : SUBSET StatusBits]

EventHeaders ==
  [marker : {EventMarker}, version_number : {EventVersionLatest},
   header_size : {EventHeaderSize}, payload_size : 0..(SizeModulus - 1),
   fragment_count : 0..(CountModulus - 1), event_id : Nat, event_counter : Nat,
   bc_id : BCIDs, status : SUBSET StatusBits, trigger_bits : SUBSET StatusBits]

(* The objects allocated hold fragments of this build's format, the program *)
(* and the event point only to allocated objects, and each fragment is      *)
(* filed under its own source id.                                           *)
TypeOK ==
  /\ DOMAIN heap \subseteq Objects
  /\ heap \in [DOMAIN heap -> [header : FragmentHeaders, payload : Payloads]]
  /\ held \subseteq DOMAIN heap
  /\ header \in EventHeaders
  /\ Present \subseteq SourceIds
  /\ fragments \in [Present -> DOMAIN heap]
  /\ \A s \in Present : FragmentOf(s).header.source_id = s
  /\ first \subseteq Present
  /\ flagged \subseteq StatusBits

(* No wrap of fragment_count has happened: the next addition may be the one *)
(* that wraps it.                                                           *)
CountExact == Cardinality(Present) <= CountModulus

(* Two fragments of the event have different bunch crossing ids. *)
Disagree ==
  \E s, t \in Present : FragmentOf(s).header.bc_id # FragmentOf(t).header.bc_id

(* BCIDMismatch is in the status of the event exactly when two of its      *)
(* fragments disagree on the bunch crossing, whatever order they were      *)
(* added in, or a fragment or updateStatus brought the flag along: each    *)
(* addition compares with a bc_id that the trigger fragment may have       *)
(* replaced meanwhile (addFragment).                                       *)
MismatchIffDisagree ==
  CountExact =>
    (BCIDMismatch \in header.status <=>
       \/ Disagree
       \/ BCIDMismatch \in flagged
       \/ \E s \in Present : BCIDMismatch \in FragmentOf(s).header.status)

(* The bc_id of the event is the trigger fragment's when there is one,     *)
(* before or after the others, else the first fragment's; the event id is  *)
(* always the first fragment's.                                            *)
IdentityFromFragments ==
  CountExact =>
    /\ TriggerSourceID \in Present =>
         header.bc_id = FragmentOf(TriggerSourceID).header.bc_id
    /\ \A s \in first :
         /\ TriggerSourceID \notin Present => header.bc_id = FragmentOf(s).header.bc_id
         /\ header.event_id = FragmentOf(s).header.event_id
    /\ Present = {} <=> first = {}
    /\ Present = {} => header.bc_id = NoBCID

(* No error flag is lost and none is invented: the status is what the      *)
(* fragments and updateStatus brought, and at most BCIDMismatch besides.   *)
StatusAccounted ==
  LET brought == flagged \cup UNION {FragmentOf(s).header.status : s \in Present}
  IN  /\ brought \subseteq header.status
      /\ header.status \subseteq brought \cup {BCIDMismatch}

(* The event without its identities. *)
Event == [header |-> header, fragments |-> [s \in Present |-> FragmentOf(s)]]

(* The size the event announces is the length of what raw() returns, so    *)
(* that a caller who writes size() bytes of raw() writes the event; this   *)
(* holds even after fragment_count has wrapped.  From SizeModulus bytes on *)
(* it is that length modulo SizeModulus, however often the sums wrapped.   *)
SizeIsRawLength == EventSize(Event) = Len(RawEvent(Event)) % SizeModulus

(* What raw() returns, either constructor reads back as the same event,    *)
(* unless fragment_count or the size has wrapped or, for the file, the     *)
(* payload is over the limit of the reader, which the writer does not      *)
(* know: such an event the file's constructor refuses.                     *)
RoundTrip ==
  LET raw == RawEvent(Event)
  IN  Cardinality(Present) < CountModulus /\ Len(raw) < SizeModulus =>
        /\ EventsOfBytes(raw) = {Event}
        /\ IF header.payload_size <= MaxFilePayload
           THEN EventsOfStream(raw) = {Event} /\ StreamRest(raw) = <<>>
           ELSE EventsOfStream(raw) = {}

(* Every allocated fragment has exactly one owner that will delete it: the *)
(* program holds it, or the event has it, once (a fragment that            *)
(* addFragment refuses is not the event's).  Without an owner it leaks,    *)
(* with two it is deleted twice.                                           *)
OneOwner ==
  /\ DOMAIN heap = held \cup {fragments[s] : s \in Present}
  /\ \A s \in Present : fragments[s] \notin held
  /\ \A s, t \in Present : s # t => fragments[s] # fragments[t]

(* status() reports every flag that is set in the event, among them        *)
(* ErrorFragment, by which the event builder marks data it could not       *)
(* decode.                                                                 *)
StatusReported == EventStatusGetter(header) = header.status

(* A step that keeps the event alive neither drops nor replaces a fragment *)
(* of it, nor changes one after it was added (what the event's header      *)
(* summarises stays true), nor clears a flag.                              *)
OnlyGrows ==
  [][\/ fragments' = EmptyMap
     \/ /\ \A s \in Present : s \in Present' /\ FragmentOf(s)' = FragmentOf(s)
        /\ header.status \subseteq header'.status
        /\ header.trigger_bits \subseteq header'.trigger_bits]_vars

(* The event implements EventContents: what its header says after any      *)
(* sequence of additions is the summary of the fragments in it computed    *)
(* from scratch, so the order of arrival matters only through which came   *)
(* first.                                                                  *)
View(f) ==
  [event_id     |-> f.header.event_id,
   bc_id        |-> f.header.bc_id,
   status       |-> f.header.status,
   trigger_bits |-> f.header.trigger_bits,
   size         |-> FragmentHeaderSize + Len(f.payload)]

Views ==
  [event_id : EventIds, bc_id : BcIds, status : Statuses \cup {{}},
   trigger_bits : TriggerBits \cup {{}},
   size : {FragmentHeaderSize + Len(p) : p \in Payloads}]

Contents == INSTANCE EventContents
  WITH Fragments <- Views,
       Flags     <- Statuses,
       Trigger   <- TriggerSourceID,
       Mismatch  <- BCIDMismatch,
       contents  <- [s \in Present |-> View(FragmentOf(s))],
       summary   <- [event_id       |-> header.event_id,
                     bc_id          |-> header.bc_id,
                     status         |-> header.status,
                     trigger_bits   |-> header.trigger_bits,
                     fragment_count |-> header.fragment_count,
                     payload_size   |-> header.payload_size]

ImplementsContents == Contents!Spec

===============================================================================
