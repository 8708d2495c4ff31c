------------------------------ MODULE EventFilter ------------------------------
(***************************************************************************)
(* The program EventFormats/apps/eventFilter.cxx: it reads events from the *)
(* input file one at a time and writes the selected ones to the output     *)
(* file.  The files are byte strings (DAQFormats).                         *)
(***************************************************************************)
EXTENDS DAQFormats, FiniteSets

CONSTANTS
  Invocations  \* [in : bytes of the input file, out : bytes of the output file before,
               \*  options : [ranges (-e), mask (-t), nEventsMax (-n), append (-a)]]

(* What may lie in a file: data, and headers of either kind whose fields    *)
(* say anything their types admit, the marker of the other kind excepted.  *)
AnyFragmentHeader ==
  [marker : Nat \ {EventMarker}, version_number : Nat,
   header_size : 0..(HeaderSizeModulus - 1), payload_size : 0..(SizeModulus - 1),
   source_id : Nat, event_id : Nat, bc_id : BCIDs, status : SUBSET StatusBits,
   trigger_bits : SUBSET StatusBits]

AnyEventHeader ==
  [marker : Nat \ {FragmentMarker}, version_number : Nat,
   header_size : 0..(HeaderSizeModulus - 1), payload_size : 0..(SizeModulus - 1),
   fragment_count : 0..(CountModulus - 1), event_id : Nat,
   event_counter : Nat, bc_id : BCIDs, status : SUBSET StatusBits,
   trigger_bits : SUBSET StatusBits]

FileBytes ==
  [kind : {"header"}, header : AnyFragmentHeader \cup AnyEventHeader]
    \cup {TailByte} \cup DataBytes

CommandLine ==
  [ranges : Seq(Int \X Int), mask : SUBSET StatusBits, nEventsMax : Int, append : BOOLEAN]

ASSUME InvocationsAssumption ==
  \A run \in Invocations :
    run.in \in Seq(FileBytes) /\ run.out \in Seq(FileBytes) /\ run.options \in CommandLine

VARIABLES
  options,         \* the command line
  in,              \* what is left to read of the input file
  out,             \* the output file with what was handed to its stream
  event,           \* the event read, as {event} while it is alive
  taken,           \* history: the bytes it was read from
  nEventsWritten,
  copied,          \* history: the events the output should have
  exact,           \* history: all of them were laid out in the input as raw() does
  pc               \* "open", "read", "select"; "done" (returns 0), "failed" (returns 1),
                   \* "crashed" (ended by a signal or an exception nobody catches)

history == <<copied, exact>>
vars == <<options, in, out, event, taken, nEventsWritten, history, pc>>

(* The list -e builds: single numbers and ranges, a range from high to low *)
(* contributes nothing.                                                    *)
EventList == UNION {(options.ranges[i][1])..(options.ranges[i][2]) :
                      i \in DOMAIN options.ranges}

(* The two tests that skip an event; an empty list and a zero mask are no  *)
(* restriction.                                                            *)
InEventList(e) == EventList = {} \/ e.header.event_counter \in EventList
PassesMask(e)  == options.mask = {} \/ e.header.trigger_bits \cap options.mask # {}

Selected(e) == InEventList(e) /\ PassesMask(e)

(* What out.write takes from raw(): size() bytes, those past its end being *)
(* whatever lies behind the vector.                                        *)
Beyond == [kind |-> "beyond"]

(* Defect: the length of the payload, without the header. *)
WrittenBytesPayloadOnly(e) == SubSeq(RawEvent(e), 1, e.header.payload_size)

WrittenBytes(e) ==
  LET raw == RawEvent(e)
  IN  [i \in 1..EventSize(e) |-> IF i <= Len(raw) THEN raw[i] ELSE Beyond]

(* A reader's view of a file: the events it gets before the end or the     *)
(* first thing it cannot decode, and what is left then.                    *)
AfterEvent(state) ==
  IF EventsOfStream(state.left) = {} THEN state
  ELSE [events |-> state.events \o SetToSeq(EventsOfStream(state.left)),
        left   |-> StreamRest(state.left)]

Reading(bytes) ==
  LET round[n \in 0..Len(bytes)] ==
        IF n = 0 THEN {[events |-> <<>>, left |-> bytes]}
        ELSE {AfterEvent(state) : state \in round[n - 1]}
  IN  CHOOSE state \in round[Len(bytes) \div EventHeaderSize] : TRUE

(* The bytes of e are as raw() lays them out: headers of this build's      *)
(* size, fragments in ascending order of source id, none twice, and        *)
(* nothing behind the last one counted.                                    *)
LaidOutAsRaw(e, bytes) ==
  \E loaded \in LoadLoop(StreamPayload(bytes), e.header.fragment_count) :
    LET d == loaded.decoded
    IN  /\ e.header.header_size = EventHeaderSize
        /\ \A i \in DOMAIN d : d[i].header.header_size = FragmentHeaderSize
        /\ \A i, j \in DOMAIN d :
             i < j => d[i].header.source_id < d[j].header.source_id
        /\ loaded.left = <<>>

Init ==
  /\ \E run \in Invocations : options = run.options /\ in = run.in /\ out = run.out
  /\ copied = Reading(out).events /\ exact = TRUE
  /\ event = {}
  /\ taken = <<>>
  /\ nEventsWritten = 0
  /\ pc = "open"

(* Both files open; without -a the output is truncated. *)
Open ==
  /\ pc = "open"
  /\ out' = IF options.append THEN out ELSE <<>>
  /\ copied' = IF options.append THEN copied ELSE <<>>
  /\ pc' = "read"
  /\ UNCHANGED <<options, in, event, taken, nEventsWritten, exact>>

(* One of the files does not open, before anything was truncated. *)
OpenFails ==
  /\ pc = "open"
  /\ pc' = "failed"
  /\ UNCHANGED <<options, in, out, event, taken, nEventsWritten, history>>

(* EventFull event(in) *)
ReadEvent ==
  /\ pc = "read"
  /\ in # <<>>
  /\ event' = EventsOfStream(in)
  /\ event' # {}
  /\ in' = StreamRest(in)
  /\ taken' = SubSeq(in, 1, Len(in) - Len(in'))
  /\ pc' = "select"
  /\ UNCHANGED <<options, out, nEventsWritten, history>>

(* Defect: the handler reports the exception and does not return. *)
ReadFailsGoesOn ==
  /\ pc = "read"
  /\ in # <<>>
  /\ EventsOfStream(in) = {} /\ ~StreamOverruns(in)
  /\ UNCHANGED vars

(* EventFull event(in) throws EFormatException. *)
ReadFails ==
  /\ pc = "read"
  /\ in # <<>>
  /\ EventsOfStream(in) = {} /\ ~StreamOverruns(in)
  /\ pc' = "failed"
  /\ UNCHANGED <<options, in, out, event, taken, nEventsWritten, history>>

(* EventFull event(in) copies the payload of a fragment, almost 2^32       *)
(* bytes, from a buffer of at most MaxFilePayload: it runs into memory     *)
(* that is not there, or the copy gets none, and the handler catches       *)
(* neither.                                                                *)
ReadOverruns ==
  /\ pc = "read"
  /\ in # <<>>
  /\ EventsOfStream(in) = {} /\ StreamOverruns(in)
  /\ pc' = "crashed"
  /\ UNCHANGED <<options, in, out, event, taken, nEventsWritten, history>>

EndOfFile ==
  /\ pc = "read"
  /\ in = <<>>
  /\ pc' = "done"
  /\ UNCHANGED <<options, in, out, event, taken, nEventsWritten, history>>

(* Defect: the event outlives its round of the loop. *)
SkipEventKeeping ==
  /\ pc = "select"
  /\ \A e \in event : ~Selected(e)
  /\ pc' = "read"
  /\ UNCHANGED <<options, in, out, event, taken, nEventsWritten, history>>

SkipEvent ==
  /\ pc = "select"
  /\ \A e \in event : ~Selected(e)
  /\ event' = {}
  /\ pc' = "read"
  /\ UNCHANGED <<options, in, out, taken, nEventsWritten, history>>

(* -n was given and as many events are written. *)
LimitPassed(n)  == options.nEventsMax > 0 /\ n > options.nEventsMax    \* Defect: one late.
LimitReached(n) == options.nEventsMax > 0 /\ n >= options.nEventsMax

WriteEvent ==
  /\ pc = "select"
  /\ \E e \in event : /\ Selected(e)
                      /\ out' = out \o WrittenBytes(e)
                      /\ copied' = Append(copied, e)
                      /\ exact' = (exact /\ LaidOutAsRaw(e, taken))
  /\ event' = {}
  /\ nEventsWritten' = nEventsWritten + 1
  /\ pc' = IF LimitReached(nEventsWritten') THEN "done" ELSE "read"
  /\ UNCHANGED <<options, in, taken>>

Next ==
  \/ Open \/ OpenFails
  \/ ReadEvent \/ ReadFails \/ ReadOverruns \/ EndOfFile
  \/ SkipEvent \/ WriteEvent

(* The program is sequential and waits for nobody, so it goes on while it  *)
(* can.                                                                    *)
Spec == Init /\ [][Next]_vars /\ WF_vars(Next)

-------------------------------------------------------------------------------
Terminated == pc \in {"done", "failed", "crashed"}

(* The control state fits the data: there is an event exactly between its  *)
(* reading and its selection, and the output is a string of bytes.         *)
TypeOK ==
  /\ \E run \in Invocations : options = run.options
  /\ pc \in {"open", "read", "select", "done", "failed", "crashed"}
  /\ nEventsWritten \in Nat
  /\ Cardinality(event) = IF pc = "select" THEN 1 ELSE 0
  /\ DOMAIN in = 1..Len(in) /\ DOMAIN out = 1..Len(out)

(* A copy of an event is the very bytes it was read from exactly when      *)
(* those bytes are as raw() lays them out.  In every other case the        *)
(* constructor still accepts the event, and the copy differs: in its       *)
(* order, or because size() no longer is the length of raw().              *)
CopyIsExact ==
  \A e \in event : WrittenBytes(e) = taken <=> LaidOutAsRaw(e, taken)

(* The program comes to an end on every input, damaged or not.             *)
Termination == <>Terminated

(* With -e, an event is written only if its number was asked for ("write   *)
(* specific event numbers").                                               *)
Asked(o, e) ==
  \E i \in DOMAIN o.ranges : e.header.event_counter \in o.ranges[i][1]..o.ranges[i][2]

OnlyAskedFor ==
  \A e \in event : options.ranges # <<>> /\ Selected(e) => Asked(options, e)

(* What the options ask for, an event at a time: the numbers of -e if it   *)
(* is given, a common bit with the mask of -t if that is not zero.         *)
WantedByOptions(o, e) ==
  /\ o.ranges # <<>> => Asked(o, e)
  /\ o.mask # {} => o.mask \cap e.header.trigger_bits # {}

LimitOfOptions(o) == o.nEventsMax
KeepsOutput(o)    == o.append

(* The program implements EventSelection on every input, intact or not: it *)
(* hands the events of the input that the options ask for to the output,   *)
(* in order, up to the limit, behind the earlier events if they are kept;  *)
(* and it ends with exit code 0 exactly if the input was read to its end   *)
(* or to the limit (a crash has none, and counts as failed).  That the     *)
(* bytes of the output are those events is OutputReadable.                 *)
Selection == INSTANCE EventSelection
  WITH Wanted  <- WantedByOptions,
       Limit   <- LimitOfOptions,
       Keeps   <- KeepsOutput,
       todo    <- SetToSeq(event) \o Reading(in).events,
       damaged <- Reading(in).left # <<>>,
       written <- copied,
       count   <- nEventsWritten,
       result  <- CASE pc = "open" -> "idle"
                    [] pc \in {"read", "select"} -> "running"
                    [] pc = "done" -> "done"
                    [] OTHER -> "failed"

ImplementsSelection == Selection!Spec

(* A reader of the output finds, at every moment, the events copied, each  *)
(* as it was in the input, and nothing else, as long as all of them were   *)
(* laid out as raw() does.  After a crash what was still in the buffer of  *)
(* the stream is missing.                                                  *)
OutputReadable ==
  exact /\ pc # "crashed" => Reading(out) = [events |-> copied, left |-> <<>>]

===============================================================================
