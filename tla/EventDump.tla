------------------------------- MODULE EventDump -------------------------------
(***************************************************************************)
(* The program EventFormats/apps/eventDump.cxx: it reads events from a     *)
(* file one at a time and prints them, their fragments, and what the       *)
(* decoders make of the payloads.                                          *)
(*                                                                         *)
(* How an event is read from bytes is in EventFilter; here a file is the   *)
(* events [tag, fragments] that the constructor of EventFull gets out of   *)
(* it, fragments in ascending order of source id, and whether something    *)
(* follows that makes it throw.  A fragment is [source, payload, sent,     *)
(* fault]; the last two are history, the payload before it was damaged and *)
(* how it was.                                                             *)
(***************************************************************************)
EXTENDS TLBFragments, DigitizerDataFragment, BOBRDataFragment

CONSTANTS
  Invocations,    \* [argv : options in order, in : events, damaged : BOOLEAN]
  Garbage         \* what uninitialised memory may hold, as words

ASSUME InvocationsAssumption ==
  \A run \in Invocations :
    /\ run.argv \in Seq(Range(run.argv)) /\ run.in \in Seq(Range(run.in))
    /\ \A option \in Range(run.argv) : option.opt = "n" => option.number \in Int
    /\ \A e \in Range(run.in) : e.fragments \in Seq(Range(e.fragments))
    /\ run.damaged \in BOOLEAN

(* What a trigger board sends: a payload of one of its sizes; in version 2 *)
(* with frame ids, and the checksum in its last word.                      *)
TriggerWords == [frame : 0..255, content : 0..(ContentRange - 1)]
Formats == {"data", "monitoring"}

PlaceOf(sent, k) == IF k = Len(sent.payload.words) THEN ChecksumAt(sent.format) ELSE k

SentByTrigger(sent) ==
  LET words == sent.payload.words
      last  == Len(words)
  IN  /\ sent.format \in Formats /\ sent.version \in {1, 2}
      /\ words \in Seq(TriggerWords)
      /\ sent.payload.size = WordSize * last
      /\ sent.payload.size \in Sizes(sent.format, sent.version)
      /\ words[1] = Headers(sent.format)[sent.version]
      /\ sent.version = 2 =>
           /\ \A k \in 1..last : RightFrame(sent.format, PlaceOf(sent, k), words[k].frame)
           /\ words[last].content = ReturnFletcherChecksum([k \in 1..last |-> NumberOf(words[k])])

(* What becomes of it, by the kind of damage: it is cut short or longer,   *)
(* has the first word of another format or version, a low bit of one word  *)
(* changed, or a wrong frame id.                                           *)
DamagedTrigger(fault, sent, payload) ==
  LET words == sent.payload.words
      last  == Len(words)
  IN  \/ fault = "none" /\ payload = sent.payload
      \/ /\ fault = "size"
         /\ payload.size \in Nat /\ payload.size >= WordSize
         /\ payload.size # sent.payload.size
         /\ \A k \in 1..last : WordSize * k <= payload.size => payload.words[k] = words[k]
      \/ /\ fault = "header"
         /\ payload.size = sent.payload.size
         /\ \E format \in Formats, version \in {1, 2} :
              /\ <<format, version>> # <<sent.format, sent.version>>
              /\ payload.words = [words EXCEPT ![1] = Headers(format)[version]]
      \/ /\ fault = "low"
         /\ payload.size = sent.payload.size
         /\ \E k \in 2..last :
              /\ payload.words[k] \in TriggerWords
              /\ payload.words = [words EXCEPT ![k] = payload.words[k]]
              /\ payload.words[k].content % FieldRange # words[k].content % FieldRange
      \/ /\ fault = "frame"
         /\ payload.size = sent.payload.size
         /\ payload.words[1] = words[1]
         /\ \E k \in 2..last :
              ~RightFrame(sent.format, PlaceOf(sent, k), payload.words[k].frame)

(* What a digitizer sends, as samples by channel: channel after channel,   *)
(* as many of each that is enabled.                                        *)
SamplesOf(sent) == FlattenSeq([n \in 1..16 |-> sent[n - 1]])

SentByDigitizer(sent, payload) ==
  LET mask == ChannelMask(payload.words)
      samples == SamplesOf(sent)
  IN  /\ \A c \in Channels : sent[c] \in Seq(Range(sent[c]))
      /\ \A c \in Channels \ mask : sent[c] = <<>>
      /\ \A c, d \in mask : Len(sent[c]) = Len(sent[d])
      /\ Len(samples) = 2 * (Len(payload.words) - HeaderWords)
      /\ \A n \in 1..(Len(payload.words) - HeaderWords) :
           /\ payload.words[HeaderWords + n].low = samples[2 * n - 1]
           /\ payload.words[HeaderWords + n].high = samples[2 * n]

DigitizerWords(payload) ==
  /\ payload.size \in Nat
  /\ payload.words \in Seq(Range(payload.words)) /\ Len(payload.words) = payload.size \div 4
  /\ ~TooShort(payload) => /\ payload.words[1].event_size \in Nat
                           /\ ChannelMask(payload.words) \subseteq Channels

ASSUME FragmentsAssumption ==
  \A run \in Invocations : \A e \in Range(run.in) : \A f \in Range(e.fragments) :
    /\ f.source = "trigger" =>
         SentByTrigger(f.sent) /\ DamagedTrigger(f.fault, f.sent, f.payload)
    /\ f.source = "pmt" =>
         DigitizerWords(f.payload) /\ (f.fault = "none" => SentByDigitizer(f.sent, f.payload))

VARIABLES
  argv, options,
  in, damaged,    \* events left in the file, and whether something else follows
  event,          \* the event of this round, as {event}
  fragments,      \* its fragments not dealt with
  shown,          \* what was printed of the last fragment, as {[of, print]}
  nEventsRead,
  dumped,         \* history: the events dealt with completely
  pc              \* "start", "open", "read", "dump"; "done" (returns 0), "failed"
                  \* (returns 1), "terminated" (by an exception), "crashed" (in a
                  \* decoder), "overrun" (in reading an event)

file == <<in, damaged>>
vars == <<argv, options, file, event, fragments, shown, nEventsRead, dumped, pc>>

PhysicsTag == 0
TLBMonitoringTag == 3

Systems == {"TLB", "TRB", "Digitizer", "BOBR"}

(* The variables of main before options are looked at; usage, which exits, *)
(* counts as an option here.                                               *)
NoOptions ==
  [showFragments |-> FALSE, showData |-> FALSE, systems |-> {}, nEventsMax |-> -1,
   debug |-> FALSE, usage |-> FALSE]

ParseOption(o, option) ==
  CASE option.opt = "f"     -> [o EXCEPT !.showFragments = TRUE]
    [] option.opt = "n"     -> [o EXCEPT !.nEventsMax = option.number]
    [] option.opt = "debug" -> [o EXCEPT !.debug = TRUE]
    [] option.opt = "d" /\ option.arg \in Systems \cup {"all"} ->
         [o EXCEPT !.showFragments = TRUE, !.showData = TRUE,
                   !.systems = @ \cup IF option.arg = "all" THEN Systems ELSE {option.arg}]
    [] OTHER -> [o EXCEPT !.usage = TRUE]

Init ==
  /\ \E run \in Invocations : argv = run.argv /\ in = run.in /\ damaged = run.damaged
  /\ options = NoOptions
  /\ event = {} /\ fragments = <<>> /\ shown = {}
  /\ nEventsRead = 0 /\ dumped = <<>>
  /\ pc = "start"

(* The loop of getopt_long; an option not known, or no file, ends in usage. *)
ParseOptions ==
  /\ pc = "start"
  /\ options' = FoldLeft(ParseOption, NoOptions, argv)
  /\ pc' = IF options'.usage THEN "failed" ELSE "open"
  /\ UNCHANGED <<argv, file, event, fragments, shown, nEventsRead, dumped>>

Open ==
  /\ pc = "open"
  /\ pc' \in {"read", "failed"}
  /\ UNCHANGED <<argv, options, file, event, fragments, shown, nEventsRead, dumped>>

(* EventFull event(in), and the header printed; without -f or -d the       *)
(* fragments are not looked at.                                            *)
ReadEvent ==
  /\ pc = "read" /\ in # <<>>
  /\ event' = {Head(in)}
  /\ in' = Tail(in)
  /\ fragments' = IF options.showFragments THEN Head(in).fragments ELSE <<>>
  /\ pc' = "dump"
  /\ UNCHANGED <<argv, options, damaged, shown, nEventsRead, dumped>>

(* Defect: the handler reports the problem and does not return. *)
ReadFailsGoesOn == pc = "read" /\ in = <<>> /\ damaged /\ UNCHANGED vars

(* The constructor throws an EFormatException, or copies from behind its    *)
(* buffer; EventFilter has the bytes on which that depends.                *)
ReadFails ==
  /\ pc = "read" /\ in = <<>> /\ damaged
  /\ pc' \in {"failed", "overrun"}
  /\ UNCHANGED <<argv, options, file, event, fragments, shown, nEventsRead, dumped>>

EndOfFile ==
  /\ pc = "read" /\ in = <<>> /\ ~damaged
  /\ pc' = "done"
  /\ UNCHANGED <<argv, options, file, event, fragments, shown, nEventsRead, dumped>>

-------------------------------------------------------------------------------
(* The source of the next fragment, and the tag of the event.  Data are    *)
(* looked at with -d, and those of a subdetector if it is named.           *)
DataOf(source, system) ==
  /\ pc = "dump" /\ fragments # <<>> /\ options.showData
  /\ Head(fragments).source = source
  /\ system \in options.systems

Tagged(tag) == \E e \in event : e.tag = tag

(* Defect: fragments are taken from the end. *)
GoOnBackward ==
  /\ fragments' = Front(fragments)
  /\ UNCHANGED <<argv, options, file, event, nEventsRead, dumped, pc>>

GoOn ==
  /\ fragments' = Tail(fragments)
  /\ UNCHANGED <<argv, options, file, event, nEventsRead, dumped, pc>>

Shows(print) ==
  /\ GoOn
  /\ \E p \in {print} : shown' = {[of |-> Head(fragments), print |-> p]}

DumpTLBData ==
  /\ DataOf("trigger", "TLB") /\ Tagged(PhysicsTag)
  /\ \E garbage \in Garbage :
       \E f \in {TLBFragment("data", Head(fragments).payload, garbage)} :
         Shows(TLBPrint(f, options.debug))

DumpTLBMonitoring ==
  /\ DataOf("trigger", "TLB") /\ Tagged(TLBMonitoringTag)
  /\ \E f \in {TLBFragment("monitoring", Head(fragments).payload, Word(0, 0))} :
       Shows(TLBPrint(f, options.debug))

(* The tracker fragment as far as this program asks it (TrackerWords and   *)
(* ModuleDecoder have its decoder, which never throws); without a checksum *)
(* word what it says of the checksum is up to uninitialised memory.        *)
TrackerErrors(payload, garbage) ==
  [trb     |-> payload.trb_error,
   modules |-> payload.module_errors,
   crc     |-> payload.crc = "mismatch" \/ (payload.crc = "missing" /\ garbage)]

TrackerValid(payload) ==
  /\ payload.crc = "match" /\ payload.complete
  /\ ~payload.trb_error /\ payload.module_errors = 0

DumpTracker ==
  /\ DataOf("tracker", "TRB")
  /\ LET payload == Head(fragments).payload
     IN  \E garbage \in BOOLEAN :
           Shows([warnings |-> IF TrackerValid(payload) THEN {}
                               ELSE {TrackerErrors(payload, garbage)}])

DumpDigitizer ==
  /\ DataOf("pmt", "Digitizer") /\ Tagged(PhysicsTag)
  /\ ~DigitizerThrows(Head(fragments).payload) /\ ~DividesByZero(Head(fragments).payload)
  /\ Shows(DigitizerPrint(Decoded(Head(fragments).payload)))

DumpBOBR ==
  /\ DataOf("bobr", "BOBR")
  /\ ~BOBRThrows(Head(fragments).payload)
  /\ Shows(BOBRPrint(Head(fragments).payload))

(* Of any other source the words as they are. *)
DumpWords ==
  /\ pc = "dump" /\ fragments # <<>> /\ options.showData
  /\ Head(fragments).source \notin {"trigger", "tracker", "pmt", "bobr"}
  /\ Shows([words |-> WholeWords(Head(fragments).payload)])

(* Nothing but the header of the fragment. *)
SystemOf == [trigger |-> "TLB", tracker |-> "TRB", pmt |-> "Digitizer", bobr |-> "BOBR"]

DumpHeader ==
  /\ pc = "dump" /\ fragments # <<>>
  /\ LET source == Head(fragments).source
     IN  \/ ~options.showData
         \/ source \in DOMAIN SystemOf /\ SystemOf[source] \notin options.systems
         \/ source = "trigger" /\ ~Tagged(PhysicsTag) /\ ~Tagged(TLBMonitoringTag)
         \/ source = "pmt" /\ ~Tagged(PhysicsTag)
  /\ GoOn
  /\ UNCHANGED shown

(* The constructors of the digitizer and the BOBR throw exceptions that    *)
(* are no EFormatException, outside the handlers of the output operators.  *)
Ends(how) ==
  /\ pc' = how
  /\ UNCHANGED <<argv, options, file, event, fragments, shown, nEventsRead, dumped>>

DecoderThrows ==
  /\ \/ /\ DataOf("pmt", "Digitizer") /\ Tagged(PhysicsTag)
        /\ DigitizerThrows(Head(fragments).payload)
     \/ /\ DataOf("bobr", "BOBR")
        /\ BOBRThrows(Head(fragments).payload)
  /\ Ends("terminated")

DigitizerCrashes ==
  /\ DataOf("pmt", "Digitizer") /\ Tagged(PhysicsTag)
  /\ DividesByZero(Head(fragments).payload)
  /\ Ends("crashed")

(* -1 stands for no limit. *)
LimitPassed(n)  == options.nEventsMax # -1 /\ n > options.nEventsMax    \* Defect: one late.
LimitReached(n) == options.nEventsMax # -1 /\ n >= options.nEventsMax

EndOfEvent ==
  /\ pc = "dump" /\ fragments = <<>>
  /\ nEventsRead' = nEventsRead + 1
  /\ dumped' = dumped \o SetToSeq(event)
  /\ event' = {}
  /\ shown' = {}
  /\ pc' = IF LimitReached(nEventsRead') THEN "done" ELSE "read"
  /\ UNCHANGED <<argv, options, file, fragments>>

Next ==
  \/ ParseOptions \/ Open
  \/ ReadEvent \/ ReadFails \/ EndOfFile
  \/ DumpTLBData \/ DumpTLBMonitoring \/ DumpTracker
  \/ DumpDigitizer \/ DumpBOBR \/ DumpWords \/ DumpHeader
  \/ DecoderThrows \/ DigitizerCrashes
  \/ EndOfEvent

(* A sequential program that waits for nobody. *)
Spec == Init /\ [][Next]_vars /\ WF_vars(Next)

-------------------------------------------------------------------------------
Ended == pc \in {"done", "failed", "terminated", "crashed", "overrun"}

(* There is an event exactly during its round, or if it ended the program; *)
(* what is left of its fragments is a suffix; and the count is that of the *)
(* events printed completely.                                              *)
TypeOK ==
  /\ pc \in {"start", "open", "read", "dump"} \/ Ended
  /\ Cardinality(event) = IF pc \in {"dump", "terminated", "crashed"} THEN 1 ELSE 0
  /\ \A e \in event : IsSuffix(fragments, e.fragments)
  /\ event = {} => fragments = <<>> /\ shown = {}
  /\ nEventsRead = Len(dumped)

(* The program comes to an end on every file, by an exception or a crash   *)
(* perhaps.                                                                *)
Termination == <>Ended

(* What is asked for: all events up to the limit (-n 0 and below -1 stand  *)
(* for one event).  An event with a fragment whose decoder throws or       *)
(* divides by zero ends the program as a damaged file does.                *)
Requested(args) == FoldLeft(ParseOption, NoOptions, args)

Deadly(o, e) ==
  \E f \in Range(e.fragments) :
    \/ /\ f.source = "pmt" /\ "Digitizer" \in o.systems /\ e.tag = PhysicsTag
       /\ DigitizerThrows(f.payload) \/ DividesByZero(f.payload)
    \/ f.source = "bobr" /\ "BOBR" \in o.systems /\ BOBRThrows(f.payload)

EveryEvent(args, e) == TRUE
KeepsNothing(args) == FALSE
LimitOfOptions(args) ==
  LET n == Requested(args).nEventsMax IN IF n = -1 THEN 0 ELSE IF n < 1 THEN 1 ELSE n

Left == SetToSeq(event) \o in
FirstDeadly == SelectInSeq(Left, LAMBDA e : Deadly(Requested(argv), e))

(* The program implements EventSelection too: it prints, each completely   *)
(* and in order, the events of the file up to the limit, the end, or the   *)
(* first that cannot be read or decoded; and returns 0 only if there was   *)
(* none such before the limit.                                             *)
Selection == INSTANCE EventSelection
  WITH Wanted  <- EveryEvent,
       Limit   <- LimitOfOptions,
       Keeps   <- KeepsNothing,
       options <- argv,
       todo    <- IF FirstDeadly = 0 THEN Left ELSE SubSeq(Left, 1, FirstDeadly - 1),
       damaged <- damaged \/ FirstDeadly # 0,
       written <- dumped,
       count   <- nEventsRead,
       result  <- CASE pc \in {"start", "open"} -> "idle"
                    [] pc \in {"read", "dump"} -> "running"
                    [] pc = "done" -> "done"
                    [] OTHER -> "failed"

ImplementsSelection == Selection!Spec

(* The values a trigger board sent, in the order they are printed: its     *)
(* counters are all words between those of the trigger lines and the       *)
(* checksum.                                                               *)
SentValues(format, version, words) ==
  LET content(k) == words[k].content
      lines == [n \in 1..(3 * MaxTrigLine) |->
                  content(5 + ((n - 1) \div 3) + MaxTrigLine * ((n - 1) % 3))]
      counters == SubSeq(words, 5 + 3 * MaxTrigLine,
                         IF version = 1 THEN Len(words) ELSE Len(words) - 1)
      middle == IF format = "data" THEN <<NumberOf(words[5]), NumberOf(words[5])>>
                ELSE lines \o [n \in DOMAIN counters |-> counters[n].content]
  IN  <<content(2), NumberOf(words[3]), content(4) % FieldRange>> \o middle
        \o <<content(4) \div FieldRange>>

Values(fields) == [n \in DOMAIN fields |-> fields[n].value]

FormatOfTag == IF Tagged(PhysicsTag) THEN "data" ELSE "monitoring"

(* Trigger data that arrive as they were sent are printed as such, all of  *)
(* them.  Of data cut short, with words appended, of another kind than the *)
(* event's tag says, or - in version 2, which has frame ids and a checksum *)
(* - with a low bit or a frame id changed, nothing is printed without      *)
(* --debug but the unguarded event id, and the handler's message.          *)
TriggerAsSent ==
  \A s \in {t \in shown : t.of.source = "trigger"} :
    LET sent == s.of.sent
    IN  IF s.of.fault = "none" /\ sent.format = FormatOfTag
        THEN /\ s.print.corrupted = {}
             /\ Values(s.print.shown) = SentValues(sent.format, sent.version, sent.payload.words)
        ELSE ~options.debug /\ (sent.version = 2 \/ s.of.fault \in {"none", "size", "header"}) =>
             s.print.corrupted # {} /\ Len(s.print.shown) = 1

(* Whatever the mask and the sizes say, a digitizer payload that is        *)
(* accepted is printed as it is: column after column the samples of its    *)
(* words in order, each once, none from behind the payload, and as many    *)
(* for each enabled channel as valid() asks; and of an intact one each     *)
(* channel has its own.                                                    *)
Column(print, c) ==
  FlattenSeq([n \in DOMAIN print.lines |-> SetToSeq(print.lines[n][c])])

SamplesAsSent ==
  \A s \in {t \in shown : t.of.source = "pmt"} :
    LET words == s.of.payload.words
        columns == FlattenSeq([n \in 1..16 |-> Column(s.print, n - 1)])
    IN  /\ columns = FlattenSeq([n \in 1..(s.of.payload.size \div 4 - 4) |->
                                   <<words[4 + n].low, words[4 + n].high>>])
        /\ DigitizerValid(Decoded(s.of.payload))
        /\ s.of.fault = "none" => \A c \in Channels : Column(s.print, c) = s.of.sent[c]

(* A payload that its decoder refuses is reported ("Corrupted data for     *)
(* Digitizer event"), and does not end the program.                        *)
RefusalReported == pc # "terminated"

===============================================================================
