------------------------------ MODULE MCEventDump ------------------------------
(***************************************************************************)
(* Instances of EventDump for TLC: files of one event with one fragment,   *)
(* intact or damaged, to see the decoders, and files of several events to  *)
(* see the program.                                                        *)
(***************************************************************************)
EXTENDS EventDump, TLC

GarbageWords == {Word(0, 0), Word(224, 5)}

(* What a trigger board sends: frame ids in version 2, and its checksum.   *)
RightFrameAt(format, k) == CHOOSE frame \in 0..255 : RightFrame(format, k, frame)

SealedBy(words, frame) ==
  Append(words, Word(frame, ReturnFletcherChecksum(
                              [k \in 1..(Len(words) + 1) |->
                                 IF k > Len(words) THEN 0 ELSE NumberOf(words[k])])))

Refit(words) == SealedBy(Front(words), Last(words).frame)

Content(k) == (11 * k + 3) % ContentRange

PayloadOf(words) == [size |-> WordSize * Len(words), words |-> words]

SentBy(format, version, length) ==
  LET words == [k \in 1..length |->
                  IF k = 1 THEN Headers(format)[version]
                  ELSE Word(IF version = 2 THEN RightFrameAt(format, k) ELSE k, Content(k))]
  IN  [format |-> format, version |-> version,
       payload |-> PayloadOf(IF version = 1 THEN words
                             ELSE SealedBy(Front(words), RightFrameAt(format, ChecksumAt(format))))]

(* Monitoring data whose third last word is the checksum of those before. *)
Misleading ==
  LET sent  == SentBy("monitoring", 2, ORed(3))
      words == sent.payload.words
      third == Last(Refit(SubSeq(words, 1, ORed(1)))).content
  IN  [sent EXCEPT !.payload.words = Refit([words EXCEPT ![ORed(1)].content = third])]

TriggerSent ==
  {SentBy("data", 1, 5), SentBy("data", 2, 6), SentBy("monitoring", 1, Veto(4)),
   SentBy("monitoring", 2, ORed(1)), SentBy("monitoring", 2, ORed(3)), Misleading}

WithFault(source, sent, payload, fault) ==
  [source |-> source, payload |-> payload, sent |-> sent, fault |-> fault]

(* Cut short anywhere, or one or two words more, a checksum among them. *)
CutOrLonger(sent) ==
  LET p == sent.payload
      longer == {Append(p.words, Word(240, 1)),
                 SealedBy(Append(p.words, Word(240, 1)), 208)}
  IN  {WithFault("trigger", sent,
                 [size |-> n, words |-> SubSeq(p.words, 1, (n + 3) \div WordSize)], "size")
         : n \in WordSize..(p.size - 1)}
        \cup {WithFault("trigger", sent, PayloadOf(words), "size") : words \in longer}

(* The header of another format or version. *)
OtherHeader(sent) ==
  {WithFault("trigger", sent, [sent.payload EXCEPT !.words[1] = Headers(format)[version]],
             "header") : format \in {"data", "monitoring"}, version \in {1, 2}}

(* A low bit of one word changed. *)
LowBits(sent) ==
  {WithFault("trigger", sent,
             [sent.payload EXCEPT !.words[k].content =
                (@ \div FieldRange) * FieldRange + ((@ + delta) % FieldRange)], "low")
     : k \in 2..Len(sent.payload.words), delta \in 1..(FieldRange - 1)}

(* The frame id of one word wrong, the checksum right again. *)
WrongFrame(sent) ==
  UNION {{WithFault("trigger", sent,
                    [sent.payload EXCEPT !.words =
                       Refit([@ EXCEPT ![k].frame = frame])], "frame")
            : frame \in {f \in {0, 65, 81, 97, 255} :
                           ~RightFrame(sent.format, PlaceOf(sent, k), f)}}
         : k \in 2..Len(sent.payload.words)}

TriggerFragments ==
  UNION {{WithFault("trigger", sent, sent.payload, "none")} \cup CutOrLonger(sent)
           \cup (OtherHeader(sent) \ {WithFault("trigger", sent, sent.payload, "header")})
           \cup (IF sent.version = 2 THEN LowBits(sent) \cup WrongFrame(sent) ELSE {})
         : sent \in TriggerSent}

(* What a digitizer sends: samples of the channels enabled, four or two. *)
DigitizerSent(mask, count) ==
  [c \in Channels |-> IF c \in mask THEN [n \in 1..(2 * count) |-> 100 * c + n] ELSE <<>>]

DigitizerPayload(sent, mask, size) ==
  LET samples == SamplesOf(sent)
      total == 4 + Len(samples) \div 2
      words == <<[event_size |-> size], [channels |-> mask \cap 0..7, info |-> 1],
                 [channels |-> mask \cap 8..15, counter |-> 2], [time |-> 3]>>
                 \o [n \in 1..(total - 4) |->
                       [low |-> samples[2 * n - 1], high |-> samples[2 * n]]]
  IN  [size |-> 4 * total, words |-> words]

Masks == SUBSET {0, 1, 7, 8, 15}

IntactDigitizer(mask, count) ==
  LET sent == DigitizerSent(mask, count)
  IN  WithFault("pmt", sent,
                DigitizerPayload(sent, mask, 4 + Len(SamplesOf(sent)) \div 2), "none")

(* Another mask, another size in the header, or words lost at the end. *)
DamagedDigitizer(mask, count) ==
  LET f == IntactDigitizer(mask, count)
      p == f.payload
      size == p.words[1].event_size
  IN  {[f EXCEPT !.payload = DigitizerPayload(f.sent, other, size), !.fault = "mask"]
         : other \in Masks \ {mask}}
        \cup {[f EXCEPT !.payload.words[1].event_size = size + 1, !.fault = "size"]}
        \cup {[f EXCEPT !.payload = [size |-> n, words |-> SubSeq(p.words, 1, n \div 4)],
                        !.fault = "size"] : n \in {8, 15, p.size - 4}}

DigitizerFragments ==
  {IntactDigitizer(mask, count) : mask \in Masks \ {{}}, count \in 1..2}
    \cup UNION {DamagedDigitizer(mask, 2) : mask \in Masks \ {{}}}

(* The others. *)
BOBRPayload(header) ==
  [size |-> BOBRSize,
   words |-> <<[header |-> header, status |-> {0, 8}]>> \o [n \in 1..4 |-> [value |-> n]]
               \o <<[machinemode |-> 12, momentum |-> 7]>> \o [n \in 1..2 |-> [value |-> n]]]

GoodBOBR  == WithFault("bobr", {}, BOBRPayload(BOBRHeaderV1), "none")
OtherBOBR == WithFault("bobr", {}, BOBRPayload(0), "header")
ShortBOBR == WithFault("bobr", {}, [BOBRPayload(BOBRHeaderV1) EXCEPT !.size = 28], "size")

TrackerFragments ==
  {WithFault("tracker", {}, p, "none") :
     p \in [crc : {"match", "mismatch", "missing"}, complete : BOOLEAN,
            trb_error : BOOLEAN, module_errors : 0..1]}

OtherFragment == WithFault("other", {}, PayloadOf(<<Word(1, 2), Word(3, 4)>>), "none")

-------------------------------------------------------------------------------
D(arg)  == [opt |-> "d", arg |-> arg]
N(n)    == [opt |-> "n", number |-> n]
Bare(o) == [opt |-> o]

EventOf(tag, fs) == [tag |-> tag, fragments |-> fs]

OneFragment ==
  [in : {<<EventOf(tag, <<f>>)>> :
           tag \in {PhysicsTag, TLBMonitoringTag},
           f \in TriggerFragments \cup DigitizerFragments \cup TrackerFragments
                   \cup {GoodBOBR, OtherBOBR, ShortBOBR}},
   argv : {<<D("all")>>, <<Bare("debug"), D("all")>>}, damaged : {FALSE}]

Trigger(format) == WithFault("trigger", SentBy(format, 1, IF format = "data" THEN 5 ELSE Veto(4)),
                             SentBy(format, 1, IF format = "data" THEN 5 ELSE Veto(4)).payload,
                             "none")

NoChannel == CHOOSE f \in DamagedDigitizer({1}, 2) : DividesByZero(f.payload)

SomeEvents ==
  {EventOf(PhysicsTag, <<Trigger("data"), IntactDigitizer({0, 9}, 1), GoodBOBR, OtherFragment>>),
   EventOf(TLBMonitoringTag, <<Trigger("monitoring"), NoChannel>>),
   EventOf(PhysicsTag, <<NoChannel>>),
   EventOf(1, <<Trigger("data"), ShortBOBR>>)}

CommandLines ==
  {<<>>, <<Bare("f")>>, <<D("TRB")>>, <<D("TLB"), N(2)>>, <<D("Digitizer")>>,
   <<D("BOBR"), D("TLB")>>, <<N(1), D("all")>>, <<N(0)>>, <<N(-5)>>, <<N(2), N(-1)>>, <<N(3)>>,
   <<D("SCT")>>, <<Bare("f"), Bare("x")>>}

SomeFiles ==
  [in : UNION {[1..n -> SomeEvents] : n \in 0..3}, argv : CommandLines, damaged : BOOLEAN]

AnyRun == OneFragment \cup SomeFiles
===============================================================================
