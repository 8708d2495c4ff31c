# Verification of faser-common

TLA+ models of the event formats of `faser-common`, with TLC configurations that
check them on small instances and proofs, checked by TLAPS, that hold for every
value of the constants.  Paths below are relative to `src/`.

## 1. Inventory of the system

| Part | Source | State it keeps | Operations |
|---|---|---|---|
| Fragment | `EventFormats/EventFormats/DAQFormats.hpp` `EventFragment` | packed header, payload | wrap a payload, decode bytes, `raw`, `rawAppend`, setters |
| Event | same file, `EventFull` | packed header, map from source id to fragment pointer | empty event, decode bytes, decode from a file, `addFragment`, `updateStatus`, `raw`, destructor |
| eventFilter | `EventFormats/apps/eventFilter.cxx` | position in the input, output, count, options | the read / select / write loop |
| eventDump | `EventFormats/apps/eventDump.cxx` | position in the input, count, options | the read / print loop, calls the decoders |
| Tracker board decoder | `TrackerDataFragment.hpp/.icc` | `TRBEvent`: ids, flags, words per module, errors, checksum | word loop of the constructor, `valid` |
| Tracker module decoder | same files, `DecodeModuleData`, `SCTEvent` | LED and LEDX events per module, hits, errors | packet loop, `AddHit`, `AddError`, `AddHeader` |
| Bitstream | same files | 32-bit buffer, words left, bits used of the next word, bits available | constructor, `RemoveBits`, `BitsAvailable` |
| Trigger board decoders | `TLBDataFragment.hpp`, `TLBMonitoringFragment.hpp` | the decoded struct, size, version | constructor, `frame_check`, `valid` |
| Digitizer decoder | `DigitizerDataFragment.hpp` | header fields, samples per channel | constructor, `valid`, channel access |
| BOBR decoder | `BOBRDataFragment.hpp` | the decoded struct | constructor, `valid` |
| Fletcher checksum | `FletcherChecksum.hpp` | two sums | `AddData`, `ReturnFletcherChecksum` |
| Cabling database | `CablingDB/*.py` | tables of mappings per first valid run | validation, storing intervals of validity, extraction from configuration files |
| Exceptions, Logging | `Exceptions/`, `Logging/` | none | formatting |

How they interact.  Everything is in one thread and by direct calls.  A data
acquisition program (outside this repository) wraps detector payloads as
fragments and adds them to events; `raw()` makes the bytes that go to a file.
`eventFilter` and `eventDump` read the file back event by event: the constructor
of `EventFull` constructs its fragments from the same buffer.  `eventFilter`
writes `size()` bytes of `raw()` again; `eventDump` hands payloads to the decoder
that the source id names.  The tracker decoder sorts words by module, then feeds
each module's words to a `Bitstream`.  The shared state that matters is the heap
(fragments owned by the event or by the program) and the files.

What is hard.

* Order.  `addFragment` compares, overrides and accumulates while fragments
  arrive in any order; what the header finally says must not depend on it.
* Ownership with raw pointers and an exception in the middle.
* Two descriptions of one thing: lengths in a header, and the bytes behind it.
  The loader accepts layouts the writer never makes, and the filter relies on
  both agreeing.
* Files cut short or damaged anywhere; the program stops in the middle.
* Bits that cross word boundaries, and a separate count of how many are left.
* Fixed widths: an 8-bit fragment count, an 8-bit view of a 16-bit status,
  32-bit sums of sizes taken from a file, unsigned differences.
* Decoders that believe a payload: a size, a mask, a version word.  One that
  refuses does so in three ways: a `valid()` that is false, an exception that a
  printer reports, or an exception that leaves the program.

What makes each part correct: an event's header is the summary of its fragments;
each fragment has one owner; encoding and decoding are inverse; the filter
writes exactly the selected events and always ends; the bit window is the next
bits of the data, and the loop over it neither stops early nor runs for ever.
A board event is valid exactly if its words, up to the checksum, are complete, in
order and free of errors; a module's event has the hits and errors of both its
lines, whatever damage one of them took.  A decoder never reports a value that was
not in the payload: it prints what was sent, or refuses.

## 2. Modules

| Module | Models | Kind |
|---|---|---|
| `DAQFormats` | fragments and events as values, encoding and decoding | operators |
| `EventBuilding` | an event being filled, and the heap | state machine |
| `EventContents` | what an event promises: a set of fragments and its summary | abstract specification |
| `EventFilter` | the program `eventFilter` | state machine |
| `EventSelection` | what the program promises: a sequence of events, filtered | abstract specification |
| `Bitstream` | the class `Bitstream` | state machine |
| `ModuleDecoder` | `DecodeModuleData` for one module, and its `SCTEvent`; composed with `Bitstream` | state machine |
| `FletcherChecksum` | the class `FletcherChecksum`, for words of any width | operators |
| `TrackerWords` | the word loop of a tracker board, its checksum, and `valid()` | state machine |
| `TLBFragments` | the two decoders of the trigger board, and what they print | operators |
| `DigitizerDataFragment` | the decoder of the digitizer, and what it prints | operators |
| `BOBRDataFragment` | the decoder of the BOBR, and what it prints | operators |
| `EventDump` | the program `eventDump` | state machine |
| `MC...` (one for each state machine) | instances for TLC | |
| `Recursion` | induction, recursive functions, folds, sums and concatenations | lemmas |
| `DAQFormats_proof` | what the constructors make of bytes, and what `raw()` lays out | lemmas |
| `..._proof` (one for each state machine) | its invariants and theorems (section 5) | proofs |

`EventBuilding` and `EventFilter` are built from `DAQFormats`, `TrackerWords` and
`TLBFragments` on `FletcherChecksum`, and `EventDump` on the three decoders.  Both
programs implement `EventSelection`.  Definitions keep
the names of the code.  A definition whose comment begins with "Defect" is a
variant of the definition below it with a likely mistake in it; nothing uses it,
and it documents which mistake each property would catch.

### Abstractions common to all

* A byte string is a sequence with one cell per byte.  The first cell of a packed
  header holds the header as a record, the rest of it are tail cells, so lengths,
  offsets and truncation are exact and the content of a byte plays no part.  A
  payload byte is not taken for a header marker.
* Header sizes are constants (44 and 36 in the build, 3 and 2 in the runs).  What
  is compared with them in the code is compared with them here.
* Flags and trigger bits are sets of bit numbers.  Tags, timestamps and the run
  number are copied and never looked at by the code modelled, and are left out.
* A fragment header in a file announces a `header_size` of at least the packed
  size: `EventFragment` looks at a header after it has seen only 8 bytes, and
  with less than a header in the buffer would read behind it.  No input in the
  runs has a fragment that is shorter than its header and passes the checks.
* Sizes wrap where the code's types do: `size()`, an event's `payload_size` and the
  sums a constructor compares with the bytes it was given are taken modulo
  `SizeModulus`, `header_size` is below `HeaderSizeModulus`.  So a fragment header may
  announce a payload so large that its size wraps and is accepted
  (`FragmentAccepted`), while the bytes are not in the buffer (`PayloadInside`).  The
  code then copies almost 2^32 bytes from behind a buffer of at most
  `MaxFilePayload`.  That is undefined; in the model the program ends by a signal, or
  by the exception of an allocation that fails, which its handlers do not catch.

### EventBuilding

`heap` maps allocated objects to fragments, `held` is what the program regards as
its own, `header` and `fragments` are the members of `EventFull`.  Two history
variables, `first` and `flagged`, record what properties talk about and no action
reads.

| Action | Code |
|---|---|
| `Create` | `new EventFragment(tag, source, event, bc, payload, size)` |
| `SetStatus`, `SetTriggerBits` | the setters; the program uses them before it adds a fragment (afterwards it has a `const` pointer) |
| `AddFragment`, `AddDuplicate` | `addFragment` that returns, that throws |
| `UpdateStatus` | `updateStatus` |
| `Delete` | the program deletes a fragment it holds |
| `Renew` | `~EventFull`, and a new event |

`KeepsRejected` says what the program does with a fragment that is refused: keep
it, or regard it as given away as the comment of `addFragment` says.

The abstract specification `EventContents` has a set of fragments and computes
the summary from scratch; `ImplementsContents` maps the header to it.

### EventFilter

`in` is what is left of the input, `out` the output file, `event` the event of
the current round (a set of at most one), `pc` the place in `main`.

| Action | Code (`eventFilter.cxx`) |
|---|---|
| `Open`, `OpenFails` | opening the files, 133-150; `trunc` or `app` |
| `ReadEvent`, `ReadFails`, `EndOfFile` | `EventFull event(in)`, its exception, the loop condition |
| `ReadOverruns` | the constructor copies a payload that is not in its buffer (`DAQFormats.hpp`, 107) |
| `SkipEvent` | the two `continue`s, 158-163 |
| `WriteEvent` | 165-183: `raw`, `write`, the count, the limit |

Options are what parsing yields: a list of ranges, a mask, a limit, append.
`EventSelection` is a program on sequences of events.  The mapping reads the
rest of the input with the reader itself; what was written is `copied`, the history
of the events handed to the output stream.  That the bytes of the output are these
events, for someone who reads them, is another property, `OutputReadable`; and
`CopyIsExact` says when they are the bytes that were read.  A crash counts as a
failure.  `out` is what was handed to the stream: the stream writes when its buffer is
full and when it is closed, so after a crash the file lacks what was still in
the buffer, and `OutputReadable` says nothing of it then.

### Bitstream

A bit is the set of the positions of the data that were or'ed into it, so
`WindowIsNextBits` sees an overlap, a gap and a swap, for all values of the bits
at once.  `RemoveBits` has three cases, for the three ways through the function.
The decoder removes 1, 3, 4, 11, 13, 19 or 28 bits at a time.

### ModuleDecoder

A module sends on two lines, led and ledx.  `data` has the bits that arrived;
`input` remembers what was sent and which bits were flipped.  The window is that
of `Bitstream`, instantiated with the widths of the build: the four members and
its two history variables are variables here, so the decoder runs on the model of
the class and inherits its early end.  A `Bitstream` knows the positions of bits,
`WindowOn` looks up their values.

| Action | Code (`TrackerDataFragment.icc`) |
|---|---|
| `StartSide`, `NoBitsAvailable` | start of the round for a line, 158-177; end of its `while` |
| `ModuleHeader`, `NoPraeamble` | 185-262: a header, taken from either line; a bit skipped before one |
| `ErrorPacket`, `ConfigPacket`, `NoDataPacket` | 263-282, 320-325 |
| `DataPacket`, `Hit`, `HitsEnd` | 283-319: the packet, one round of its loop, the end of the loop |
| `Trailer` | 326-331 |
| `UnableToDecode`, `Align`, `EndAlign`, `SkipZeros` | 333-346: garbage |

The test for an event that is missing after a preamble (252) never fires; `TypeOK`
says so.

### FletcherChecksum

The sums wrap at `WordBits`, each half of the checksum has `FieldBits`, and the
upper half takes `KeptBits` from above the lower half and the others from the top
of its sum.  The build has 32, 12 and 5; the runs have 8, 3 and 1, which leaves
every kind of bit: kept, dropped, wrapped.

### TrackerWords

A word is its type, its frame counter and its content; `TypeBits` has the masks of
`TrackerDataFragment.hpp`, and no two of the tests overlap.  `sent` and `fault`
remember the fragment and what was lost or changed of it.  The checksum is
computed over all words that arrive.  What an uninitialised `m_crc` would compare
to is `uninitialised`, either value.

Every action but two is a kind of word that arrives in order: `EventId`, `End`,
`Crc`, `Unrecognized` for header words, `Bcid`, `TrbError`, `ModuleError`,
`OtherData` for words of the board, `ModuleData`.  `FrameLost` is a word out of
order, `AllRead` the end of the data.

### TLBFragments, DigitizerDataFragment, BOBRDataFragment

Pure operators, one for each step of a constructor, a check or an output operator.
A payload is its size in bytes and its words.  The data and the monitoring
fragment of the trigger board are one set of operators, with the format as a
parameter: a payload is copied over a preset struct, some words have frame ids,
`TLBValid` is `valid()`, and `TLBPrint` gives the fields printed before a getter
throws and the handler's message.  Three fields, TAP, TBP and the input bits, are the
whole word they are taken from: which of its bits the getters return is the
field's name, and their masks and shifts (`TLBDataFragment.hpp`, 96-116) are not
checked.  What a short payload leaves of the struct
is the preset, byte by byte, and for the checksum word of a data fragment whatever
was in memory (`Garbage`).  `MaxTrigLine` is 6 in the build and 2 in the runs, which
shortens the struct and keeps its shape; all sizes follow from it (5 and 6 words of
data, 26, 30 and, formerly, 28 of monitoring data in the build).

`DigitizerDataFragment` has the mask of channels in two halves, the three checks
that throw, the running location and the division by the number of channels.  With
no channel enabled the division is by zero, which is undefined; the processors this
runs on trap, and the model ends as `crashed`.

### EventDump

`in` are the events left in the file, `fragments` those left of the current event,
`shown` what was printed of the last fragment, with the fragment.  A fragment
carries, as history, the payload as it was sent and the kind of damage.

| Action | Code (`eventDump.cxx`) |
|---|---|
| `ParseOptions`, `Open` | 26-113; 114-119 |
| `ReadEvent`, `EndOfFile` | 123-130; the loop condition |
| `ReadFails` | an event that cannot be read: the exception, 202-205, or a copy that overruns the buffer |
| `DumpTLBData`, `DumpTLBMonitoring` | 133-148, by the tag of the event |
| `DumpTracker` | 149-170 |
| `DumpDigitizer`, `DumpBOBR` | 171-186 |
| `DumpWords`, `DumpHeader` | 187-198; a fragment of which only the header is printed |
| `DecoderThrows`, `DigitizerCrashes` | exceptions of constructors at 174 and 182; the division |
| `EndOfEvent` | 207-213: the count and the limit |

`EventSelection` is implemented with every event wanted, no output kept from
before, and a limit of `-n` that takes 0 and numbers below -1 as 1; an event whose
decoding ends the program counts as damage of the file.

## 3. Runs

| Run | Question | Result |
|---|---|---|
| `building_orders` | Is the header the right summary after every order of additions, with refusals, status flags and `updateStatus` in between? | holds |
| `building_bytes` | Does `size()` fit `raw()`, and do both constructors read it back? May a living event lose anything? Has every fragment one owner? | holds |
| `building_status` | Does `status()` report every flag? | violated |
| `filter_copies` | Does the output hold exactly the events asked for, is it readable at every moment, when is a copy exact, and does the program end, with intact, cut and damaged files? | holds |
| `filter_backward` | Are only events written that `-e` names? | violated |
| `bitstream_window` | Is the window the next bits, whatever is removed? | holds |
| `bitstream_given_up` | Does the stream offer its bits as long as it has some? | violated |
| `module_lines` | Are all hits and errors of intact lines decoded, wherever packets lie in words? What does damage cost, and does the decoder end? | holds, errors up to the last 32 bits of a line |
| `module_mismatch` | Is a disagreement of the two lines on the bunch crossing flagged? | violated |
| `board_words` | When is a fragment valid, are the words of lines kept in order, is a loss of words always found, even if the checksum matches, and a change of low bits? | holds |
| `dump` | Is trigger data printed as sent or refused, are digitizer samples printed as they are, and does the program deal with the events asked for, and end? | holds |
| `dump_escapes` | Is a payload that its decoder refuses reported? | violated |

The configuration of run `building_orders` is `EventBuilding_orders.cfg`, and so
on (`module_...` is `ModuleDecoder_...`, `board_words` is `TrackerWords.cfg`, `dump`
is `EventDump.cfg`).

Bounds.

* `building_orders`: the trigger and two detectors, two bunch crossings, two
  event ids, so that an early and a late trigger fragment, and disagreement with
  either, happen in every order.  One fragment is prepared at a time: `addFragment`
  sees only the fragment it is given, so what else is prepared plays no part
  (`building_bytes` asks about ownership).  The flags are `BCIDMismatch`,
  which the code itself computes, and one other.  `CountModulus` is 4: no wrap of
  the count.  Sizes are modulo 8, and with three fragments their sum, 9, has wrapped.
* `building_bytes`: three sources with payloads of no or one byte, so an event has up to 9
  bytes behind its header.  `CountModulus` is 3: events of two fragments, in
  every order, are read back, and with three the counter has wrapped.  `SizeModulus` is
  10: the size of an event of three fragments wraps.  The limit of a
  reader is 5 bytes: an event of two fragments is below it, at it or past it.  Four
  objects, two held at a time: a refused fragment can be kept, set, deleted or
  offered again, also to the next event, while another of its source is prepared.
* `filter_copies`: all files of up to three out of three different events, and
  two-event files cut off at every byte; `-e` absent, a number, a list, a range;
  masks that hit, miss and are absent; limits 0, 1, 2; append or not, on an empty
  or a used output.  And two-event files of which one has one field of one header
  changed (each field the code looks at, off by one or out of range; sizes also so
  large that a sum with them wraps, to nothing or to a small number, or just does not) or its fragments in another order, duplicated or more than counted.
  `HeaderSizeModulus` is 8 and `SizeModulus` 16, for 2^16 and 2^32.
* `bitstream_*`: the widths of the build (32 and 24 bits), the decoder's removals,
  up to six words, and removals going on one buffer past the end.  After two words
  the state depends only on the bits used of the next word and the words left, so
  six words meet every combination.  `UIntModulus` is 2^16 for 2^32: TLC's
  integers are 32 bits wide, and all that matters is that a wrapped difference is
  far larger than a buffer.
* `module_lines`, intact: lines of a header, up to two (the other line: one) of eight
  packets, a trailer.  The lengths of packets (3, 11, 17, 21 and 28 bits) put the
  second and the trailer at many offsets in words, across a word boundary and
  behind it.  Among them are two hits of which the second has a strip number past
  the last, and chips the module does not have.
* `module_lines`, damaged: intact, empty, headless and overlong lines in pairs, with no bit
  flipped, with any one, or with any two neighbours among the first bits of led:
  headers destroyed, created, changed on one line, and garbage behind a preamble.
* `board_words`: fragments of up to three words out of thirteen, with or without the words of a
  good fragment around them, and with or without the second word lost.
  A good fragment of eleven words with any set of words lost,
  starting from two frame counters, and with a checksum that matches nevertheless:
  eight lost in a row fit the cycle of the counter and are not found; the
  property says fewer than eight.  And a good fragment with the content of each word
  changed to each other value.
* `dump`, one fragment: for both formats and versions of the trigger board, the old
  size of monitoring data, and one whose counter happens to be the checksum of the
  words before it (cut there, only its frame id tells): every length from
  a word up, one and two words more, every header, every change of the low bits of a
  word, and every frame id changed with the checksum made good again; under the tags
  of both formats, with and without `--debug`.  Digitizer payloads for 31 masks of
  five channels of both halves, decoded with each of the 32.  All summaries
  of a tracker fragment.
* `dump`, files: up to three events out of four (good, of another tag, with a
  payload that is refused, with one that divides by zero), intact or followed by
  damage, and thirteen command lines, with limits 0, 1, 2, 3, -1, -5.
* In `dump` a frame id counts in the checksum with its two lowest bits only, since a
  word has 8 bits there, 6 of them content.  `WrongFrame` makes the checksum good
  again, so what finds a wrong frame id is always `frame_check`.

Symmetry is used for object identities, in runs that check safety only.

Fairness.  `EventFilter`, `EventDump` and `ModuleDecoder` are sequential
programs that wait for nobody, so weak fairness of the next-state relation says just that they
go on while they can.  `EventBuilding` has none: nothing obliges a program to add
fragments, and no liveness is stated for `TrackerWords`, whose loop counts up to a
bound.  Deadlock is checked in `EventBuilding`, and off where the program
ends.

## 4. Disagreements between the code and its own text

1. `addFragment` says it takes ownership without exception; when it throws, it has
   not.  A caller that believes the comment leaks every refused fragment: theorem
   `Ownership` needs `KeepsRejected`, and `OneOwner` fails without it.
2. `EventFull::status()` returns eight bits of sixteen, and loses `EmptyFragment`,
   `DuplicateFragment` and `ErrorFragment` (`building_status`).
3. `eventFilter -e 3-2` writes every event (`filter_backward`).
4. `Bitstream::RemoveBits` reports that no bits are available while the buffer
   still has data, when a removal uses up the last word in its middle: an unsigned
   difference is taken after the counter in it was reset (`bitstream_given_up`).
   The window itself stays right.  In the decoder this costs error packets in the
   last 32 bits of a line, never hits (`module_lines`).
5. `SCTEvent::AddHeader`, which would compare the headers of the two lines, is
   never called: lines of two bunch crossings become one complete event, and
   `BCIDMismatch()` stays false (`module_mismatch`).
6. The digitizer's and the BOBR's constructor throw what nobody catches: their
   message "Corrupted data for ..." stands in an output operator that cannot be
   reached with such data, and `eventDump` ends (`dump_escapes`).

Behaviour worth knowing:

* An intact header of led is replaced by the first word of ledx whenever the two
  differ.  If ledx is silent, or begins with something else, all data of led are
  dropped (`LedNeedsLedx`); if both begin with different headers, led gets the
  identity of ledx.  The property is about lines without bits that look like a header
  behind their first word (`HeaderWithin`): there a damaged preamble lets the
  decoder find a header in the data.
* `eventFilter -t` selects events with a common bit (`&`); its usage text writes
  "(mask | trigger)".
* A configuration packet whose first register begins with a one carries the tag of
  an error packet, which is looked for first.
* Strip numbers of a data packet may run past 127.
* A second bunch crossing word is ignored, and the fragment stays valid.
* Words behind the checksum of a tracker fragment are "ignored" by the loop, but
  shift the word that the checksum leaves out: the fragment becomes invalid unless
  the sum fits by chance (`ValidIffWhole`).
* The checksum does not see every bit: only the uppermost and some middle bits of
  one sum are kept, so a change of upper bits of one of the last words can pass.  A
  change of low bits of one word never does (`ChangeFound`, `TriggerAsSent`).
* A damaged `payload_size` near 2^32 of a fragment passes both checks of its
  constructor (`DAQFormats.hpp`, 104-106), as the sum with `header_size` wraps; the
  copy behind them then ends `eventFilter` and `eventDump` by a crash, with
  neither a message nor their exit code.
* `event_id()` and `bc_id()` of trigger fragments have no guard: they are shown of
  invalid data too.
* A wrong channel mask with a fitting number of channels is accepted, and samples
  appear in other channels.  What is certain is only that each appears once
  (`SamplesAsSent`).
* `eventDump -n 0` prints one event; an empty channel mask divides by zero.
* Of a tracker fragment without a checksum word, "CRC msimatch!" is printed or not
  according to uninitialised memory.

## 5. Proofs

A run shows a property for the constants of its configuration; a theorem shows it
for every value that satisfies the assumptions.  All theorems are of the form
`Spec => []P`, or `Spec => P` for an action property or a refinement.

| Module | Theorem | States |
|---|---|---|
| `EventBuilding_proof` | `TypeCorrect` | `TypeOK` |
| | `MismatchDetected` | `MismatchIffDisagree` |
| | `IdentityKept` | `IdentityFromFragments` |
| | `StatusKept` | `StatusAccounted` |
| | `Grows` | `OnlyGrows` |
| | `Ownership` | `OneOwner`, if `KeepsRejected` |
| | `ContentsImplemented` | `ImplementsContents`, if `FewSources` |
| | `SizeCorrect` | `SizeIsRawLength` |
| | `RoundTripCorrect` | `RoundTrip` |
| `EventFilter_proof` | `TypeCorrect` | `TypeOK` |
| | `SelectionImplemented` | `ImplementsSelection`, if `RangesForward` |
| | `OutputCorrect` | `OutputReadable`, if `OutputsReadable` |
| | `CopyCorrect` | `CopyIsExact`, if `InputsPacked` |
| `EventDump_proof` | `TypeCorrect` | `TypeOK` |
| | `SelectionImplemented` | `ImplementsSelection` |
| | `SamplesCorrect` | `SamplesAsSent` |
| | `TriggerCorrect` | `TriggerAsSent` |
| `Bitstream_proof` | `TypeCorrect` | `TypeOK` |
| | `WindowCorrect` | `WindowIsNextBits` |
| | `FullCorrect` | `FullWhileWordsLeft` |
| `ModuleDecoder_proof` | `TypeCorrect` | `TypeOK` |
| | `LedIsKept` | `LedKept` |
| | `HitsCorrect` | `HitsDecoded` |
| | `ErrorsCorrect` | `ErrorsDecoded` |
| | `LedNeedsLedxCorrect` | `LedNeedsLedx` |
| `TrackerWords_proof` | `TypeCorrect` | `TypeOK` |
| | `LinesCorrect` | `LinesInOrder` |
| | `ValidCorrect` | `ValidIffWhole` |
| | `LossIsFound` | `LossFound` |
| | `ChangeIsFound` | `ChangeFound` |

### From which assumptions

The assumptions on constants stand in the modules that declare them, and are
evaluated in every run.

* `SizesAssumption`: headers have a size, below `HeaderSizeModulus`, `CountModulus` is at
  least 2, the smallest fragment accepted is not larger than a header, and
  `SizeModulus` is at least `HeaderSizeModulus` and `MaxFilePayload` together.  The
  build has 44 and 36, 2^16, 256, 8, 2^32 and 10^6.
* `BuildingAssumption`, `InvocationsAssumption`, `TransmissionsAssumption`: types of what a
  program is given.  Any bytes are an input of `EventFilter`, any events one of
  `EventDump`, any words with any of them lost and changed a transmission.
* `FragmentsAssumption`, of `EventDump`: what the history of a fragment says is what
  happened.  A trigger board sends one of its formats and versions, in one of its sizes
  (`SentByTrigger`); in version 2 with the frame ids and the checksum the code looks for.
  Any words are sent in between.  The damage is the one its label names (`DamagedTrigger`):
  any other size, the first word of any other format or version, one word with other low
  bits, or any payload with one wrong frame id.  A digitizer's payload is any words whose
  mask names channels; an intact one has the samples of the enabled channels one behind
  the other (`SentByDigitizer`).  Only `SamplesCorrect` and `TriggerCorrect` use this, and
  about a trigger payload damaged in another way they say nothing.
* `BytesAssumption`, of the trigger boards: a word's content is three bytes, there is a
  trigger line, and a third of the content has more than one bit (`FieldBits` is at least
  3), so that the first words differ in their low bits.  The build has 12, and 6 lines.
* `BitsAssumption`: a word has at most as many bits as the buffer and at least as
  many as the buffer has more; removals are smaller than the buffer; an unsigned
  difference that wraps is larger than a buffer.  The build has 32 and 24, 1 to 28, and
  2^32.  `UIntAssumption` of `ModuleDecoder` is the last of these for 32 bits.
* `InputsAssumption`, of the module decoder: what is sent on a line are packets whose
  fields have the widths of the code's masks; a data packet has a hit, and its strips,
  one after the other from `channel` on, are bytes.  Which packets are sent, how many,
  in what order and what is flipped of them on the way is left open.
* `WidthsAssumption`, of the checksum: both halves fit a word.  The build has 12
  twice and 32.

Five theorems have a hypothesis of their own.

* `KeepsRejected`: the program keeps what `addFragment` refuses.  The code deletes
  nothing it refuses, so somebody else must; the comment that says the opposite is
  disagreement 1.
* `FewSources`: there are fewer sources than the 8-bit `fragment_count` can count.
  A wrapped count is not the number of fragments, and the summary says it is.  The
  code names four kinds of sources; more than 255 boards would be needed.
* `RangesForward`: not every range of `-e` is backward.  This is disagreement 3.
* `OutputsReadable`: the output file, before the program starts, is readable to its
  end.  What `-a` adds behind a file that is cut short is there, but no reader
  finds it.  An absent or an empty file is readable.
* `InputsPacked`: no header of the input lies inside another, and the `header_size` of
  a fragment is at least the packed size.  Section 2 says what the code does otherwise:
  it would take fields of one header for fields of another.  Without this
  hypothesis the property is false: with a `header_size` too small and bytes that
  repeat, a payload that overlaps its header can be written as the very bytes it was
  read from, though no header is of this build's size.

TLC was used to check that every instance of the runs satisfies the last three, the backward
ranges of `filter_backward` excepted, so that what the runs
check and what is proved is the same property of the same inputs.

### Along which argument

Event building, the header.  None of the invariants is inductive.  `TypeOK` is not preserved by
`Delete` unless the object deleted is not in the event, so `Unshared` (no object
is both held and in the event, or in it twice) goes with it.  The test for the
first fragment reads `fragment_count`, not the map, so `Counted` ties the two: the
count is the number of fragments as long as it has not wrapped.  With
`StatusAccounted` and `IdentityFromFragments` these give `MismatchIffDisagree`:
before a wrap, the event's `bc_id` is always the `bc_id` of one of its fragments,
and when no flag is set all agree on it, so comparing with this one is comparing
with all.  `IInv` is their conjunction.

The proof of preservation goes by the footprint of a step on the event, not by
action: a step leaves the event's fragments and header alone except for flags
(`Quiet`), or adds one fragment (`Added`), or is `Renew`.  Lemma `Footprints`
shows that every step is one of these, and `QuietNext`, `AddedNext` and
`EmptyEvent` treat them.  `Ownership` is a separate invariant on top of `IInv`,
and the only theorem that needs `KeepsRejected`: without it a refused fragment has
no owner.  For the refinement `ContentsInv` adds what the header says of trigger
bits and of sizes (`payload_size` is the sum over the map, `Total`, modulo
`SizeModulus`; a sum of remainders has the remainder of the sum, `ModSums`), and
`HeaderIsSummary` that header and summary are then the same record.

Event building, the bytes.  `Whole`, a part of `ContentsInv`, says that a fragment's
header has the length of its payload, modulo `SizeModulus`; nothing sets one without the
other.  `SizeIsRawLength` holds modulo `SizeModulus` too, and `RoundTrip` is about events whose
bytes, and whose fragments, are fewer than their counters can count.  The rest is about
values, in `DAQFormats_proof`.  The keys of the map, each once and ascending, are a sequence
(`KeysOnce`); `raw()` is the concatenation of the fragments' bytes along it, whose
length is the sum of the sizes in any order (`TotalInOrder`, `FlatLength`).
Reading back: in each round the loop stands before the bytes of the next
fragment, takes exactly those, and files the fragment under a key it has not met
(`LoopOfWritten`), so after `fragment_count` rounds it has the map, and no bytes
are left (`RawOfWrittenEvent`).

`EventFilter`, the selection.  `IInv` has the place in the program, the event that is there exactly at
`select`, and the limit that lies ahead while the program runs.  The mapping reads
the rest of the input to its end, so what must be shown is that reading one event
and then the rest is reading the whole (`ReadingStep`).  A reader makes as many
rounds as there could be headers; it is stuck when an event cannot be read, and
stays stuck, so rounds in excess do not count (`ReadingEnds`), and the rounds for
the rest are those for the whole, one later (`LaterStates`).

`EventFilter`, the output.  `CopyInv` says that, while every copy was exact so far, a
reader of the output gets `copied` and has nothing left.  A step of `WriteEvent` puts
an event behind it.  An event that was laid out as `raw()` does could have been
written by this build (`LoadedIsWritten`), so that its `raw()`, read alone, gives it
again (`RawOfWrittenEvent`); and a file
readable to its end with an event behind it is readable to its end (`ReadingMore`,
by induction over the length of the file, with `ReadingStep`).

`EventFilter`, exact copies.  `PackedInv` carries `InputsPacked` along, and that the
event is what the bytes taken say.  A
walk over the payload shows that the fragments decoded and the bytes left are
the bytes there were (`WalkStart`, `WalkNext`, `WalkEnd`), and of a packed
input `raw()` gives no more bytes for a fragment than were decoded.  If the payload is
laid out as `raw()` does, both concatenate the same (`LaidOutIsCopied`).  Conversely
(`CopiedIsLaidOut`), if `raw()` gives
the bytes that were read, then nothing is left over, no fragment is lost to another
of its source (`TotalOfPart`), and no header was longer than this build's; and reading
what `raw()` wrote gives the fragments in ascending order.

`EventDump`.  `IInv` has the options, which are those the command line asks for
once it is parsed (`Requested`, a recursive function of the arguments), the
part of the current event that is dealt with and harmless (`DealtWith`), the count
as the number of events dealt with, and the limit ahead.  The mapping takes the events before the first that
ends the program (`Before`, `DeadlyIn`); the lemmas say how that first one moves when
an event is taken from the front.

`EventDump`, what is printed.  `ShownInv` says that all fragments carry true labels
(`Labelled`, from `FragmentsAssumption`), and that whatever is shown was printed of
the fragment it is shown with (`PrintOf`).  The two properties are then about the operators.

Of a digitizer, the running location in a column is a count: before a channel, as many
samples have been taken as there are enabled channels below it, times the samples of
each.  So the columns, put together, take all places up to the last, once, in order; and
as the samples sent are put together in the same way, with the same lengths,
each column is the one that was sent.

Of a trigger board, both directions are needed.  What is damaged is refused: no two
formats and versions have the same first word (`HeadersApart`) or a common size
(`SizesApart`), and of the two sizes of the second version of monitoring data the word
taken for the checksum has another frame id (`LastFrames`); a wrong frame id fails
`RightFrame`; and if one word's low bits are changed, the
sums of the two halves stay the same before that word and differ from it on, in
the low bits of the checksum (`SumsApart`), so that one of the words or the checksum
no longer fits.  What is intact is accepted: the copy over the struct is the words sent
(`Copied`), and each row that is printed (`RowShown`), of lines and of counters, for either
size of a version, is the row sent.

`Bitstream`.  The window is the next bits of the data (`Window`), the words left are
the last words of the data in full (`WordsLeft`), and while there are any, the
buffer ends where the next word has been used up to (`Filled`).  Each of the three
ways through `RemoveBits` preserves these together and none alone.  `removed` may run
past the end: then the window is empty.

`ModuleDecoder`.  An event is there whenever the packet loop is past a
preamble; each step leaves it alone, begins one (not on ledx, if led brought one), or adds
to it at the end of lists (`Added`).  This gives `TypeCorrect` and `LedIsKept`, for whatever
bits the two lines have; numbers made of bits are in their ranges (`NumberOf`).

The other three theorems say what is found of the packets that were sent, so they need
where the decoder is in them.  The window is connected first.  The six variables of the
stream satisfy the invariant of `Bitstream_proof`, and its lemmas about the three ways
through `RemoveBits` are used as they stand: the window is the data from `removed + 1`
on (`WordFrom`).  A line is the packets' bits one after the other
(`BitsOf`), so at the beginning of a packet the window begins with its bits (`Inside`), its tag tells its
kind (`Tags`; of no two kinds, for a `Proper` line), and its fields are the numbers sent (`FieldOf`).  Numbers and
digits are inverse to each other (`NumberOf`).
`DecodingInv` then says that a line is decoded up to a packet: n packets of led, m of
ledx, and j hits of the current one have been taken, `removed` is their length, and the hits of each chip
are `HitsOfFirst` of those packets, and so are the errors (`Stage`).  Each action moves
n, m or j by one.  The loop over hits ends at the right one, as a packet
behind it begins with a zero, or is the trailer, and no hit is taken for the trailer,
as some bit behind the first of its sixteen is set (`HitShown`).  The end
is the trailer, or the stream ends early: then fewer than 32 bits are left
(`FullWhileWordsLeft`), which with a trailer of 16 have no room for a data packet,
which has 17, but for error packets of 11.  The header of a line may be damaged, so
`DecodingInv` is stated for `HeadersDamaged` lines, for which `Begun` says with which
identity the event began, if it did.

`TrackerWords`.  Up to the loop's index, all words are in order and let the loop go
on, and the members of the event are functions of those words (`Progress`, `Kept`,
`KeptOfLines`); how the loop ended is one of five cases (`AtEnd`, `AtLoss`,
`AtTrbEnd`, `AtCrc`, `AtUnrecognized`), and only `AtCrc` can be valid.  For `LossFound`: a
valid fragment kept its first and last word, between them the counters advance by
one for each word that arrived and by one for each word sent, so the number of
words lost is a multiple of the cycle.  For `ChangeFound`: both halves of the
checksum are sums with weights (`WeightStep`), the lower half has weight one for
every word, so a change of one word's low bits changes it.

### Means

The provers here cannot instantiate a theorem that takes an operator, the library's
induction theorems among them.  Induction is done with what has no such parameter:
the set of numbers at which a statement holds contains 0 and successors, so all
numbers (`Recursion`, from the least element of its complement); statements about loops are statements about a set of that
kind, or about a function from rounds to states.  A recursive function is a `CHOOSE`, and
its equation holds only if some function satisfies it; the lemmas there build one
for functions on numbers and for folds over sequences and sets, so each fold of the
models (`FoldLeft`, `FlattenSeq`, ...) has its steps as a function
once (`IsNumbering`, `IsPicking`, `IsSumming`, ...), and the
proofs reason about that.

Some operators are opaque to the provers, which shows in the models: `^` (hence
`PowerOf2`, a recursive function), `SelectSeq` (hence `Without` and `OfLine` as
folds) and `SortSeq` (hence `KeysInOrder`).

### Model-checked only

* `Termination` of `EventFilter`, `EventDump` and `ModuleDecoder`: liveness needs
  `ENABLED` and fairness, which are out of the prover's reach.
* The five properties the code violates.

## 6. Not modelled

All the C++ that the programs and decoders run, but for layout, is modelled.
Every invariant, action property and refinement that a passing run checks has its theorem;
only the termination of the three programs has none.

Not modelled:

* `CablingDB`: scripts that fill a conditions database which is not in this
  repository.  They run once, by hand, and most of their lines are literal tables.
* Exceptions and logging, the layout of what is printed, and the text forms
  of options: formatting.
* The example format (an unused template), tests and build files.
* A failing output stream, at which `eventFilter` does not look; memory lost when a
  loading constructor throws; input and output being the same file; payloads of less
  than one word, of which the trigger decoders read a word before they look at the
  size; the static debug flag of the tracker decoder, on which only messages depend.
