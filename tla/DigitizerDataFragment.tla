------------------------- MODULE DigitizerDataFragment -------------------------
(***************************************************************************)
(* The decoder of the digitizer (DigitizerDataFragment.hpp).  A payload is *)
(* [size, words]: its bytes and its complete words, four of a header and   *)
(* then words of two samples, for each enabled channel equally many:       *)
(*   [event_size]   words of the payload, as the board counts them         *)
(*   [channels, info]       enabled ones of channels 0 to 7                *)
(*   [channels, counter]    enabled ones of channels 8 to 15               *)
(*   [time]                                                                *)
(*   [low, high]            two samples, the earlier one in the low half   *)
(***************************************************************************)
EXTENDS Integers, Sequences, SequencesExt, FiniteSets

HeaderWords == 4
Channels == 0..15         \* N_MAX_CHAN of them

(* The 16-bit mask has its halves in two words. *)
ChannelMask(words) == words[2].channels \cup words[3].channels

(* The samples of the words from start on, for one channel. *)
SamplesSwapped(words, start, count) ==      \* Defect: the high half first.
  FlattenSeq([n \in 1..count |-> <<words[start + n].high, words[start + n].low>>])

Samples(words, start, count) ==
  FlattenSeq([n \in 1..count |-> <<words[start + n].low, words[start + n].high>>])

(* Words before those of a channel: each enabled channel below it moved    *)
(* the location on.                                                        *)
StartLocation(mask, channel, words_per_channel) ==
  HeaderWords + Cardinality({c \in mask : c < channel}) * words_per_channel

Decoded(payload) ==
  LET words == payload.words
      mask  == ChannelMask(words)
      words_per_channel == (words[1].event_size - HeaderWords) \div Cardinality(mask)
  IN  [header     |-> SubSeq(words, 1, HeaderWords),
       channels   |-> mask,
       n_samples  |-> 2 * words_per_channel,
       adc_counts |-> [c \in Channels |->
                         IF c \in mask
                         THEN Samples(words, StartLocation(mask, c, words_per_channel),
                                      words_per_channel)
                         ELSE <<>>]]

(* The constructor throws: no header, another size than the header says,   *)
(* words that do not divide by channels.                                   *)
TooShort(payload) == payload.size < 4 * HeaderWords
OtherSize(payload) == payload.words[1].event_size * 4 # payload.size
Indivisible(payload) ==
  (payload.words[1].event_size - HeaderWords) % Cardinality(ChannelMask(payload.words)) # 0

(* It divides by the number of enabled channels. *)
DividesByZero(payload) ==
  ~TooShort(payload) /\ ~OtherSize(payload) /\ ChannelMask(payload.words) = {}

DigitizerThrows(payload) ==
  \/ TooShort(payload)
  \/ /\ ~TooShort(payload)
     /\ \/ OtherSize(payload)
        \/ ChannelMask(payload.words) # {} /\ Indivisible(payload)

(* valid(), and the getters it calls, for channels whose entry exists. *)
DigitizerValid(f) == \A c \in f.channels : Len(f.adc_counts[c]) = f.n_samples

(* operator<<: header fields, then a line per sample with a column per     *)
(* channel, empty for the others.                                          *)
DigitizerPrint(f) ==
  [header |-> f.header,
   lines  |-> [n \in 1..f.n_samples |->
                 [c \in Channels |-> IF c \in f.channels THEN {f.adc_counts[c][n]} ELSE {}]]]

===============================================================================
