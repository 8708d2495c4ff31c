---------------------------- MODULE MCTrackerWords ----------------------------
(***************************************************************************)
(* Instances of TrackerWords for TLC.                                      *)
(***************************************************************************)
EXTENDS TrackerWords, TLC

Plain(k, content)   == [kind |-> k, content |-> content]
ModuleWord(channel, bits) == [kind |-> "module", line |-> <<5, channel>>, content |-> bits]
CrcWord(off)        == Plain("crc", off)      \* off: by how much it is wrong

SomeWords ==
  {Plain("eventid", 9), Plain("bcid", 1), Plain("bcid", 18), CrcWord(0), CrcWord(8),
   Plain("trberror", 3), Plain("moduleerror", 3), Plain("end", 14), Plain("header", 0),
   Plain("trbdata", 0), ModuleWord(0, 1), ModuleWord(0, 62), ModuleWord(1, 3)}

(* The words with their frame counters, from the first one's, and with     *)
(* their checksums.                                                        *)
WithCounters(words, start) ==
  [k \in DOMAIN words |-> words[k] @@ [counter |-> (start + k - 1) % FrameCounterCycle]]

Sealed(words) ==
  [k \in DOMAIN words |->
     IF words[k].kind = "crc"
     THEN [words[k] EXCEPT !.content =
             (@ + ChecksumOf(SubSeq(words, 1, k))) % ContentRange]
     ELSE words[k]]

Numbered(words, start) == Sealed(WithCounters(words, start))

Bodies == UNION {[1..n -> SomeWords] : n \in 0..3}

AnyFragments ==
  {Numbered(head \o body \o tail, 6) :
     head \in {<<>>, <<Plain("eventid", 9)>>, <<Plain("eventid", 9), Plain("bcid", 1)>>},
     body \in Bodies, tail \in {<<>>, <<CrcWord(0)>>}}

(* A good fragment of eleven words: a counter cycle and more. *)
GoodFragments ==
  {Numbered(<<Plain("eventid", 9), Plain("bcid", 1)>>
              \o [k \in 1..8 |-> ModuleWord(k % 2, k * k - 1)] \o <<CrcWord(0)>>, start)
     : start \in {0, 5}}

Intact == [lost |-> {}, changed |-> <<>>]
OnlyLost(positions) == [Intact EXCEPT !.lost = positions]
OnlyChanged(k, content) == [Intact EXCEPT !.changed = k :> content]

(* Words got lost, and the checksum word reads as if they had never been. *)
LostAndFit(words, positions) ==
  LET left == Without(words, positions)
  IN  [lost |-> positions,
       changed |-> Len(words) :> ChecksumOf(left)]

(* Fragments of any words, whole or without their second word, and good    *)
(* ones that lost any words or had one word changed.                       *)
SomeTransmissions ==
  {t \in [sent : AnyFragments, fault : {Intact, OnlyLost({2})}] :
     t.fault.lost \subseteq DOMAIN t.sent}
    \cup {[sent |-> s, fault |-> LostAndFit(s, p)] : s \in GoodFragments, p \in SUBSET (1..11)}
    \cup {[sent |-> s, fault |-> OnlyChanged(k, c)] :
            s \in GoodFragments, k \in 1..11, c \in 0..(ContentRange - 1)}
===============================================================================
