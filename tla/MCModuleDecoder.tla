---------------------------- MODULE MCModuleDecoder ----------------------------
(***************************************************************************)
(* Instances of ModuleDecoder for TLC.                                     *)
(***************************************************************************)
EXTENDS ModuleDecoder, TLC

Header(bcid) == [kind |-> "header", l1id |-> 5, bcid |-> bcid]
NoData       == [kind |-> "nodata"]
TrailerOf    == [kind |-> "trailer"]
DataOf(c, ch, hits) == [kind |-> "data", chip |-> c, channel |-> ch, hits |-> hits]
ErrorOf(c, err)     == [kind |-> "error", chip |-> c, err |-> err]
ConfigOf(c)         == [kind |-> "config", chip |-> c, conf1 |-> 5, conf2 |-> 130]

(* One hit, two hits of which the second is on the strip behind the last,  *)
(* one of an unknown chip; errors of a known and of an unknown chip.       *)
SomePackets ==
  {NoData, DataOf(0, 5, <<2>>), DataOf(9, 127, <<0, 1>>), DataOf(7, 0, <<1>>),
   ErrorOf(0, 0), ErrorOf(0, 3), ErrorOf(14, 7), ConfigOf(1)}

Bodies(n) == UNION {[1..k -> SomePackets] : k \in 0..n}
LineOf(bcid, body) == <<Header(bcid)>> \o body \o <<TrailerOf>>

Pair(led, ledx) == (0 :> led) @@ (1 :> ledx)

ProperInputs ==
  {[sent |-> Pair(LineOf(129, b), LineOf(129, d)), flips |-> {}] :
     b \in Bodies(2), d \in Bodies(1)}
  \cup {[sent |-> Pair(LineOf(129, b), LineOf(130, d)), flips |-> {}] :
     b \in Bodies(1), d \in Bodies(2)}

(* A line with most kinds of packets, and others to pair it with. *)
LongLine == LineOf(129, <<DataOf(0, 5, <<2, 4>>), NoData, ErrorOf(1, 3), DataOf(3, 9, <<1>>)>>)
ShortLine == LineOf(129, <<DataOf(8, 64, <<1>>)>>)
SpareLines == {<<>>, <<Header(129)>>, <<TrailerOf>>, LineOf(129, <<>>),
               <<Header(129), DataOf(8, 3, <<1>>), Header(130), DataOf(9, 3, <<1>>)>>,
               <<Header(129), ConfigOf(2), NoData>>,
               <<NoData, Header(130), DataOf(0, 1, <<1, 1>>), TrailerOf>>}

FlipSets ==
  {{}} \cup {{<<line, i>>} : line \in {0, 1}, i \in 1..100}
       \cup {{<<0, i>>, <<0, i + 1>>} : i \in 1..50}

Sendings ==
  {Pair(LongLine, ShortLine), Pair(ShortLine, LongLine)}
    \cup {Pair(ShortLine, s) : s \in SpareLines} \cup {Pair(s, ShortLine) : s \in SpareLines}

DamagedInputs ==
  {i \in [sent : Sendings, flips : FlipSets] :
     \A f \in i.flips : f[2] <= Len(LineBits(i.sent[f[1]]))}

LinePairs == ProperInputs \cup DamagedInputs

DifferentCrossings ==
  {[sent |-> Pair(LineOf(129, <<NoData>>), LineOf(130, <<NoData>>)), flips |-> {}]}
===============================================================================
