----------------------------- MODULE TableBoxes -----------------------------
(***************************************************************************)
(* The sample table box and the tables of the samples of a track: their    *)
(* times, sizes, places, groups, parts and auxiliary information.          *)
(***************************************************************************)
EXTENDS BoxFields

(* A table after its count, or to the end of the box.                      *)
Table(n, entry) ==
    Codec(<<VersionZero, Counted(4, entry)>>, <<Each(<<2>>, n), N(4 + 4)>>)
TableToEnd(n, entry) ==
    Codec(<<VersionZero, ToEnd(entry)>>, <<Each(<<2>>, n), N(4)>>)

(* sample_count and sample_delta; first_chunk, samples_per_chunk and       *)
(* sample_description_index; sample numbers; shadowed and sync samples.    *)
stts == Table(4 + 4, <<U(4), U(4)>>)
stsc == Table(4 + 4 + 4, <<U(4), U(4), U(4)>>)
stss == Table(4, <<U(4)>>)
stsh == Table(4 + 4, <<U(4), U(4)>>)
stco == Table(4, <<U(4)>>)
co64 == Table(8, <<U(8)>>)
stdp == TableToEnd(2, <<U(2)>>)

(* is_leading, sample_depends_on, sample_is_depended_on and                *)
(* sample_has_redundancy.                                                  *)
sdtp == TableToEnd(1, <<Bits(<<Loose(2), Loose(2), Loose(2), Loose(2)>>)>>)

(* sample_count and sample_offset.                                         *)
ctts == Codec(<<Full({0, 1}, "kept", {}), Counted(4, <<U(4), CompositionOffset>>)>>,
              <<Each(<<2>>, 8), N(4 + 4)>>)

(* The shift, the least and greatest offsets, the start and the end.       *)
cslg == Codec(
    <<Full({0, 1}, "kept", {}),
      WideSigned, WideSigned, WideSigned, WideSigned, WideSigned>>,
    <<VersionLen(0 :> <<N(4 + (5 * 4))>> @@ 1 :> <<N(4 + (5 * 8))>>)>>)

(* One offset, or one for each grouping parameter.                         *)
assp == Codec(
    <<Full({0, 1}, "variant", {}),
      ByVersion(0 :> <<U(4)>> @@ 1 :> <<Counted(4, <<U(4), U(4)>>)>>)>>,
    <<VersionLen(0 :> <<N(4 + 4)>>
                   @@ 1 :> <<Each(<<2, "value", 1>>, 4 + 4), N(4 + 4)>>)>>)

(* The padding bits of two samples in a byte.                              *)
padb == Codec(<<VersionZero, CountedBits(4, <<Pad(1), Loose(3)>>)>>,
              <<EachBits(<<2>>, 4), N(4 + 4)>>)

(* One size and a count, or the size of every sample.                      *)
stsz == Codec(<<VersionZero, ByZero(U(4), <<Counted(4, <<U(4)>>)>>, <<U(4)>>)>>,
              <<ByZeroLen(<<2>>, <<Each(<<1>>, 4), N(4 + 4 + 4)>>, <<N(4 + 4 + 4)>>)>>)

(* Sizes of field_size bits; sizes of 32 bits are read only.               *)
stz2 == Codec(
    <<VersionZero, Zeros(3),
      ByCodeOnly(1, <<4>> :> <<CountedBits(4, <<Loose(4)>>)>>
                      @@ <<8>> :> <<CountedBits(4, <<Loose(8)>>)>>
                      @@ <<16>> :> <<CountedBits(4, <<Loose(16)>>)>>
                      @@ <<32>> :> <<Ruled(Never, Counted(4, <<U(4)>>))>>)>>,
    <<CodeLen(<<3>>, <<4>> :> <<EachBits(<<1>>, 4)>>
                       @@ <<8>> :> <<EachBits(<<1>>, 8)>>
                       @@ <<16>> :> <<EachBits(<<1>>, 16)>>
                       @@ <<32>> :> <<EachBits(<<1>>, 32)>>, <<>>),
      N(4 + 4 + 4)>>)

----------------------------------------------------------------------------
(* Auxiliary information of the samples, whose type is there by flag 0:    *)
(* its sizes, one for all or one for each, and its offsets.                *)

AuxInfoType == When(0, <<U(4), U(4)>>)
SizeWidths == <<1, 2, 4>>
saiz == Codec(
    <<Full({0, 1, 2}, "kept", {}), AuxInfoType,
      ByZero(WideBy(SizeWidths), <<Counted(4, <<WideBy(SizeWidths)>>)>>, <<U(4)>>)>>,
    <<ByZeroLen(<<3>>, <<EachWide(<<1>>, SizeWidths)>>, <<>>), Each(<<2>>, 8), N(4),
      VersionLen([v \in 0 .. 2 |-> <<N(SizeWidths[v + 1])>>]), N(4)>>)
saio == Codec(
    <<Full({0, 1}, "kept", {}), AuxInfoType, Counted(4, <<Wide(4, 8)>>)>>,
    <<EachWide(<<3>>, <<4, 8>>), Each(<<2>>, 8), N(4), N(4)>>)

----------------------------------------------------------------------------
(* Sub-samples: whether one may be discarded, its priority and its         *)
(* codec-specific parameters of csp_length_minus_1 + 1 bytes.              *)

Priority == 105
Parameters == 104
DescriptionParts ==
    <<When(Priority, <<U(1)>>), When(Parameters, <<SizedBy("csp", 1, 4)>>)>>
SubSampleDescription(first, last) ==
    <<Bits(first \o <<B(1), Present(Priority), Present(Parameters), Named("csp", 2),
                      Pad(last)>>)>> \o DescriptionParts
SubSampleDescriptionLen(csp) ==
    <<Each(<<2>>, 1), PerSized(<<3>>, <<1, csp>>, 1), N(1)>>

(* A table of descriptions, with a count of seven bits or of fifteen.      *)
ShortDescriptions == CountedIn(<<Ones(1)>>, 7, 0, 0, SubSampleDescription(<<>>, 3))
LongDescriptions == CountedIn(<<Pad(1)>>, 15, 0, 0, SubSampleDescription(<<>>, 3))
ssrt == Codec(
    <<VersionZeroFlags, Peeked(<<ShortDescriptions>>, <<LongDescriptions>>)>>,
    <<EitherLen(<<2>>,
        <<Per(<<1, "entries">>, SubSampleDescriptionLen(4)), N(4 + 1)>>,
        <<Per(<<1, "entries">>, SubSampleDescriptionLen(4)), N(4 + 2)>>)>>)

(* The parts of each sample: priority, discardable and parameters up to    *)
(* version 1; a reference into the table or a description in version 2,    *)
(* where two bits give the width of the sizes and of the references.       *)
Size16 == 107
ShortRef == 106
SubSampleExplicit == <<U(1), U(1), U(4)>>
SubSampleTable(size, properties) == <<U(4), Counted(2, <<size>> \o properties)>>
Reference ==
    ByFlag(ShortRef, <<Bits(<<Ones(1), Loose(7)>>)>>, <<Bits(<<Ones(1), Loose(15)>>)>>)
subs == Codec(
    <<Full({0, 1, 2}, "variant", AllFlags),
      ByVersion(
        0 :> <<Counted(4, SubSampleTable(Narrow(2, 4), SubSampleExplicit))>>
          @@ 1 :> <<Counted(4, SubSampleTable(U(4), SubSampleExplicit))>>
          @@ 2 :> <<CountedAcross(4,
                      <<Bits(<<KeptBit(Size16), KeptBit(ShortRef), Pad(6)>>)>>,
                      SubSampleTable(
                        ByFlag(Size16, <<Narrow(2, 4)>>, <<U(4)>>),
                        <<Peeked(<<Reference>>, SubSampleDescription(<<Pad(1)>>, 2))>>))>>)>>,
    <<VersionLen(
        0 :> <<Per(<<2, "value", 1>>, <<Each(<<2>>, 2 + 1 + 1 + 4), N(4 + 2)>>), N(4 + 4)>>
          @@ 1 :> <<Per(<<2, "value", 1>>, <<Each(<<2>>, 4 + 1 + 1 + 4), N(4 + 2)>>),
                    N(4 + 4)>>
          @@ 2 :> <<Per(<<2, "value", 1, "rows">>,
                        <<Per(<<2>>,
                              <<FlagLen(Size16, <<N(2)>>, <<N(4)>>),
                                EitherLen(<<2>>,
                                          <<FlagLen(ShortRef, <<N(1)>>, <<N(2)>>)>>,
                                          SubSampleDescriptionLen(5))>>),
                          N(4 + 2)>>), N(4 + 4 + 1)>>)>>)

----------------------------------------------------------------------------
(* Sample groups: how many samples are of which group, with a parameter    *)
(* from version 1 on.                                                      *)

sbgp == Codec(
    <<Full({0, 1}, "variant", {}),
      ByVersion(0 :> <<U(4), Counted(4, <<U(4), U(4)>>)>>
                  @@ 1 :> <<U(4), U(4), Counted(4, <<U(4), U(4)>>)>>)>>,
    <<VersionLen(0 :> <<Each(<<2, "value", 2>>, 8), N(4 + 4 + 4)>>
                   @@ 1 :> <<Each(<<2, "value", 3>>, 8), N(4 + 4 + 4 + 4)>>)>>)

(* Patterns of groups that repeat, of the widths the flags say.            *)
csgp == Codec(
    <<Full({0}, "zero", (0 .. 5) \cup {7}), U(4), When(6, <<U(4)>>), Patterns>>,
    <<PatternsLen(<<4>>), Each(<<3>>, 4), N(4 + 4 + 4)>>)

(* The description of a group by its grouping_type, as the bytes of its    *)
(* name: roll, prol, rash, alst, rap, tele, sap, stmi, drap, pasr, casg,   *)
(* edrp, esgh and it35.                                                    *)
Roll == <<114, 111, 108, 108>>
Prol == <<112, 114, 111, 108>>
Rash == <<114, 97, 115, 104>>
Alst == <<97, 108, 115, 116>>
Rap == <<114, 97, 112, 32>>
Tele == <<116, 101, 108, 101>>
Sap == <<115, 97, 112, 32>>
Stmi == <<115, 116, 109, 105>>
Drap == <<100, 114, 97, 112>>
Pasr == <<112, 97, 115, 114>>
Casg == <<99, 97, 115, 103>>
Edrp == <<101, 100, 114, 112>>
Esgh == <<101, 115, 103, 104>>
It35 == <<105, 116, 51, 53>>
OtherGroup == <<33, 33, 33, 33>>

(* The shares of a rate: of one operation point, or of several in order.   *)
RateShare ==
    <<PeekedBytes(<<0, 1>>, <<Const(<<0, 1>>), U(2)>>,
                  <<Ruled(OperationPoints, Counted(2, <<U(4), U(2)>>))>>),
      U(4), U(4), U(1)>>
RateShareLen ==
    <<EitherLen(<<1>>, <<N(2)>>, <<Each(<<1>>, 6)>>), N(2 + 4 + 4 + 1)>>

(* roll_count, first_output_sample, the offsets, and pieces to the end.    *)
AlternativeStartup ==
    <<CountedAcross(2, <<U(2)>>, <<U(4)>>), ToEnd(<<U(2), U(2)>>)>>
AlternativeStartupLen == <<Each(<<1, "rows">>, 4), Each(<<2>>, 4), N(2 + 2)>>

VisualRandomAccess == <<Bits(<<B(1), Loose(7)>>)>>
SapEntry == <<Bits(<<B(1), Pad(3), Among(1 .. 6, 4)>>)>>
VisualDrap == <<Bits(<<Among(1 .. 3, 3), Exactly(29)>>)>>
VisualEdrap == <<CountedIn(<<Among(1 .. 3, 3)>>, 3, 1, 2, <<U(2)>>)>>

GroupEntry ==
    Roll :> <<Ruled(NonZero, U(2))>>
      @@ Prol :> <<Ruled(Positive, U(2))>>
      @@ Rash :> RateShare
      @@ Alst :> AlternativeStartup
      @@ Rap :> VisualRandomAccess
      @@ Tele :> <<Bits(<<B(1), Pad(7)>>)>>
      @@ Sap :> SapEntry
      @@ Stmi :> <<U(4), Counted(4, <<U(4)>>)>>
      @@ Drap :> VisualDrap
      @@ Pasr :> <<U(4), U(4)>>
      @@ Casg :> [i \in 1 .. 8 |-> U(4)]
      @@ Edrp :> VisualEdrap
      @@ Esgh :> <<Counted(4, <<U(4)>>)>>
      @@ It35 :> <<Bits(<<B(1), Pad(7)>>), Rest>>
GroupEntryLen ==
    Roll :> <<N(2)>> @@ Prol :> <<N(2)>> @@ Rash :> RateShareLen
      @@ Alst :> AlternativeStartupLen
      @@ Rap :> <<N(1)>> @@ Tele :> <<N(1)>> @@ Sap :> <<N(1)>>
      @@ Stmi :> <<Each(<<2>>, 4), N(4 + 4)>>
      @@ Drap :> <<N(4)>> @@ Pasr :> <<N(8)>> @@ Casg :> <<N(32)>>
      @@ Edrp :> <<Each(<<1, "entries">>, 2), N(1)>>
      @@ Esgh :> <<Each(<<1>>, 4), N(4)>>
      @@ It35 :> <<Each(<<2>>, 1), N(1)>>

(* An entry that runs to its end has none without a length.                *)
Groupings == DOMAIN GroupEntry \cup {OtherGroup}
Unstated == [type \in DOMAIN GroupEntry \ {Alst, It35} |-> GroupEntry[type]]
GroupingType == Code("grouping", 4, Groupings)
GroupEntries ==
    Counted(4, <<InPart("default", "grouping", Groupings, GroupEntry)>>)
EntryLen == NamedLen(<<1>>, "grouping", GroupEntryLen, <<Each(<<1>>, 1)>>)
StatedLen == ZeroLen("default", <<N(4)>>, <<>>)

(* In version 0 the entries follow each other; later each is of the        *)
(* default length, or of the one before it; esgh is written in version 3.  *)
sgpd == Codec(
    <<Full({0, 1, 2, 3}, "variant", {0, 1}),
      ByVersion(
        0 :> <<Ruled(NotCode(Esgh), GroupingType),
               Counted(4, <<ByNamed("grouping", Groupings, Unstated)>>)>>
          @@ 1 :> <<Ruled(NotCode(Esgh), GroupingType), Known("default", 4), GroupEntries>>
          @@ 2 :> <<Ruled(NotCode(Esgh), GroupingType), Known("default", 4), U(4),
                    GroupEntries>>
          @@ 3 :> <<GroupingType, Known("default", 4), U(4), GroupEntries>>)>>,
    <<VersionLen(
        0 :> <<Per(<<2, "value", 2>>, <<EntryLen>>), N(4 + 4 + 4)>>
          @@ 1 :> <<Per(<<2, "value", 3>>, <<EntryLen, StatedLen>>), N(4 + 4 + 4 + 4)>>
          @@ 2 :> <<Per(<<2, "value", 4>>, <<EntryLen, StatedLen>>),
                    N(4 + 4 + 4 + 4 + 4)>>)>>)

----------------------------------------------------------------------------
(* The tables of a track: one of times, of chunks, of sizes and of offsets *)
(* is there only with the others.                                          *)
stbl == Codec(
    <<Ruled(AllOrNone({2, 5, 6, 7}),
        Children(<<One("stsd"), Opt("stts"), OptIfDecoded("ctts"), OptIfDecoded("cslg"),
                   Opt("stsc"), OptOf({"stsz", "stz2"}), OptOf({"stco", "co64"}),
                   OptIfDecoded("stss"), OptIfDecoded("stsh"), OptIfDecoded("padb"),
                   OptIfDecoded("stdp"), OptIfDecoded("sdtp"), ManyIfDecoded("sbgp"),
                   ManyIfDecoded("csgp"), ManyIfDecoded("sgpd"), ManyIfDecoded("subs"),
                   ManyIfDecoded("ssrt"), ManyIfDecoded("saiz"),
                   ManyIfDecoded("saio")>>))>>,
    <<ChildrenLen(<<1>>)>>)

TableCodecs ==
    "stts" :> stts @@ "stsc" :> stsc @@ "stss" :> stss @@ "stsh" :> stsh
      @@ "stco" :> stco @@ "co64" :> co64 @@ "stdp" :> stdp @@ "sdtp" :> sdtp
      @@ "ctts" :> ctts @@ "cslg" :> cslg @@ "assp" :> assp @@ "padb" :> padb
      @@ "stsz" :> stsz @@ "stz2" :> stz2 @@ "saiz" :> saiz @@ "saio" :> saio
      @@ "ssrt" :> ssrt @@ "subs" :> subs @@ "sbgp" :> sbgp @@ "csgp" :> csgp
      @@ "sgpd" :> sgpd @@ "stbl" :> stbl

=============================================================================
