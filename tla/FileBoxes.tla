------------------------------ MODULE FileBoxes -----------------------------
(***************************************************************************)
(* The boxes at the top of a file, those that say what a file, a segment   *)
(* or a track conforms to, those of movie fragments, and the metadata of a *)
(* file, a movie or a track: its items, where they lie, their properties,  *)
(* what refers to what, and the groups of entities.                        *)
(***************************************************************************)
EXTENDS BoxFields

(* major_brand, minor_version and the compatible brands to the end.        *)
GeneralType == Codec(<<U(4), U(4), ToEnd(<<U(4)>>)>>, <<Each(<<3>>, 4), N(4 + 4)>>)
ftyp == GeneralType
styp == GeneralType
ttyp == GeneralType
brnd == GeneralType

(* A combination of brands, and the combinations a file conforms to.       *)
tyco == Codec(<<ToEnd(<<U(4)>>)>>, <<Each(<<1>>, 4)>>)
etyp == Container(<<Needed(Many("tyco"))>>)

(* The type of the file this one is made from.                             *)
otyp == Container(<<One("ftyp"), OptIfDecoded("etyp")>>)

(* Bytes that are kept as they are, after an identifier in imda.           *)
FreeSpace == Codec(<<Rest>>, <<Each(<<1>>, 1)>>)
mdat == FreeSpace
idat == FreeSpace
imda == Codec(<<U(4), Rest>>, <<Each(<<2>>, 1), N(4)>>)

(* The initial delays at download rates.                                   *)
pdin == Codec(<<VersionZero, ToEnd(<<U(4), U(4)>>)>>, <<Each(<<2>>, 8), N(4)>>)

(* The time of a producer at a media time of a track.                      *)
prft == Codec(<<Full({0, 1}, "kept", AllFlags), U(4), U(8), Wide(4, 8)>>,
              <<VersionLen(0 :> <<N(4 + 4 + 8 + 4)>> @@ 1 :> <<N(4 + 4 + 8 + 8)>>)>>)

(* The subsegments: their type and size, their duration and how they start *)
(* with a stream access point.                                             *)
SegmentIndexReference ==
    <<Bits(<<B(1), Loose(31)>>), U(4), Bits(<<B(1), Loose(3), Loose(28)>>)>>
sidxShort == Codec(    \* a slip: announced as long as version 0
    <<Full({0, 1}, "kept", {}), U(4), U(4), Wide(4, 8), Wide(4, 8), Zeros(2),
      Counted(2, SegmentIndexReference)>>,
    <<Each(<<7>>, 4 + 4 + 4),
      VersionLen(0 :> <<N(4 + 4 + 4 + 4 + 4 + 2 + 2)>>
                   @@ 1 :> <<N(4 + 4 + 4 + 4 + 4 + 2 + 2)>>)>>)
sidx == Codec(
    <<Full({0, 1}, "kept", {}), U(4), U(4), Wide(4, 8), Wide(4, 8), Zeros(2),
      Counted(2, SegmentIndexReference)>>,
    <<Each(<<7>>, 4 + 4 + 4),
      VersionLen(0 :> <<N(4 + 4 + 4 + 4 + 4 + 2 + 2)>>
                   @@ 1 :> <<N(4 + 4 + 4 + 8 + 8 + 2 + 2)>>)>>)

(* The levels of the ranges of every subsegment: at least one subsegment,  *)
(* of at least two ranges each.                                            *)
ssix == Codec(
    <<VersionZero,
      Ruled(AtLeast(1),
            Counted(4, <<Ruled(AtLeast(2),
                               Counted(4, <<U(1), Bits(<<Loose(24)>>)>>))>>))>>,
    <<Per(<<2>>, <<Each(<<1>>, 4), N(4)>>), N(4 + 4)>>)

(* How the levels are assigned, after a bit of padding_flag: by a sample   *)
(* group without or with a parameter, by track (2 and 3) or by sub track.  *)
Assignments ==
    0 :> <<U(4)>> @@ 1 :> <<U(4), U(4)>> @@ 2 :> NoFields @@ 3 :> NoFields
      @@ 4 :> <<U(4)>>
WithPadding(of) == [code \in {<<a>> : a \in 0 .. 4} \cup {<<128 + a>> : a \in 0 .. 4}
                        |-> of[code[1] % 128]]
leva == Codec(
    <<VersionZero,
      Ruled(AtLeast(2), Counted(1, <<U(4), ByCodeOnly(1, WithPadding(Assignments))>>))>>,
    <<Per(<<2>>, <<CodeLen(<<2>>,
        WithPadding([a \in 0 .. 4 |->
            <<N(CASE a \in {0, 4} -> 4 + 1 + 4
                  [] a = 1 -> 4 + 1 + 4 + 4
                  [] a \in {2, 3} -> 4 + 1)>>]), <<>>)>>), N(4 + 1)>>)

FileCodecs ==
    "ftyp" :> ftyp @@ "styp" :> styp @@ "ttyp" :> ttyp @@ "brnd" :> brnd
      @@ "tyco" :> tyco @@ "etyp" :> etyp @@ "otyp" :> otyp @@ "mdat" :> mdat
      @@ "idat" :> idat @@ "free" :> FreeSpace @@ "skip" :> FreeSpace
      @@ "imda" :> imda @@ "pdin" :> pdin @@ "prft" :> prft @@ "sidx" :> sidx
      @@ "ssix" :> ssix @@ "leva" :> leva

----------------------------------------------------------------------------
(* The boxes of movie fragments: what the movie says of them, the          *)
(* fragments themselves, and the random access to them.                    *)

(* The dependencies of a sample, its padding, whether it is no sync sample *)
(* and its degradation priority.                                           *)
SampleFlags ==
    Bits(<<Pad(4), Loose(2), Loose(2), Loose(2), Loose(2), Loose(3), B(1), B(16)>>)

mvex == Container(<<OptIfDecoded("mehd"), Some("trex"), OptIfDecoded("leva"),
                    ManyIfDecoded("trep")>>)

(* A time of 8 bytes in version 1.                                         *)
OneTime == Codec(<<Full({0, 1}, "kept", {}), Wide(4, 8)>>,
                 <<VersionLen(0 :> <<N(4 + 4)>> @@ 1 :> <<N(4 + 8)>>)>>)
mehd == OneTime
tfdt == OneTime

(* The defaults of a track, whose duration cannot be zero where flag 0     *)
(* says that it is an estimate of the frame rate.                          *)
trex == Ruled(FrameRateEstimate,
    Codec(<<Full({0}, "zero", {0}), U(4), U(4), U(4), U(4), SampleFlags>>,
          <<N(4 + (4 * 5))>>))
trep == Codec(<<VersionZero, U(4), Children(<<OptIfDecoded("cslg"), OptIfDecoded("assp")>>)>>,
              <<N(4 + 4), ChildrenLen(<<3>>)>>)

moof == Codec(
    <<ChildrenAround(<<One("mfhd"), OptIfDecoded("meta"), ManyIfDecoded("traf")>>,
                     <<ManyIfDecoded("udta")>>)>>,
    <<ChildrenLen(<<1>>)>>)
mfhd == Codec(<<VersionZero, U(4)>>, <<N(4 + 4)>>)
traf == Codec(
    <<ChildrenAround(
        <<One("tfhd"), OptIfDecoded("tfdt"), ManyIfDecoded("trun"), ManyIfDecoded("sbgp"),
          ManyIfDecoded("csgp"), ManyIfDecoded("sgpd"), ManyIfDecoded("subs"),
          ManyIfDecoded("saiz"), ManyIfDecoded("saio"), OptIfDecoded("meta"),
          OptIfDecoded("rsot")>>,
        <<ManyIfDecoded("udta")>>)>>,
    <<ChildrenLen(<<1>>)>>)

(* The base data offset and the defaults, each when its flag is set;       *)
(* duration-is-empty and default-base-is-moof are flags that are kept.     *)
tfhd == Codec(
    <<Full({0}, "zero", {16, 17}), U(4), When(0, <<U(8)>>), When(1, <<U(4)>>),
      When(3, <<U(4)>>), When(4, <<U(4)>>), When(5, <<SampleFlags>>)>>,
    <<Each(<<3>>, 8), Each(<<4>>, 4), Each(<<5>>, 4), Each(<<6>>, 4), Each(<<7>>, 4),
      N(4 + 4)>>)

(* The data offset and the flags of the first sample stand between the     *)
(* count and the rows; a row has the fields that flags 8 to 11 say all the *)
(* same.  The first sample has no flags of its own where the rows do.      *)
RowFlags == {8, 9, 10, 11}
TrackRunSample ==
    <<When(8, <<U(4)>>), When(9, <<U(4)>>), When(10, <<SampleFlags>>),
      When(11, <<CompositionOffset>>)>>
trun == Ruled(FlagsTwice,
    Codec(<<Knowing({0, 2} \cup RowFlags, Full({0, 1}, "kept", {})),
            Rows(4, <<When(0, <<U(4)>>), When(2, <<SampleFlags>>)>>, RowFlags,
                 TrackRunSample)>>,
          <<Each(<<2, "between", 1>>, 4), Each(<<2, "between", 2>>, 4),
            Per(<<2, "rows">>, [part \in 1 .. 4 |-> Each(<<part>>, 4)]), N(4 + 4)>>))

(* The time a redundant sample starts and how long it has.                 *)
rsot == Codec(
    <<Full({0}, "zero", {}), When(0, <<Ruled(NonZero, U(4))>>), When(1, <<U(4)>>)>>,
    <<Each(<<2>>, 4), Each(<<3>>, 4), N(4)>>)

mfra == Codec(<<ChildrenAround(<<ManyIfDecoded("tfra")>>, <<One("mfro")>>)>>,
              <<ChildrenLen(<<1>>)>>)
mfro == Codec(<<VersionZero, U(4)>>, <<N(4 + 4)>>)

(* Entries of a time and the offset of a fragment, and the numbers of the  *)
(* track fragment, the run and the sample, of one to four bytes each.      *)
tfra == Codec(
    <<Full({0, 1}, "kept", {}), U(4),
      Bits(<<Pad(26), Named("traf", 2), Named("trun", 2), Named("sample", 2)>>),
      Counted(4, <<Wide(4, 8), Wide(4, 8), SizedBy("traf", 1, 4), SizedBy("trun", 1, 4),
                   SizedBy("sample", 1, 4)>>)>>,
    <<EachWide(<<4>>, <<8, 16>>), Widths(<<4>>, {"traf", "trun", "sample"}), Each(<<4>>, 3),
      N(4 + 4 + 4 + 4)>>)

FragmentCodecs ==
    "mvex" :> mvex @@ "mehd" :> mehd @@ "trex" :> trex @@ "trep" :> trep
      @@ "moof" :> moof @@ "mfhd" :> mfhd @@ "traf" :> traf @@ "tfhd" :> tfhd
      @@ "tfdt" :> tfdt @@ "trun" :> trun @@ "rsot" :> rsot @@ "mfra" :> mfra
      @@ "mfro" :> mfro @@ "tfra" :> tfra

-------------------------------------------------------------------------------

meta == Codec(
    <<VersionZero,
      Children(<<OptIfDecoded("hdlr"), OptIfDecoded("dinf"), OptIfDecoded("iloc"),
                 OptIfDecoded("ipro"), OptIfDecoded("iinf"),
                 OptOfIfDecoded({"xml ", "bxml"}), OptIfDecoded("pitm"),
                 OptIfDecoded("fiin"), OptIfDecoded("idat"), OptIfDecoded("iref"),
                 OptIfDecoded("iprp"), OptIfDecoded("grpl")>>)>>,
    <<N(4), ChildrenLen(<<2>>)>>)

XmlBox == Codec(<<VersionZero, UtfToEnd>>, <<UtfLen(<<2>>), N(4)>>)
BinaryXmlBox == Codec(<<VersionZero, Rest>>, <<Each(<<2>>, 1), N(4)>>)
pitm == Codec(<<Full({0, 1}, "kept", {}), Wide(2, 4)>>,
              <<VersionLen(0 :> <<N(4 + 2)>> @@ 1 :> <<N(4 + 4)>>)>>)

(* As many schemes as the box counts.                                      *)
ipro == Codec(<<VersionZero, CountedChildren(2, <<Many("sinf")>>)>>,
              <<ChildrenLen(<<2>>), N(4 + 2)>>)

----------------------------------------------------------------------------
(* The items: every box of the list is an entry, of the version it says.   *)

iinf == Codec(
    <<Full({0, 1}, "kept", {}),
      CountedBoxes(<<2, 4>>, OwnCodecs({"infe"}), NoCodec, TRUE, FALSE)>>,
    <<BoxesLen(<<2>>), VersionLen(0 :> <<N(4 + 2)>> @@ 1 :> <<N(4 + 4)>>)>>)

Mime == <<109, 105, 109, 101>>
Uri == <<117, 114, 105, 32>>
Fdel == <<102, 100, 101, 108>>

FdItemInfoExtension == <<Str, Str, U(8), U(8), Counted(1, <<U(4)>>)>>
ItemInfoExtension == Unchecked(ByCode(4, Fdel :> FdItemInfoExtension, <<Rest>>))
ExtensionLen ==
    CodeLen(<<1>>, Fdel :> <<StrLen(<<1>>), StrLen(<<2>>), Each(<<5>>, 4), N(4 + 8 + 8 + 1)>>,
            <<Each(<<1>>, 1), N(4)>>)

(* An extension is read only after a content encoding.                     *)
ItemType ==
    ByVersion(
      0 :> <<Str, Str, IfAny(<<Str>>)>>
        @@ 1 :> <<Str, Str, IfAny(<<Str, IfLeft(4, <<ItemInfoExtension>>)>>)>>
        @@ [version \in {2, 3} |->
              <<Unchecked(ByCode(4,
                  Mime :> <<Str, Str, IfAny(<<Str>>)>> @@ Uri :> <<Str, Str>>,
                  <<Str, Rest>>))>>])
infe == Codec(
    <<Full(0 .. 3, "kept", AllFlags), WideBy(<<2, 2, 2, 4>>), U(2), ItemType>>,
    <<VersionLen(
        0 :> <<StrLen(<<4, "value", 1>>), StrLen(<<4, "value", 2>>),
               Per(<<4, "value", 3>>, <<StrLen(<<1>>)>>), N(4 + 2 + 2)>>
          @@ 1 :> <<StrLen(<<4, "value", 1>>), StrLen(<<4, "value", 2>>),
                    Per(<<4, "value", 3>>, <<StrLen(<<1>>), Per(<<2>>, <<ExtensionLen>>)>>),
                    N(4 + 2 + 2)>>
          @@ [version \in {2, 3} |->
                <<CodeLen(<<4, "value", 1>>,
                    Mime :> <<StrLen(<<1>>), StrLen(<<2>>), Per(<<3>>, <<StrLen(<<1>>)>>)>>
                      @@ Uri :> <<StrLen(<<1>>), StrLen(<<2>>)>>,
                    <<StrLen(<<1>>), Each(<<2>>, 1)>>),
                  N((IF version = 2 THEN 4 + 2 + 2 ELSE 4 + 4 + 2) + 4)>>])>>)

----------------------------------------------------------------------------
(* Where the items lie, in numbers of the widths the box says; the index   *)
(* and the method are not there in version 0.                              *)

ItemLocationExtent(widths, parts) ==
    CountedOf(widths, 2, [i \in 1 .. Len(parts) |-> Sized(parts[i])])
Parts(version) ==
    IF version = 0 THEN <<"offset", "length">> ELSE <<"index", "offset", "length">>
ConstructionMethod == Bits(<<Pad(12), UpTo(2, 4)>>)
Placed(version) ==    \* after the method
    <<U(2), Sized("base"), ItemLocationExtent(ToSet(Parts(version)), Parts(version))>>
ItemLocation(version) ==
    IF version = 0 THEN <<U(2)>> \o Placed(0)
    ELSE <<U(IF version = 2 THEN 4 ELSE 2), ConstructionMethod>> \o Placed(version)
Sizes(version) ==
    Bits(<<Size("offset"), Size("length"), Size("base"),
           IF version = 0 THEN Pad(4) ELSE Size("index")>>)

Items == <<2, "value", 2>>
ItemLocationLen(version) ==
    <<Each(Items, CASE version = 0 -> 2 + 2 + 2
                             [] version = 1 -> 2 + 2 + 2 + 2
                             [] version = 2 -> 4 + 2 + 2 + 2),
      Widths(Items, {"base"}),
      Per(Items,
          <<Widths(<<IF version = 0 THEN 4 ELSE 5>>, ToSet(Parts(version)))>>),
      N(IF version = 2 THEN 4 + 2 + 4 ELSE 4 + 2 + 2)>>
iloc == Codec(
    <<Full(0 .. 2, "kept", {}),
      ByVersion([version \in 0 .. 2 |->
        <<Sizes(version),
          Counted(IF version = 2 THEN 4 ELSE 2, ItemLocation(version))>>])>>,
    <<VersionLen([version \in 0 .. 2 |-> ItemLocationLen(version)])>>)

----------------------------------------------------------------------------
(* The properties, and which of them an item has; the indices are of 15    *)
(* bits when flag 0 is set.                                                *)

ipco == Codec(<<BoxList(OwnCodecs({"brnd", "hdlp", "scrb"}), NoCodec, {})>>,
              <<BoxesLen(<<1>>)>>)
ItemPropertyAssociation ==
    ByFlag(0, <<Bits(<<B(1), Loose(15)>>)>>, <<Bits(<<B(1), Loose(7)>>)>>)
ipma == Codec(
    <<Full({0, 1}, "kept", AllFlags),
      Counted(4, <<Wide(2, 4), Counted(1, <<ItemPropertyAssociation>>)>>)>>,
    <<EachWide(<<2>>, <<2 + 1, 4 + 1>>),
      Per(<<2>>, <<FlagLen(0, <<Each(<<2>>, 2)>>, <<Each(<<2>>, 1)>>)>>), N(4 + 4)>>)
iprp == Container(<<One("ipco"), Needed(ManyIfDecoded("ipma"))>>)

----------------------------------------------------------------------------
(* The references between items: no item is referred to twice.             *)

SingleItemTypeReferenceBox(n) ==
    Codec(<<U(n), Ruled(Distinct, Counted(2, <<U(n)>>))>>, <<N(n), Each(<<2>>, n), N(2)>>)
iref == Codec(
    <<Full({0, 1}, "variant", {}),
      ByVersion(0 :> <<BoxList(<<>>, "itemReference", {})>>
                  @@ 1 :> <<BoxList(<<>>, "largeItemReference", {})>>)>>,
    <<BoxesLen(<<2, "value", 1>>), N(4)>>)

----------------------------------------------------------------------------
(* The groups of entities, of any type but for free space, and the ones    *)
(* that make up a preselection.                                            *)

EntityToGroupBox == Codec(
    <<VersionZeroFlags, U(4), Counted(4, <<U(4)>>), Rest>>,
    <<Each(<<4>>, 1), Each(<<3>>, 4), N(4 + 4 + 4)>>)
prsl == Codec(
    <<VersionZero, U(4), Counted(4, <<U(4)>>), When(12, <<Str>>), When(13, <<U(1)>>),
      When(14, <<Str>>),
      Children(<<OptIfDecoded("elng"), OptIfDecoded("chnl"), OptIfDecoded("ardi"),
                 ManyIfDecoded("aelm"), ManyIfDecoded("aesb")>>)>>,
    <<N(4), Each(<<3>>, 4), N(4 + 4), Per(<<4>>, <<StrLen(<<1>>)>>), Each(<<5>>, 1),
      Per(<<6>>, <<StrLen(<<1>>)>>), ChildrenLen(<<7>>)>>)
grpl == Codec(<<BoxList(OwnCodecs({"prsl"}), "entityToGroup", {"free", "skip"})>>,
              <<BoxesLen(<<1>>)>>)

ItemCodecs ==
    "meta" :> meta @@ "xml " :> XmlBox @@ "bxml" :> BinaryXmlBox @@ "pitm" :> pitm
      @@ "ipro" :> ipro @@ "iinf" :> iinf @@ "infe" :> infe @@ "iloc" :> iloc
      @@ "ipco" :> ipco @@ "ipma" :> ipma @@ "iprp" :> iprp @@ "iref" :> iref
      @@ "itemReference" :> SingleItemTypeReferenceBox(2)
      @@ "largeItemReference" :> SingleItemTypeReferenceBox(4)
      @@ "grpl" :> grpl @@ "prsl" :> prsl @@ "entityToGroup" :> EntityToGroupBox

===============================================================================
