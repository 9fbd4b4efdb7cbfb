----------------------------- MODULE MovieBoxes -----------------------------
(***************************************************************************)
(* The movie box, its tracks and their media, but for the sample table.    *)
(***************************************************************************)
EXTENDS BoxFields

(* A full box of version 0 and its fields, of n bytes altogether.          *)
Simple(n, fields) == Codec(<<VersionZero>> \o fields, <<N(n)>>)

(* The matrix is kept, and the fields the format reserves are written as   *)
(* zero; the times are of 8 bytes in version 1.                            *)
Matrix == U(9 * 4)
Language == Bits(<<Pad(1), B(15)>>)
mvhd == Codec(
    <<Full({0, 1}, "kept", {}), Wide(4, 8), Wide(4, 8), U(4), Wide(4, 8), U(4), U(2),
      Zeros(2 + (4 * 2)), Matrix, Zeros(4 * 6), Ruled(NonZero, U(4))>>,
    <<VersionLen(0 :> <<N(4 + 4 + 4 + 4)>> @@ 1 :> <<N(8 + 8 + 4 + 8)>>),
      N(4 + 4 + 2 + 2 + (4 * 2) + 36 + (4 * 6) + 4)>>)

(* Enabled, in the movie, in the preview, and size as aspect ratio are     *)
(* flags that are kept.                                                    *)
tkhd == Codec(
    <<Full({0, 1}, "kept", {0, 1, 2, 3}), Wide(4, 8), Wide(4, 8), Ruled(NonZero, U(4)),
      Zeros(4), Wide(4, 8), Zeros(4 * 2), U(2), U(2), U(2), Zeros(2), Matrix, U(4), U(4)>>,
    <<VersionLen(0 :> <<N(4 + 4 + 4 + 4 + 4)>> @@ 1 :> <<N(8 + 8 + 4 + 4 + 8)>>),
      N(4 + (4 * 2) + 2 + 2 + 2 + 2 + 36 + 4 + 4)>>)

mdhd == Codec(
    <<Full({0, 1}, "kept", {}), Wide(4, 8), Wide(4, 8), U(4), Wide(4, 8), Language,
      Zeros(2)>>,
    <<VersionLen(0 :> <<N(4 + 4 + 4 + 4)>> @@ 1 :> <<N(8 + 8 + 4 + 8)>>),
      N(4 + 2 + 2)>>)

moov == Codec(
    <<ChildrenAround(
        <<One("mvhd"), OptIfDecoded("meta"), Some("trak"), OptIfDecoded("mvex")>>,
        <<ManyIfDecoded("udta")>>)>>,
    <<ChildrenLen(<<1>>)>>)
trak == Codec(
    <<ChildrenAround(
        <<One("tkhd"), OptIfDecoded("ttyp"), OptIfDecoded("tref"), OptIfDecoded("trgr"),
          OptIfDecoded("edts"), OptIfDecoded("meta"), One("mdia")>>,
        <<ManyIfDecoded("udta")>>)>>,
    <<ChildrenLen(<<1>>)>>)
mdia == Container(<<One("mdhd"), One("hdlr"), OptIfDecoded("elng"), One("minf")>>)
minf == Container(
    <<OptOf({"vmhd", "smhd", "hmhd", "sthd", "nmhd", "vvhd"}), One("dinf"), One("stbl")>>)
dinf == Container(<<One("dref")>>)
edts == Container(<<OptIfDecoded("elst")>>)

(* handler_type and name; the extended language; the header of a property. *)
hdlr == Codec(<<VersionZero, Zeros(4), U(4), Zeros(4 * 3), StrToEnd>>,
              <<StrLen(<<5>>), N(4 + 4 + 4 + (4 * 3))>>)
elng == Codec(<<VersionZero, StrToEnd>>, <<StrLen(<<2>>), N(4)>>)
hdlp == Simple(4 + 4, <<U(4)>>)

(* The edits of the presentation, which flag 0 says repeat.                *)
elst == Codec(
    <<Full({0, 1}, "kept", {0}), Counted(4, <<Wide(4, 8), WideSigned, U(2), U(2)>>)>>,
    <<EachWide(<<2>>, <<4 + 4 + 2 + 2, 8 + 8 + 2 + 2>>), N(4 + 4)>>)

(* The headers of the media, by its kind.                                  *)
vmhd == Codec(<<Always({0}, VersionZero), U(2), U(2), U(2), U(2)>>,
              <<N(4 + 2 + (2 * 3))>>)
smhd == Simple(4 + 2 + 2, <<U(2), Zeros(2)>>)
hmhd == Simple(4 + 2 + 2 + 4 + 4 + 4, <<U(2), U(2), U(4), U(4), Zeros(4)>>)
sthd == Simple(4, <<>>)
nmhd == Simple(4, <<>>)
vvhd == Simple(4, <<>>)

----------------------------------------------------------------------------
(* Where the media data is: at least one entry is written, and boxes past  *)
(* the count are not read.                                                 *)

dref == Codec(
    <<VersionZero,
      CountedBoxes(<<4>>, OwnCodecs({"url ", "urn ", "imdt", "snim"}), NoCodec,
                   FALSE, TRUE)>>,
    <<BoxesLen(<<2>>), N(4 + 4)>>)

(* No location when flag 0 says that the data is in the file.              *)
url == Codec(<<VersionZero, IfClear(0, <<StrToEnd>>)>>,
             <<Per(<<2>>, <<StrLen(<<1>>)>>), N(4)>>)

(* A name, and a location or a value when anything is left.                *)
NameAndMore ==
    Codec(<<VersionZero, Str, IfAny(<<StrToEnd>>)>>,
          <<Per(<<3>>, <<StrLen(<<1>>)>>), StrLen(<<2>>), N(4)>>)
urn == NameAndMore
imdt == Simple(4 + 4, <<U(4)>>)
snim == Simple(4, <<>>)

----------------------------------------------------------------------------
(* User data: the copyright, the selection of tracks, kinds, labels and    *)
(* sub tracks.                                                             *)

udta == Container(
    <<ManyIfDecoded("cprt"), OptIfDecoded("tsel"), ManyIfDecoded("kind"),
      ManyIfDecoded("labl"), ManyIfDecoded("strk"), ManyIfDecoded("ludt"),
      OptIfDecoded("hnti"), OptIfDecoded("hinf")>>)
cprt == Codec(<<VersionZero, Language, UtfToEnd>>, <<UtfLen(<<3>>), N(4 + 2)>>)
tsel == Codec(<<VersionZero, U(4), ToEnd(<<U(4)>>)>>, <<Each(<<3>>, 4), N(4 + 4)>>)
kind == NameAndMore
labl == Codec(<<Full({0}, "zero", {0}), U(2), Str, StrToEnd>>,
              <<StrLen(<<3>>), StrLen(<<4>>), N(4 + 2)>>)

strk == Container(<<One("stri"), One("strd")>>)
stri == Codec(<<VersionZero, U(2), U(2), U(4), ToEnd(<<U(4)>>)>>,
              <<Each(<<5>>, 4), N(4 + 2 + 2 + 4)>>)
strd == Container(<<ManyIfDecoded("stsg")>>)
stsg == Codec(<<VersionZero, U(4), Counted(2, <<U(4)>>)>>,
              <<Each(<<3>>, 4), N(4 + 4 + 2)>>)

----------------------------------------------------------------------------
(* References to other tracks, each of a type of its own and to distinct   *)
(* tracks, and the groups of tracks, whose boxes are named by their type.  *)

tref == Ruled(DistinctTypes("reference"),
              Codec(<<BoxList(<<>>, "reference", {})>>, <<BoxesLen(<<1>>)>>))
TrackReferenceType ==
    Codec(<<Ruled(DistinctNonZero, ToEnd(<<U(4)>>))>>, <<Each(<<1>>, 4)>>)
trgr == Codec(<<BoxList(OwnCodecs({"ster"}), "trackGroup", {"free", "skip"})>>,
              <<BoxesLen(<<1>>)>>)
ster == Codec(<<VersionZeroFlags, U(4), Bits(<<B(1), Pad(31)>>)>>, <<N(4 + 4 + 4)>>)
TrackGroupType == Codec(<<VersionZeroFlags, U(4), Rest>>, <<Each(<<3>>, 1), N(4 + 4)>>)

MovieCodecs ==
    "moov" :> moov @@ "mvhd" :> mvhd @@ "trak" :> trak @@ "tkhd" :> tkhd
      @@ "mdia" :> mdia @@ "mdhd" :> mdhd @@ "hdlr" :> hdlr @@ "elng" :> elng
      @@ "hdlp" :> hdlp @@ "minf" :> minf @@ "dinf" :> dinf @@ "edts" :> edts
      @@ "elst" :> elst @@ "vmhd" :> vmhd @@ "smhd" :> smhd @@ "hmhd" :> hmhd
      @@ "sthd" :> sthd @@ "nmhd" :> nmhd @@ "vvhd" :> vvhd @@ "dref" :> dref
      @@ "url " :> url @@ "urn " :> urn @@ "imdt" :> imdt @@ "snim" :> snim
      @@ "udta" :> udta @@ "cprt" :> cprt @@ "tsel" :> tsel @@ "kind" :> kind
      @@ "labl" :> labl @@ "strk" :> strk @@ "stri" :> stri @@ "strd" :> strd
      @@ "stsg" :> stsg @@ "tref" :> tref @@ "reference" :> TrackReferenceType
      @@ "trgr" :> trgr @@ "ster" :> ster @@ "trackGroup" :> TrackGroupType

=============================================================================
