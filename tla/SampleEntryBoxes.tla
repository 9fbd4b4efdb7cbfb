-------------------------- MODULE SampleEntryBoxes --------------------------
(***************************************************************************)
(* The sample entries: the description box keeps each as its index and the *)
(* bytes after it, which the class of an entry decodes and encodes; and    *)
(* the boxes that entries hold.                                            *)
(***************************************************************************)
EXTENDS BoxFields

stsd == Codec(
    <<Full({0, 1}, "kept", {}),
      CountedBoxes(<<4>>, <<>>, "sampleEntry", FALSE, FALSE)>>,
    <<BoxesLen(<<2>>), N(4 + 4)>>)
EntryFields == <<Zeros(6), U(2)>>
SampleEntry == Codec(EntryFields \o <<Rest>>, <<Each(<<3>>, 1), N(6 + 2)>>)

(* The boxes any entry may hold, and the boxes a class defines; those of   *)
(* a format derived from it come before the first of them.                 *)
AnyEntryBoxes ==
    <<ManyIfDecoded("sinf"), ManyIfDecoded("scrb"), OptIfDecoded("rinf"),
      OptIfDecoded("btrt")>>
TypesOf(claims) == UNION {claims[i].types : i \in DOMAIN claims}
from_class(fields, terms, claims) ==
    LET defined == claims \o AnyEntryBoxes
        n == Len(EntryFields \o fields)
    IN Codec(EntryFields \o fields \o <<Derived(TypesOf(defined)), Children(defined)>>,
             <<RawLen(<<n + 1>>), ChildrenLen(<<n + 2>>), N(6 + 2)>> \o terms)

(* Sound, whose two versions write the sampling rate after or before the   *)
(* layout of the channels; the downmixes are kept as the bytes they are.   *)
Audio(version, claims) ==
    from_class(<<Bits(<<Pinned(version, 16)>>), Zeros(6), U(2), U(2), Zeros(4), U(4)>>,
               <<N(2 + 6 + 2 + 2 + 2 + 2 + 4)>>, claims)
AudioSampleEntry ==
    Audio(0, <<OptIfDecoded("chnl"), ManyIfDecoded("dmix"), OptIfDecoded("srat")>>)
AudioSampleEntryV1 ==
    Audio(1, <<OptIfDecoded("srat"), OptIfDecoded("chnl"), ManyIfDecoded("dmix")>>)
UndecodedDownMixInstructions ==
    Codec(<<Bits(<<UpToRead(1, 8)>>), Rest>>, <<Each(<<2>>, 1), N(1)>>)

(* Pictures; the name of the compressor is kept as its 32 bytes.           *)
VisualSampleEntry ==
    from_class(
        <<Zeros(16), U(2), U(2), U(4), U(4), Zeros(4), U(2), U(32), U(2),
          Const(<<255, 255>>)>>,
        <<N(16 + 2 + 2 + 4 + 4 + 4 + 2 + 32 + 2 + 2)>>,
        <<OptIfDecoded("clap"), OptIfDecoded("pasp"), ManyIfDecoded("colr"),
          OptIfDecoded("clli"), OptIfDecoded("mdcv"), OptIfDecoded("cclv"),
          OptIfDecoded("amve")>>)
VolumetricVisualSampleEntry == from_class(<<U(32)>>, <<N(32)>>, <<>>)
HapticSampleEntry == from_class(<<>>, <<>>, <<>>)
FontSampleEntry == HapticSampleEntry

----------------------------------------------------------------------------
(* Text and metadata: strings, the first ones of an entry, and a box.      *)

Strings(n) == [i \in 1 .. n |-> Str]
StringLens(n) == [i \in 1 .. n |-> StrLen(<<Len(EntryFields) + i>>)]
Texts(n, claims) == from_class(Strings(n), StringLens(n), claims)
XmlMetaDataSampleEntry == Texts(3, <<>>)
XmlSubtitleSampleEntry == Texts(3, <<OptIfDecoded("mime")>>)
MimeFormat == Texts(2, <<OptIfDecoded("txtC")>>)
TextMetaDataSampleEntry == MimeFormat
SimpleTextSampleEntry == MimeFormat
TextSubtitleSampleEntry == MimeFormat
UriMetaSampleEntry == from_class(<<>>, <<>>, <<One("uri "), OptIfDecoded("uriI")>>)
BoxedMetadataSampleEntry == from_class(<<>>, <<>>, <<One("keys")>>)

TextConfigBox == Codec(<<VersionZero, StrToEnd>>, <<StrLen(<<2>>), N(4)>>)
UriBox == TextConfigBox
MimeBox == TextConfigBox
UriInitBox == Codec(<<VersionZero, Rest>>, <<Each(<<2>>, 1), N(4)>>)

(* The keys of boxed metadata, each a box named by its id: at least one,   *)
(* with ids of their own unless they are unused.                           *)
KeyIds == {"key1", "key2", UnusedKeyId, InlineKeyId}
keys == Ruled(KeysTold, Codec(
    <<BoxList([id \in KeyIds |-> "metadataKey"], "metadataKey", {})>>,
    <<BoxesLen(<<1>>)>>))
MetadataKeyBox ==
    Container(<<One("keyd"), OptIfDecoded("loca"), OptIfDecoded("setu")>>)
keyd == Codec(<<U(4), Rest>>, <<Each(<<2>>, 1), N(4)>>)
loca == Codec(<<StrToEnd>>, <<StrLen(<<1>>)>>)
setu == Codec(<<Rest>>, <<Each(<<1>>, 1)>>)

----------------------------------------------------------------------------
(* The entries of hint tracks, of version 1 compatible with version 1.     *)

HintTrackVersion == Const(<<0, 1, 0, 1>>)
FdHintSampleEntry ==
    from_class(<<HintTrackVersion, U(2), U(2)>>, <<N(2 + 2 + 2 + 2)>>,
               <<OptIfDecoded("tims")>>)

Mpeg2TsEntry ==
    from_class(<<HintTrackVersion, U(1), U(1), Bits(<<B(1), Pad(7)>>)>>,
               <<N(2 + 2 + 1 + 1 + 1)>>,
               <<OptIfDecoded("tPAT"), ManyIfDecoded("tPMT"), ManyIfDecoded("tOD "),
                 OptIfDecoded("tsti"), OptIfDecoded("istm")>>)
Mpeg2TsReceptionSampleEntry == Mpeg2TsEntry
Mpeg2TsServerSampleEntry == Mpeg2TsEntry
ProtectedMpeg2TransportStreamSampleEntry == Mpeg2TsEntry

PacketEntry(claims) ==
    from_class(<<HintTrackVersion, U(4)>>, <<N(2 + 2 + 4)>>, claims)
RtpHintSampleEntry ==
    PacketEntry(<<One("tims"), OptIfDecoded("tsro"), OptIfDecoded("snro")>>)
SrtpHintSampleEntry ==
    PacketEntry(<<One("tims"), OptIfDecoded("tsro"), OptIfDecoded("snro"), One("srpp")>>)
ReceivedRtpEntry ==
    PacketEntry(<<One("tims"), OptIfDecoded("tsro"), OptIfDecoded("tssy"),
                  OptIfDecoded("rssr")>>)
ReceivedSrtpHintSampleEntry ==
    PacketEntry(<<One("tims"), OptIfDecoded("tsro"), OptIfDecoded("tssy"), One("rssr"),
                  OptIfDecoded("ccid"), OptIfDecoded("sroc"), One("srpp")>>)
ReceivedRtpHintSampleEntry == ReceivedRtpEntry
ProtectedRtpReceptionHintSampleEntry == ReceivedRtpEntry
RtcpEntry == PacketEntry(<<>>)
RtcpReceptionHintSampleEntry == RtcpEntry
SrtcpReceptionHintSampleEntry == RtcpEntry

(* The classes, by the format of an entry where they have one.             *)
SampleEntryCodecs ==
    "stsd" :> stsd @@ "sampleEntry" :> SampleEntry
      @@ "audio" :> AudioSampleEntry @@ "audioV1" :> AudioSampleEntryV1
      @@ "dmix" :> UndecodedDownMixInstructions
      @@ "visual" :> VisualSampleEntry @@ "volumetric" :> VolumetricVisualSampleEntry
      @@ "haptic" :> HapticSampleEntry @@ "font" :> FontSampleEntry
      @@ "metx" :> XmlMetaDataSampleEntry @@ "stpp" :> XmlSubtitleSampleEntry
      @@ "mett" :> TextMetaDataSampleEntry @@ "stxt" :> SimpleTextSampleEntry
      @@ "sbtt" :> TextSubtitleSampleEntry @@ "urim" :> UriMetaSampleEntry
      @@ "mebx" :> BoxedMetadataSampleEntry @@ "txtC" :> TextConfigBox
      @@ "uri " :> UriBox @@ "mime" :> MimeBox @@ "uriI" :> UriInitBox
      @@ "keys" :> keys @@ "metadataKey" :> MetadataKeyBox @@ "keyd" :> keyd
      @@ "loca" :> loca @@ "setu" :> setu @@ "fdp entry" :> FdHintSampleEntry
      @@ "rm2t" :> Mpeg2TsReceptionSampleEntry @@ "sm2t" :> Mpeg2TsServerSampleEntry
      @@ "pm2t" :> ProtectedMpeg2TransportStreamSampleEntry
      @@ "rtp entry" :> RtpHintSampleEntry @@ "srtp" :> SrtpHintSampleEntry
      @@ "rrtp" :> ReceivedRtpHintSampleEntry
      @@ "prtp" :> ProtectedRtpReceptionHintSampleEntry
      @@ "rsrp" :> ReceivedSrtpHintSampleEntry
      @@ "rtcp" :> RtcpReceptionHintSampleEntry @@ "stcp" :> SrtcpReceptionHintSampleEntry
----------------------------------------------------------------------------
(* How the samples of a track are protected, scrambled, restricted or      *)
(* packed, and the entries the original format is told in.                 *)

frma == Codec(<<U(4)>>, <<N(4)>>)
cinf == Container(<<One("frma")>>)

(* The scheme, with its location when flag 0 says that there is one.       *)
schm == Codec(<<VersionZero, U(4), U(4), When(0, <<StrToEnd>>)>>,
              <<Per(<<4>>, <<StrLen(<<1>>)>>), N(4 + 4 + 4)>>)
csch == schm
schi == Container(<<>>)

(* A scheme and its information are written together or not at all.        *)
sinf == Ruled(Together({<<2, "schm">>, <<3, "schi">>}),
              Container(<<OptIfDecoded("frma"), OptIfDecoded("schm"), OptIfDecoded("schi")>>))
scrb == Container(<<One("schm"), OptIfDecoded("schi")>>)
rinf == Container(
    <<OptIfDecoded("frma"), One("schm"), ManyIfDecoded("csch"), OptIfDecoded("schi")>>)
srpp == Codec(
    <<Full(0 .. 255, "kept", {}), U(4), U(4), U(4), U(4),
      Children(<<OptIfDecoded("schm"), OptIfDecoded("schi")>>)>>,
    <<ChildrenLen(<<6>>), N(4 + (4 * 4))>>)

(* The mode is 0 or 1; each stereo scheme has an indication of a length of *)
(* its own.                                                                *)
spki == Codec(<<VersionZero, Bits(<<UpTo(1, 8)>>)>>, <<N(4 + 1)>>)
Scheme(n) == <<0, 0, 0, n>>
stvi == Ruled(StereoScheme, Codec(
    <<VersionZero, Bits(<<Pad(30), Loose(2)>>),
      Code("scheme", 4, {Scheme(n) : n \in 0 .. 5}), Counted(4, <<U(1)>>), Children(<<>>)>>,
    <<ChildrenLen(<<5>>), Each(<<4>>, 1), N(4 + 4 + 4 + 4)>>))

SchemeCodecs ==
    "frma" :> frma @@ "cinf" :> cinf @@ "schm" :> schm @@ "csch" :> csch
      @@ "schi" :> schi @@ "sinf" :> sinf @@ "scrb" :> scrb @@ "rinf" :> rinf
      @@ "srpp" :> srpp @@ "spki" :> spki @@ "stvi" :> stvi
----------------------------------------------------------------------------
(* How a track looks: colours, luminance, aperture and bit rate.           *)

(* ambient_illuminance, ambient_light_x and _y.                            *)
amve == Codec(<<U(4), U(2), U(2)>>, <<N(4 + 2 + 2)>>)

(* bufferSizeDB, maxBitrate and avgBitrate.                                *)
btrt == Codec(<<U(4), U(4), U(4)>>, <<N(3 * 4)>>)

(* The three primaries, and the least, greatest and average luminance,     *)
(* each where its bit of the flag byte says so.                            *)
Primaries == 105
MinLuminance == 104
MaxLuminance == 103
AvgLuminance == 102
cclv == Codec(
    <<Bits(<<Pad(2), Present(Primaries), Present(MinLuminance),
             Present(MaxLuminance), Present(AvgLuminance), Pad(2)>>),
      When(Primaries, <<U(8), U(8), U(8)>>),
      When(MinLuminance, <<U(4)>>), When(MaxLuminance, <<U(4)>>),
      When(AvgLuminance, <<U(4)>>)>>,
    <<Each(<<2>>, 3 * 8), Each(<<3>>, 4), Each(<<4>>, 4), Each(<<5>>, 4), N(1)>>)

(* Width, height and the two offsets of the aperture, as fractions.        *)
Fraction == U(8)
clap == Codec(<<Fraction, Fraction, Fraction, Fraction>>, <<N(8 * 4)>>)

(* The light levels of the content.                                        *)
clli == Codec(<<U(2), U(2)>>, <<N(2 * 2)>>)

(* Colours by the type of their description: on-screen colours, an ICC     *)
(* profile of either kind, or one of another type, kept as it is.          *)
NCLX == <<110, 99, 108, 120>>
RICC == <<114, 73, 67, 67>>
PROF == <<112, 114, 111, 102>>
colr == Codec(
    <<ByCode(4, NCLX :> <<U(2), U(2), U(2), Bits(<<B(1), Pad(7)>>)>>
                  @@ RICC :> <<Rest>> @@ PROF :> <<Rest>>,
             <<Rest>>)>>,
    <<CodeLen(<<1>>, NCLX :> <<N((3 * 2) + 1)>>
                       @@ RICC :> <<Each(<<1>>, 1)>> @@ PROF :> <<Each(<<1>>, 1)>>,
              <<Each(<<1>>, 1)>>), N(4)>>)

(* Three primaries, the white point and the luminance of the mastering     *)
(* display.                                                                *)
mdcv == Codec(<<U(4), U(4), U(4), U(2), U(2), U(4), U(4)>>,
              <<N((3 * 4) + 4 + (2 * 4))>>)

(* hSpacing and vSpacing.                                                  *)
pasp == Codec(<<U(4), U(4)>>, <<N(2 * 4)>>)

VisualCodecs ==
    "amve" :> amve @@ "btrt" :> btrt @@ "cclv" :> cclv @@ "clap" :> clap
      @@ "clli" :> clli @@ "colr" :> colr @@ "mdcv" :> mdcv @@ "pasp" :> pasp

=============================================================================
