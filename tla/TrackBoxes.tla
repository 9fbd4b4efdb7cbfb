----------------------------- MODULE TrackBoxes ----------------------------
(***************************************************************************)
(* The boxes of tracks of one kind of media. Of audio: channel layouts,    *)
(* audio elements and the rendering, loudness and sampling rate of audio.  *)
(* Of hint tracks: the samples and partitions of file delivery, the hints  *)
(* and statistics of a track, and the boxes of the entries of hint tracks. *)
(***************************************************************************)
EXTENDS BoxFields

(* audio_rendering_indication.                                             *)
ardi == Codec(<<VersionZero, U(1)>>, <<N(4 + 1)>>)

(* Minimum, maximum and default of the azimuth, the elevation and the      *)
(* distance, each when its flag is set.                                    *)
aepp == Codec(
    <<VersionZero, When(0, <<U(2), U(2), U(2)>>),
      When(1, <<U(1), U(1), U(1)>>), When(2, <<U(4), U(4), U(4)>>)>>,
    <<Each(<<2>>, 2 * 3), Each(<<3>>, 3), Each(<<4>>, 4 * 3), N(4)>>)

(* Minimum, maximum and default prominence, as the bits of a float.        *)
aepr == Codec(<<VersionZeroFlags, U(4), U(4), U(4)>>, <<N(4 + 4 * 3)>>)

(* audio_element_tag, is_toggleable and is_default_enabled.                *)
aedb == Codec(
    <<VersionZeroFlags, Str, Bits(<<B(1), B(1), Pad(6)>>),
      Children(<<OptIfDecoded("aepp"), OptIfDecoded("aepr")>>)>>,
    <<N(4 + 1), StrLen(<<2>>), ChildrenLen(<<4>>)>>)

aelm == Container(<<OptIfDecoded("elng"), OptIfDecoded("chnl"), One("aedb")>>)

(* selection_tag.                                                          *)
aesd == Codec(<<VersionZeroFlags, StrToEnd>>, <<StrLen(<<2>>), N(4)>>)

aesb == Container(<<OptIfDecoded("aepp"), OptIfDecoded("aepr"), One("aesd"),
                    Needed(ManyIfDecoded("aelm"))>>)

----------------------------------------------------------------------------
(* The channel layout.  A speaker is at a position of an enumeration, or   *)
(* where code 126 says at an azimuth and an elevation.                     *)

SpeakerPosition ==
    ByCode(1, <<126>> :> <<U(2), U(1)>>, NoFields)
SpeakerPositionLen == CodeLen(<<1>>, <<126>> :> <<N(1 + 2 + 1)>>, <<N(1)>>)

Channels == 100
Objects == 101
OmittedChannels == 102

(* A layout that is not defined by its code lists the speakers, in version *)
(* 0 to the end but for the object count; a defined one has the map of the *)
(* channels it omits, from version 1 on with the order of its channels and *)
(* only where a bit says so.                                               *)
ChannelStructure ==
    0 :> ByCode(1, <<0>> :> <<ToEndBefore(Objects, <<SpeakerPosition>>)>>,
                <<U(8)>>)
      @@ 1 :> ByCode(1, <<0>> :> <<Counted(1, <<SpeakerPosition>>)>>,
                     <<Bits(<<Pad(4), Loose(3), Present(OmittedChannels)>>),
                       When(OmittedChannels, <<U(8)>>)>>)
ChannelStructureLen ==
    0 :> CodeLen(<<1>>, <<0>> :> <<Per(<<1>>, <<SpeakerPositionLen>>), N(1)>>,
                 <<N(1 + 8)>>)
      @@ 1 :> CodeLen(<<1>>,
                  <<0>> :> <<Per(<<1>>, <<SpeakerPositionLen>>), N(1 + 1)>>,
                  <<N(1 + 1), Each(<<2>>, 8)>>)

(* Version 0: the structure of the stream, the channels and the object     *)
(* count; version 1: the format, the base channel count and the channels.  *)
chnl == Codec(
    <<Full({0, 1}, "variant", {}),
      ByVersion(
        0 :> <<Bits(<<Pad(6), Present(Objects), Present(Channels)>>),
               When(Channels, <<ChannelStructure[0]>>),
               When(Objects, <<U(1)>>)>>
          @@ 1 :> <<Bits(<<Pad(2), B(1), Present(Channels), Loose(4)>>), U(1),
                    When(Channels, <<ChannelStructure[1]>>)>>)>>,
    <<VersionLen(
        0 :> <<Per(<<2, "value", 2>>, <<ChannelStructureLen[0]>>),
               Each(<<2, "value", 3>>, 1), N(4 + 1)>>
          @@ 1 :> <<Per(<<2, "value", 3>>, <<ChannelStructureLen[1]>>),
                    N(4 + 1 + 1)>>)>>)

----------------------------------------------------------------------------
(* Loudness: of a track and of its album, at most one of each that is not  *)
(* of version 0.                                                           *)

ludt == Ruled(OneNewer, Container(<<ManyIfDecoded("tlou"), ManyIfDecoded("alou")>>))

(* The ids of the downmix and the dynamic range, the peaks of twelve bits, *)
(* and the measurements; from version 1 on the id of the equaliser.        *)
LoudnessBase ==
    <<Bits(<<Pad(3), Loose(7), Loose(6)>>), Bits(<<Loose(12), Loose(12)>>),
      Bits(<<Loose(4), Loose(4)>>), Counted(1, <<U(1), U(1), Bits(<<Loose(4), Loose(4)>>)>>)>>
LoudnessBaseWithEq == <<Bits(<<Pad(2), Loose(6)>>)>> \o LoudnessBase

(* One base in version 0, several in version 1; in version 2 two bits say  *)
(* whose loudness it is, by an id of seven bits or, of type 3, of five.    *)
TypeHigh == 108
TypeLow == 109
GroupId == <<Bits(<<Pad(1), Loose(7)>>)>>
GroupPresetId == <<Bits(<<Pad(3), Loose(5)>>)>>
LoudnessInfoId ==
    ByFlag(TypeHigh, <<ByFlag(TypeLow, GroupPresetId, GroupId)>>,
           <<ByFlag(TypeLow, GroupId, NoFields)>>)
TrackLoudnessInfo == Codec(
    <<Full({0, 1, 2}, "variant", {}),
      ByVersion(
        0 :> <<Group(LoudnessBase)>>
          @@ 1 :> <<CountedIn(<<Pad(2)>>, 6, 0, 0, LoudnessBaseWithEq)>>
          @@ 2 :> <<CountedInBefore(<<KeptBit(TypeHigh), KeptBit(TypeLow)>>, 6,
                                    <<LoudnessInfoId>>, LoudnessBaseWithEq)>>)>>,
    <<VersionLen(
        0 :> <<Each(<<2, "value", 1, 4>>, 3), N(4 + 7)>>
          @@ 1 :> <<Per(<<2, "value", 1, "entries">>, <<Each(<<5>>, 3), N(8)>>), N(4 + 1)>>
          @@ 2 :> <<Per(<<2, "value", 1, "entries">>, <<Each(<<5>>, 3), N(8)>>), N(4),
                    FlagLen(TypeHigh, <<N(2)>>, <<FlagLen(TypeLow, <<N(2)>>, <<N(1)>>)>>)>>)>>)
tlou == TrackLoudnessInfo
alou == TrackLoudnessInfo

(* The sampling rate of an audio entry.                                    *)
srat == Codec(<<VersionZero, U(4)>>, <<N(4 + 4)>>)

AudioCodecs ==
    "ardi" :> ardi @@ "aepp" :> aepp @@ "aepr" :> aepr @@ "aedb" :> aedb
      @@ "aelm" :> aelm @@ "aesd" :> aesd @@ "aesb" :> aesb @@ "chnl" :> chnl
      @@ "ludt" :> ludt @@ "tlou" :> tlou @@ "alou" :> alou @@ "srat" :> srat

----------------------------------------------------------------------------
Number(n) == Codec(<<U(n)>>, <<N(n)>>)
Bytes == Codec(<<Rest>>, <<Each(<<1>>, 1)>>)

(* A sample of file delivery: packets, and extra data that may open with   *)
(* information about error correction.                                     *)
FdSample == Container(<<Many("fdpa"), OptIfDecoded("extr")>>)
ExtraDataBox == Codec(<<Leading("feci"), Rest>>, <<Each(<<2>>, 1), BoxesLen(<<1>>)>>)
FecInformationBox == Codec(<<U(1), U(2), U(2), U(2)>>, <<N(1 + 2 + 2 + 2)>>)

(* A header extension of three bytes, or of as many words as it says, by   *)
(* its type; a constructor, which is of 16 bytes but for the large items.  *)
LctHeaderExtension == <<Bits(<<Present(103), B(7)>>), Either(103, <<U(3)>>, <<Words>>)>>
U24 == Bits(<<Loose(24)>>)
FdConstructor ==
    ByCode(1, <<0>> :> <<Zeros(15)>>
                @@ <<1>> :> <<Padded(14)>>
                @@ <<2>> :> <<U(1), U(2), U(4), U(4), U(2), U(2)>>
                @@ <<3>> :> <<U(2), U(2), U(8), U24>>
                @@ <<4>> :> <<U(8), U(4), Zeros(3)>>
                @@ <<5>> :> <<U(4), U(4), U(8), U24>>,
           <<U(15)>>)
ConstructorLen ==
    CodeLen(<<1>>, [code \in {<<c>> : c \in 0 .. 4} |-> <<N(16)>>]
                     @@ <<5>> :> <<N(1 + 4 + 4 + 8 + 3)>>,
            <<N(16)>>)
FdPacketBox == Codec(
    <<Bits(<<B(1), B(1), B(1), B(1), Pad(4)>>), U(2), Counted(2, LctHeaderExtension),
      Counted(2, <<FdConstructor>>)>>,
    <<Per(<<3>>, <<EitherLen(<<2>>, <<N(1 + 3)>>, <<N(1 + 1), Each(<<1>>, 1)>>)>>),
      Per(<<4>>, <<ConstructorLen>>), N(1 + 2 + 2 + 2)>>)

----------------------------------------------------------------------------
(* The partitions of the files delivered, their groups and reservoirs.     *)

FdItemInformationBox == Codec(
    <<VersionZero,
      CountedChildren(2, <<Many("paen"), OptIfDecoded("segr"), OptIfDecoded("gitn")>>)>>,
    <<ChildrenLen(<<2>>), N(4 + 2)>>)
PartitionEntry == Container(<<One("fpar"), OptIfDecoded("fecr"), OptIfDecoded("fire")>>)

FecReservoirBox == Codec(
    <<Full({0, 1}, "kept", {}), CountedBy(<<2, 4>>, <<Wide(2, 4), U(4)>>)>>,
    <<EachWide(<<2>>, <<2 + 4, 4 + 4>>), VersionLen(0 :> <<N(4 + 2)>> @@ 1 :> <<N(4 + 4)>>)>>)
FileReservoirBox == FecReservoirBox
FilePartitionBox == Codec(
    <<Full({0, 1}, "kept", {}), Wide(2, 4), U(2), Zeros(1), U(1), U(2), U(2), U(2), U(2),
      Base64, CountedBy(<<2, 4>>, <<U(2), U(4)>>)>>,
    <<N(4 + 2 + 1 + 1 + 2 + 2 + 2 + 2), VersionLen(0 :> <<N(2 + 2)>> @@ 1 :> <<N(4 + 4)>>),
      StrLen(<<10>>), Each(<<11>>, 2 + 4)>>)

(* A session has at least one channel.                                     *)
FdSessionGroupBox == Codec(
    <<Counted(2, <<Counted(1, <<U(4)>>), Ruled(AtLeast(1), Counted(2, <<U(4)>>))>>)>>,
    <<Per(<<1>>, <<Each(<<1>>, 4), Each(<<2>>, 4), N(1 + 2)>>), N(2)>>)
GroupIdToNameBox == Codec(
    <<VersionZero, Counted(2, <<U(4), Str>>)>>,
    <<Per(<<2>>, <<StrLen(<<2>>), N(4)>>), N(4 + 2)>>)

----------------------------------------------------------------------------
(* The hints of the movie or a track, and the statistics of a hint track.  *)

HintInformationBox == Container(<<OptIfDecoded("rtp "), OptIfDecoded("sdp ")>>)
RtpMovieHintInformationBox == Codec(<<U(4), Rest>>, <<Each(<<2>>, 1), N(4)>>)
RtpTrackSdpHintInformationBox == Bytes

HintStatisticsBox == Container(
    <<OptIfDecoded("trpy"), OptIfDecoded("nump"), OptIfDecoded("tpyl"),
      OptIfDecoded("totl"), OptIfDecoded("npck"), OptIfDecoded("tpay"),
      ManyIfDecoded("maxr"), OptIfDecoded("dmed"), OptIfDecoded("dimm"),
      OptIfDecoded("drep"), OptIfDecoded("tmin"), OptIfDecoded("tmax"),
      OptIfDecoded("pmax"), OptIfDecoded("dmax"), ManyIfDecoded("payt")>>)
HintMaxRateBox == Codec(<<U(4), U(4)>>, <<N(4 + 4)>>)
HintPayloadIdBox == Codec(<<U(4), Counted(1, <<U(1)>>)>>, <<Each(<<2>>, 1), N(4 + 1)>>)
HintBytesSent64Box == Number(8)
HintPacketsSent64Box == Number(8)
HintPayloadBytesSent64Box == Number(8)
HintBytesSentBox == Number(4)
HintPacketsSentBox == Number(4)
HintPayloadBytesSentBox == Number(4)
HintMediaBytesSentBox == Number(8)
HintImmediateBytesSentBox == Number(8)
HintRepeatedBytesSentBox == Number(8)
HintMinRelativeTimeBox == Number(4)
HintMaxRelativeTimeBox == Number(4)
HintLargestPacketBox == Number(4)
HintLongestPacketBox == Number(4)

----------------------------------------------------------------------------
(* The boxes of the entries of hint tracks and of the packets hinted.      *)

TimescaleEntryBox == Number(4)
TimeOffsetBox == Number(4)
SequenceOffsetBox == Number(4)
ReceivedSsrcBox == Number(4)
RolloverCounterBox == Number(4)
RtpOffsetTlvBox == Number(4)
TimestampSynchronyBox == Codec(<<Bits(<<Pad(6), Loose(2)>>)>>, <<N(1)>>)
ReceivedCryptoContextIdBox ==
    Codec(<<U(2), U(1), Rest>>, <<Each(<<3>>, 1), N(2 + 1)>>)

SectionTable == Codec(<<Bits(<<Pad(3), Loose(13)>>), Rest>>, <<Each(<<2>>, 1), N(2)>>)
PatBox == SectionTable
PmtBox == SectionTable
OdBox == SectionTable
TsTimingBox == Codec(<<Bits(<<Loose(1), Pad(2), Loose(13)>>)>>, <<N(2)>>)
InitialSampleTimeBox == Codec(<<U(4), Zeros(4)>>, <<N(4 + 4)>>)

RtpHeaderExtensionTlvBox == Bytes
ReceivedCsrcBox == Codec(<<ToEnd(<<U(4)>>)>>, <<Each(<<1>>, 4)>>)

HintCodecs ==
    "fdsa" :> FdSample @@ "extr" :> ExtraDataBox @@ "feci" :> FecInformationBox
      @@ "fdpa" :> FdPacketBox @@ "fiin" :> FdItemInformationBox
      @@ "paen" :> PartitionEntry @@ "fecr" :> FecReservoirBox
      @@ "fire" :> FileReservoirBox @@ "fpar" :> FilePartitionBox
      @@ "segr" :> FdSessionGroupBox @@ "gitn" :> GroupIdToNameBox
      @@ "hnti" :> HintInformationBox @@ "rtp " :> RtpMovieHintInformationBox
      @@ "sdp " :> RtpTrackSdpHintInformationBox @@ "hinf" :> HintStatisticsBox
      @@ "maxr" :> HintMaxRateBox @@ "payt" :> HintPayloadIdBox
      @@ "trpy" :> HintBytesSent64Box @@ "nump" :> HintPacketsSent64Box
      @@ "tpyl" :> HintPayloadBytesSent64Box @@ "totl" :> HintBytesSentBox
      @@ "npck" :> HintPacketsSentBox @@ "tpay" :> HintPayloadBytesSentBox
      @@ "dmed" :> HintMediaBytesSentBox @@ "dimm" :> HintImmediateBytesSentBox
      @@ "drep" :> HintRepeatedBytesSentBox @@ "tmin" :> HintMinRelativeTimeBox
      @@ "tmax" :> HintMaxRelativeTimeBox @@ "pmax" :> HintLargestPacketBox
      @@ "dmax" :> HintLongestPacketBox @@ "tims" :> TimescaleEntryBox
      @@ "tsro" :> TimeOffsetBox @@ "snro" :> SequenceOffsetBox
      @@ "rssr" :> ReceivedSsrcBox @@ "sroc" :> RolloverCounterBox
      @@ "tssy" :> TimestampSynchronyBox @@ "ccid" :> ReceivedCryptoContextIdBox
      @@ "tPAT" :> PatBox @@ "tPMT" :> PmtBox @@ "tOD " :> OdBox
      @@ "tsti" :> TsTimingBox @@ "istm" :> InitialSampleTimeBox
      @@ "rtpo" :> RtpOffsetTlvBox @@ "rtpx" :> RtpHeaderExtensionTlvBox
      @@ "rcsr" :> ReceivedCsrcBox
============================================================================
