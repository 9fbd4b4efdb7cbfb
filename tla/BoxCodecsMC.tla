---------------------------- MODULE BoxCodecsMC ----------------------------
EXTENDS FileBoxes, TrackBoxes,
        MovieBoxes, SampleEntryBoxes, TableBoxes, BoxCodecs

AllCodecs ==
    AudioCodecs @@ FileCodecs @@ FragmentCodecs @@ HintCodecs @@ ItemCodecs
      @@ MovieCodecs @@ SampleEntryCodecs @@ SchemeCodecs @@ TableCodecs
      @@ VisualCodecs
=============================================================================
