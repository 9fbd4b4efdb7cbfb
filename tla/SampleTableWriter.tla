---------------------------- MODULE SampleTableWriter ----------------------------
(***************************************************************************)
(* SampleTableWriter of crates/isobmff/src/structure_data/writer.rs: the   *)
(* locations of the samples of a movie are taken call by call, and the     *)
(* movie is finished with sample tables and durations of its own, whatever *)
(* it was given as.  What it writes is read back, and so are other tables, *)
(* which nothing wrote, as resolve_track reads them.                       *)
(***************************************************************************)
EXTENDS SampleTables

CONSTANTS
  Movies,      (* the movies: a sequence of tracks, as Timeline has them   *)
  OtherTables, (* sample tables that nothing of this library wrote         *)
  Picks,       (* what a sample of a call may be:                          *)
               (* [track, duration, composition, size, description, flags] *)
  Lates,       (* how far behind the sample before it one may start        *)
  Gaps,        (* how far behind the media data of that one it may lie     *)
  MaxCall,     (* bound: samples of a call, at most MaxCount               *)
  MaxSamples,  (* bound: samples of a movie                                *)
  MaxTime,     (* the largest presentation time                            *)
  Indefinite   (* the duration of a tkhd that is indefinite                *)

ASSUME CallAssumption == MaxCall <= MaxCount

VARIABLES
  movie,   (* the tracks, of the movie given and then of the one finished  *)
  tables,  (* TrackTable of each track                                     *)
  stbls,   (* their sample tables, once the writer is finished             *)
  stage,   (* "writing", "finished" or "read"                              *)
  read,    (* what is read of each sample table                            *)
  given    (* ghost: the movie given, and the samples taken of each track  *)

vars == <<movie, tables, stbls, stage, read, given>>

Unread == [refused |-> FALSE, samples |-> <<>>, leniencies |-> {}]

(* new, after which the movie has no mvex; or the tables of another writer. *)
Init ==
  /\ read = <<>>
  /\ \/ /\ movie \in Movies
        /\ tables = [t \in DOMAIN movie |-> EmptyTable]
        /\ stbls = <<>>
        /\ stage = "writing"
        /\ given = [movie |-> movie, samples |-> [t \in DOMAIN movie |-> <<>>]]
     \/ /\ stbls \in { <<stbl>> : stbl \in OtherTables }
        /\ movie = <<>> /\ tables = <<>>
        /\ stage = "finished"
        /\ given = [movie |-> <<>>, samples |-> <<>>]
-------------------------------------------------------------------------------
(* `runs` of movie_fragment.rs: the samples of one track that lie one      *)
(* after the other.                                                        *)
BeginsRunInFile(call, k) ==  (* slip: wherever it lies *)
  k = 1 \/ call[k - 1].track # call[k].track
BeginsRun(call, k) ==
  k = 1 \/ call[k - 1].track # call[k].track \/ call[k - 1].to # call[k].from

CallRuns(call) ==
  LET begins == SelectSeq([k \in DOMAIN call |-> k], LAMBDA k : BeginsRun(call, k))
  IN  [n \in DOMAIN begins |->
         SubSeq(call, begins[n], IF n = Len(begins) THEN Len(call) ELSE begins[n + 1] - 1)]

Earlier(call, k) == { j \in 1..(k - 1) : call[j].track = call[k].track }

(* When a sample is decoded: as the one before it ends; the first of a     *)
(* track that has an edit list, at any time.                               *)
Expected(call, k) ==
  LET t == call[k].track
  IN  IF Earlier(call, k) # {}
      THEN call[Max(Earlier(call, k))].time + call[Max(Earlier(call, k))].duration
      ELSE IF tables[t].start # NoTime THEN DecodingEnd(tables[t])
      ELSE IF movie[t].edits # <<>> THEN call[k].time ELSE 0

StartsAfterEdit(call, k) ==
  /\ tables[call[k].track].start = NoTime /\ Earlier(call, k) = {}
  /\ \E i \in DOMAIN movie[call[k].track].edits :
       movie[call[k].track].edits[i].mediaTime \in 0..(call[k].time - 1)

TakenSample(call, k) ==
  /\ call[k].track \in DOMAIN movie
  /\ IF Earlier(call, k) = {}
     THEN call[k].description \in DOMAIN Origins /\ Origins[call[k].description] = "file"
     ELSE call[k].description = call[Max(Earlier(call, k))].description
  /\ call[k].time = Expected(call, k)
  /\ call[k].time + call[k].duration <= MaxPosition
  /\ call[k].to - call[k].from <= CompactReach
  /\ ~StartsAfterEdit(call, k)

(* A call of handle_locations; one that is refused changes nothing.        *)
PushRuns(call) ==
  FoldLeft(LAMBDA pushed, run : [pushed EXCEPT ![run[1].track] = PushChunk(@, run)], tables, CallRuns(call))

HandleLocations(call) ==
  /\ stage = "writing"
  /\ \A k \in DOMAIN call : TakenSample(call, k)
  /\ tables' = PushRuns(call)
  /\ given' = [given EXCEPT !.samples = [t \in DOMAIN movie |->
                 @[t] \o SelectSeq(call, LAMBDA sample : sample.track = t)]]
  /\ UNCHANGED <<movie, stbls, stage, read>>
-------------------------------------------------------------------------------
(* The edits of a track, its samples counted from the first; those of an   *)
(* open last edit are ended where the last sample is.                      *)
LastsToEndOfMedia(edit) == edit.duration = 0 /\ edit.mediaTime >= 0
OpenLastEdit(track) == track.fragmented /\ track.edits # <<>> /\ LastsToEndOfMedia(Last(track.edits))

Shift(edits, start) ==
  [i \in DOMAIN edits |-> IF edits[i].mediaTime >= 0 THEN [edits[i] EXCEPT !.mediaTime = @ - start]
                          ELSE edits[i]]

InMovieTimeDown(track, media) == (media * track.movieTimescale) \div track.mediaTimescale  (* slip *)
InMovieTime(track, media) ==
  (Max({media, 0}) * track.movieTimescale + track.mediaTimescale - 1) \div track.mediaTimescale

FinishedTrack(track, table) ==
  LET edits == Shift(track.edits, Max({table.start, 0}))
      media == CompositionEnd(table) - Last(edits).mediaTime
      ended == IF OpenLastEdit(track) THEN [edits EXCEPT ![Len(edits)].duration = InMovieTime(track, media)]
               ELSE edits
      repeats == track.repeatEdits /\ ~OpenLastEdit(track)
  IN  [track EXCEPT
        !.edits = ended, !.repeatEdits = repeats, !.fragmented = FALSE,
        !.duration = IF edits = <<>> THEN (table.time * track.movieTimescale) \div track.mediaTimescale
                     ELSE IF repeats THEN @
                     ELSE Sum(Field(ended, "duration"))]

Finish ==
  /\ stage = "writing"
  /\ movie' = [t \in DOMAIN movie |-> FinishedTrack(movie[t], tables[t])]
  /\ stbls' = [t \in DOMAIN movie |-> Fill(tables[t])]
  /\ stage' = "finished"
  /\ UNCHANGED <<tables, read, given>>

(* The movie is read.                                                      *)
Read ==
  /\ stage = "finished"
  /\ read' = [t \in DOMAIN stbls |-> Resolve(stbls[t])]
  /\ stage' = "read"
  /\ UNCHANGED <<movie, tables, stbls, given>>
-------------------------------------------------------------------------------
(* The calls a muxer makes, and others that are refused: each sample       *)
(* behind the one before it of its track, and of the file.                 *)
TakenCount == Sum([t \in DOMAIN movie |-> Len(given.samples[t])])
FileEnd == Max({0} \cup UNION { { s.to : s \in Range(given.samples[t]) } : t \in DOMAIN movie })
MediaEnd(t) == IF t \in DOMAIN movie /\ given.samples[t] # <<>>
               THEN Last(given.samples[t]).time + Last(given.samples[t]).duration ELSE 0

CallOf(picks) ==
  FoldLeft(LAMBDA call, pick :
             LET own == SelectSeq(call, LAMBDA sample : sample.track = pick.is.track)
                 time == (IF own = <<>> THEN MediaEnd(pick.is.track) ELSE Last(own).time + Last(own).duration) + pick.late
                 from == (IF call = <<>> THEN FileEnd ELSE Last(call).to) + pick.gap
             IN  Append(call, [track |-> pick.is.track, time |-> time, duration |-> pick.is.duration,
                               composition |-> pick.is.composition, from |-> from, to |-> from + pick.is.size,
                               description |-> pick.is.description, flags |-> pick.is.flags]),
           <<>>, picks)

SamplePicks == [is : Picks, late : Lates, gap : Gaps]

Next ==
  \/ \E n \in 1..Min({MaxCall, MaxSamples - TakenCount}) : \E picks \in [1..n -> SamplePicks] :
       HandleLocations(CallOf(picks))
  \/ Finish
  \/ Read

Spec == Init /\ [][Next]_vars
-------------------------------------------------------------------------------
(* PROPERTIES                                                              *)

(* Presentations of a sample by the edits of a track, those that last; the *)
(* media that a movie in fragments goes on with after its edit list is not *)
(* of the list.                                                            *)
TL(track, composition) == INSTANCE Timeline WITH
  Tracks <- {}, Samples <- {}, stage <- "done", returned <- <<>>

Composed(sample) ==
  [start |-> sample.time + sample.composition, end |-> sample.time + sample.composition + sample.duration]

Presentations(track, sample) ==
  LET c == Composed(sample)
      laidOut == TL(track, c)!EditsWithin(TL(track, c)!EnoughPasses)
                 \o (IF track.edits = <<>> THEN TL(track, c)!AfterList ELSE <<>>)
      all == FlattenSeq([n \in DOMAIN laidOut |-> SetToSeq(TL(track, c)!PresentedBy(laidOut[n]))])
      lasting == SelectSeq(all, LAMBDA p : p.duration > 0)
  IN  [n \in DOMAIN lasting |-> [time |-> lasting[n].time, duration |-> lasting[n].duration]]

(* The movie finished has the samples taken, each where its media data     *)
(* lies, with its durations, offsets and flags, decoded from the first     *)
(* one on, and no table of it disagrees with another; and it presents each *)
(* at the times at which the edit lists of the movie given did.            *)
PresentedAsGiven ==
  stage = "read" =>
    \A t \in DOMAIN movie :
      LET samples == given.samples[t]
          Back(sample) == [name \in DOMAIN sample \ {"track"} |->
                             IF name = "time" THEN sample.time - samples[1].time ELSE sample[name]]
      IN  /\ ~read[t].refused /\ read[t].leniencies = {}
          /\ read[t].samples = [k \in DOMAIN samples |-> Back(samples[k])]
          /\ \A k \in DOMAIN samples :
               Presentations(movie[t], read[t].samples[k]) = Presentations(given.movie[t], samples[k])

(* What tables state, sample by sample, each table on its own.             *)
RunOfChunk(stbl, chunk) ==
  stbl.stsc[Max({ i \in DOMAIN stbl.stsc : stbl.stsc[i].first <= chunk })]

RunsLaid(stbl) ==
  /\ stbl.stco # <<>> => stbl.stsc # <<>> /\ stbl.stsc[1].first = 1
  /\ \A i \in DOMAIN stbl.stsc : stbl.stsc[i].first \in DOMAIN stbl.stco
  /\ \A i \in 2..Len(stbl.stsc) : stbl.stsc[i - 1].first < stbl.stsc[i].first
  /\ \A i \in DOMAIN stbl.stsc :
       stbl.stsc[i].description \in DOMAIN Origins /\ Origins[stbl.stsc[i].description] # "sequence number"

StatedSamples(stbl) ==
  LET chunkOf == FlattenSeq([c \in DOMAIN stbl.stco |-> [n \in 1..RunOfChunk(stbl, c).samples |-> c]])
      placed == Min({Len(chunkOf), Len(Sizes(stbl))})
      durations == Expand(stbl.stts)
      Duration(k) == durations[Min({k, Len(durations)})]
      SizesOf(ks) == FoldSet(LAMBDA k, sum : Sizes(stbl)[k] + sum, 0, ks)
      At(optional, k) == IF \E values \in optional : k \in DOMAIN values
                       THEN (CHOOSE values \in optional : TRUE)[k] ELSE 0
      IsSync(k) == \A marks \in stbl.stss :
                     \E i \in DOMAIN marks : marks[i] = k /\ \A j \in 1..(i - 1) : marks[j] < k
      From(k) == stbl.stco[chunkOf[k]] + SizesOf({ j \in 1..(k - 1) : chunkOf[j] = chunkOf[k] })
  IN  [k \in 1..placed |->
         [time |-> FoldSet(LAMBDA j, sum : Duration(j) + sum, 0, 1..(k - 1)), duration |-> Duration(k),
          composition |-> At({ Expand(runs) : runs \in stbl.ctts }, k),
          from |-> From(k), to |-> From(k) + Sizes(stbl)[k],
          description |-> RunOfChunk(stbl, chunkOf[k]).description,
          flags |-> [name \in FlagTables \cup {"sync"} |->
                       IF name = "sync" THEN IsSync(k) ELSE At(stbl.flags[name], k)]]]

StatedLeniencies(stbl, samples) ==
  LET placed == Len(samples)
      laidOut == FoldSet(LAMBDA c, sum : RunOfChunk(stbl, c).samples + sum, 0, DOMAIN stbl.stco)
      lengths == { <<"stsz", Len(Sizes(stbl))>>, <<"stsc", laidOut>>, <<"stts", Len(Expand(stbl.stts))>> }
                 \cup { <<"ctts", Len(Expand(runs))>> : runs \in stbl.ctts }
                 \cup UNION { { <<name, Len(values)>> : values \in stbl.flags[name] } : name \in FlagTables }
      syncs == { k \in 1..placed : stbl.stss # {} /\ samples[k].flags.sync }
      past == Cardinality(UNION { { i \in DOMAIN marks : marks[i] > placed } : marks \in stbl.stss })
      within == Cardinality(UNION { { i \in DOMAIN marks : marks[i] <= placed } : marks \in stbl.stss })
  IN  { [table |-> x[1], kind |-> IF x[2] < placed THEN "short" ELSE "long",
         samples |-> IF x[2] < placed THEN placed - x[2] ELSE x[2] - placed] :
        x \in { y \in lengths : y[2] # placed } }
      \cup { [table |-> "stss", kind |-> "long", samples |-> past] : n \in {past} \ {0} }
      \cup { [table |-> "stss", kind |-> "unordered", samples |-> n] : n \in {within - Cardinality(syncs)} \ {0} }

(* Whatever tables state is read as each states it on its own: a sample    *)
(* for each size that the chunks take, its media data behind that of the   *)
(* sample before it of its chunk; the last duration, no offset and no      *)
(* flags past the end of a short table; a sync sample where it is marked   *)
(* in order.  Each table that disagrees is reported, and by how much; and  *)
(* refused are those with no samples, runs of chunks that are not there or *)
(* places past the end of a file.                                          *)
ReadAsStated ==
  stage = "read" =>
    \A t \in DOMAIN stbls :
      LET stbl == stbls[t]
          samples == StatedSamples(stbl)
          isRead == /\ ~NoneStated(stbl)
                    /\ RunsLaid(stbl)
                    /\ \A k \in DOMAIN samples :
                         samples[k].to <= MaxPosition /\ samples[k].time + samples[k].duration <= MaxPosition
      IN  IF isRead
          THEN read[t] = [refused |-> FALSE, samples |-> samples, leniencies |-> StatedLeniencies(stbl, samples)]
          ELSE read[t].refused
===============================================================================
