-------------------------------- MODULE Timeline --------------------------------
(***************************************************************************)
(* Timeline and Presentations of crates/isobmff/src/timeline.rs: the       *)
(* presentations that the edit list of a track makes of a sample, taken    *)
(* one by one.  A repeated list is not passed over edit by edit: the next  *)
(* pass in which an edit presents the sample is computed, as its edits     *)
(* last a tick longer in some passes than in others.                       *)
(*                                                                         *)
(* The times that callers see are bounded by MaxTime, as a u64 is; those   *)
(* reckoned with in between (u128, i128) are wide enough not to overflow.  *)
(***************************************************************************)
EXTENDS Integers, FiniteSetsExt, SequencesExt

CONSTANTS
  Tracks,      (* the tracks: [edits, movieTimescale, mediaTimescale,      *)
               (* fragmented, repeatEdits, duration], of their movies too  *)
  Samples,     (* when samples are composed: [start, end]                  *)
  MaxTime,     (* the largest time returned: u64::MAX                      *)
  Indefinite   (* the duration of a tkhd that is indefinite                *)

VARIABLES
  track,        (* the track                                               *)
  composition,  (* when the sample is composed                             *)
  stage,        (* where the presentations have got to                     *)
  returned      (* the presentations returned                              *)

vars == <<track, composition, stage, returned>>

NoEnd == -1  (* of an edit: None *)

Edits == track.edits
IsEmptyEdit(edit) == edit.mediaTime = -1
IsDwell(edit) == edit.rate = 0
LastsToEndOfMedia(edit) == edit.duration = 0 /\ edit.mediaTime >= 0

Sum(edits) == FoldLeft(LAMBDA sum, edit : sum + edit.duration, 0, edits)
StartInList(index) == Sum(SubSeq(Edits, 1, index - 1))
ListDuration == Sum(Edits)
-------------------------------------------------------------------------------
(* Timeline::new                                                           *)

Refused ==
  \/ \E i \in DOMAIN Edits : Edits[i].mediaTime < -1
  \/ Edits # <<>> /\ track.movieTimescale = 0

OpenLastEdit == track.fragmented /\ Edits # <<>> /\ LastsToEndOfMedia(Last(Edits))

Repeats == track.repeatEdits /\ ListDuration > 0 /\ ~OpenLastEdit
RepeatsIndefinitely == Repeats /\ track.duration = Indefinite
RepeatsUntil == Repeats /\ track.duration # Indefinite

(* to_media: movie time in the timescale of the media, rounded.            *)
ToMedia(time) ==
  IF time = 0 THEN 0
  ELSE (time * track.mediaTimescale + track.movieTimescale \div 2) \div track.movieTimescale

HasImplied == Edits = <<>> \/ (track.fragmented /\ ~RepeatsIndefinitely)

(* Where the edit after the edit list presents from: the end of the media  *)
(* of the last edit that presents any, as it first is.                     *)
WidthFirst(index) ==
  IF IsDwell(Edits[index]) THEN 0
  ELSE ToMedia(StartInList(index) + Edits[index].duration) - ToMedia(StartInList(index))

ImpliedMediaTime ==
  LET presenting == { i \in DOMAIN Edits : Edits[i].mediaTime >= 0 }
  IN  IF presenting = {} THEN 0
      ELSE Edits[Max(presenting)].mediaTime + WidthFirst(Max(presenting))

(* list_end, NoEnd for none.                                               *)
ListEnd ==
  IF RepeatsIndefinitely \/ OpenLastEdit THEN NoEnd
  ELSE IF RepeatsUntil THEN track.duration ELSE ListDuration
-------------------------------------------------------------------------------
(* `presented`: the part of what is composed that an edit presents, if any.*)
IsInstant(c) == c.start >= c.end

Presented(mediaTime, dwell, width, c) ==
  LET mediaEnd == mediaTime + width
      from == Max({c.start, mediaTime})
      to == IF width = NoEnd THEN c.end ELSE Min({c.end, mediaEnd})
      instant == IsInstant(c) /\ from = c.start /\ (width # NoEnd => from < mediaEnd)
      holds == (c.start <= mediaTime /\ mediaTime < c.end) \/ (IsInstant(c) /\ c.start = mediaTime)
  IN  IF dwell
      THEN { p \in {[into |-> 0, duration |-> Max({width, 0}), mediaTime |-> mediaTime]} : holds }
      ELSE { p \in {[into |-> from - mediaTime, duration |-> Max({to - from, 0}), mediaTime |-> from]} :
             from < to \/ instant }

(* first_multiple_in_range: the least x for which (step * x) % modulus is  *)
(* in low..high, in a set, empty where there is none.                      *)
RECURSIVE FirstMultipleInRange(_, _, _, _)
FirstMultipleInRange(step, modulus, low, high) ==
  LET first == (low + step - 1) \div step
  IN  IF step = 0 THEN {}
      ELSE IF first * step <= high THEN {first}
      ELSE { (modulus * wraps + low + step - 1) \div step :
             wraps \in FirstMultipleInRange(modulus % step, step, step - (high % step), step - (low % step)) }

FirstInRange(step, offset, modulus, low) ==
  IF offset >= low THEN {0}
  ELSE FirstMultipleInRange(step, modulus, low - offset, modulus - offset - 1)

(* first_pass: the first pass from `from` on in which an edit presents a   *)
(* part of what is composed.                                               *)
FirstPassWide(index, from, c) ==  (* slip: the first pass in which it is wide, always *)
  LET edit == Edits[index]
      movie == track.movieTimescale
      media == track.mediaTimescale
      rest == (edit.duration * media) % movie
  IN  { from + passes : passes \in
          FirstInRange(((ListDuration % movie) * media) % movie,
                       ((StartInList(index) % movie) * media + movie \div 2) % movie,
                       movie, movie - rest) }

FirstPass(index, from, c) ==
  LET edit == Edits[index]
      movie == track.movieTimescale
      media == track.mediaTimescale
      narrow == (edit.duration * media) \div movie
      rest == (edit.duration * media) % movie
      step == ((ListDuration % movie) * media) % movie
      offset == ((StartInList(index) % movie) * media + movie \div 2 + (from % movie) * step) % movie
  IN  IF Presented(edit.mediaTime, IsDwell(edit), narrow, c) # {} THEN {from}
      ELSE IF rest = 0 \/ Presented(edit.mediaTime, IsDwell(edit), narrow + 1, c) = {} THEN {}
      ELSE { from + passes : passes \in FirstInRange(step, offset, movie, movie - rest) }
-------------------------------------------------------------------------------
(* Presentations: the stages.                                              *)
Passes(pass, edit) == [kind |-> "passes", pass |-> pass, edit |-> edit, start |-> 0]
Pass(start, edit) == [kind |-> "pass", pass |-> 0, edit |-> edit, start |-> start]
Implied == [kind |-> "implied", pass |-> 0, edit |-> 0, start |-> 0]
Done == [kind |-> "done", pass |-> 0, edit |-> 0, start |-> 0]

Init ==
  /\ track \in Tracks
  /\ ~Refused
  /\ composition \in Samples
  /\ stage = IF Repeats THEN Passes(0, 0) ELSE Pass(0, 0)
  /\ returned = <<>>

(* presentation: what an edit of movie time start up to end makes of the   *)
(* sample is returned, and the stage is `next`; but no time past MaxTime   *)
(* is, nor any presentation after it.                                      *)
Present(mediaTime, dwell, start, end, next) ==
  \E width \in {IF end = NoEnd THEN NoEnd ELSE ToMedia(end) - ToMedia(start)} :
  \E parts \in {Presented(mediaTime, dwell, width, composition)} :
    IF parts = {} THEN stage' = next /\ UNCHANGED returned
    ELSE \E part \in parts :
           LET time == ToMedia(start) + part.into
           IN  IF time > MaxTime \/ part.mediaTime > MaxTime
               THEN stage' = Done /\ UNCHANGED returned
               ELSE /\ stage' = next
                    /\ returned' = Append(returned,
                         [time |-> time, duration |-> Min({part.duration, MaxTime}),
                          mediaTime |-> part.mediaTime])

(* The whole passes: each edit with the first pass it presents the sample  *)
(* in, those already taken in this pass in the next one.                   *)
Found ==
  UNION { { <<pass, index>> : pass \in FirstPass(index, stage.pass + (IF index <= stage.edit THEN 1 ELSE 0),
                                                 composition) } :
          index \in { i \in DOMAIN Edits : Edits[i].mediaTime >= 0 } }

(* The earliest pass, and of that the earliest edit.                       *)
Earliest(found) ==
  CHOOSE f \in found : \A g \in found : f[1] < g[1] \/ (f[1] = g[1] /\ f[2] <= g[2])

WholePasses == track.duration \div ListDuration

TakePasses ==
  /\ stage.kind = "passes"
  /\ \E found \in {{ f \in Found : RepeatsUntil => f[1] < WholePasses }} :
       IF found = {}
       THEN /\ stage' = IF RepeatsUntil THEN Pass(WholePasses * ListDuration, 0) ELSE Done
            /\ UNCHANGED returned
       ELSE \E first \in {Earliest(found)} :
              LET edit == Edits[first[2]]
                  start == first[1] * ListDuration + StartInList(first[2])
              IN  Present(edit.mediaTime, IsDwell(edit), start, start + edit.duration,
                          Passes(first[1], first[2]))

(* The only pass, or the last, which is cut at the end of the repetitions. *)
EndOf(index) ==
  IF index = Len(Edits) /\ OpenLastEdit THEN NoEnd
  ELSE IF RepeatsUntil THEN Min({stage.start + Edits[index].duration, track.duration})
  ELSE stage.start + Edits[index].duration

(* An empty edit presents nothing.                                         *)
SkipEmptyStays(end) == stage' = stage /\ UNCHANGED returned  (* slip: is not passed *)
SkipEmpty(end) == stage' = Pass(end, stage.edit + 1) /\ UNCHANGED returned

TakePass ==
  /\ stage.kind = "pass"
  /\ IF stage.edit = Len(Edits) \/ (RepeatsUntil /\ stage.start >= track.duration)
     THEN stage' = Implied /\ UNCHANGED returned
     ELSE \E edit \in {Edits[stage.edit + 1]} : \E end \in {EndOf(stage.edit + 1)} :
            IF IsEmptyEdit(edit) THEN SkipEmpty(end)
            ELSE Present(edit.mediaTime, IsDwell(edit), stage.start, end, Pass(end, stage.edit + 1))

(* The edit after the edit list.                                           *)
TakeImplied ==
  /\ stage.kind = "implied"
  /\ IF ListEnd = NoEnd \/ ~HasImplied THEN stage' = Done /\ UNCHANGED returned
     ELSE Present(ImpliedMediaTime, FALSE, ListEnd, NoEnd, Done)

(* One turn of the loop of Presentations::next.                            *)
Next ==
  /\ TakePasses \/ TakePass \/ TakeImplied
  /\ UNCHANGED <<track, composition>>

Spec == Init /\ [][Next]_vars /\ WF_vars(Next)
-------------------------------------------------------------------------------
(* PROPERTIES                                                              *)

(* The presentation timeline as the documentation has it: every edit of    *)
(* every pass laid out one after the other, in movie time, up to the end   *)
(* of the repetitions (the last edits of a whole pass among them, which    *)
(* may last no time there), and the edit after the list.                   *)
EditsWithin(passes) ==
  LET times == [n \in 1..(passes * Len(Edits)) |->
        LET index == 1 + ((n - 1) % Len(Edits))
            start == ((n - 1) \div Len(Edits)) * ListDuration + StartInList(index)
        IN  [mediaTime |-> Edits[index].mediaTime, dwell |-> IsDwell(Edits[index]), start |-> start,
             whole |-> RepeatsUntil /\ (n - 1) \div Len(Edits) < WholePasses,
             end |-> IF index = Len(Edits) /\ OpenLastEdit THEN NoEnd
                     ELSE IF RepeatsUntil THEN Min({start + Edits[index].duration, track.duration})
                     ELSE start + Edits[index].duration]]
  IN  SelectSeq(times, LAMBDA e : e.mediaTime >= 0 /\ (RepeatsUntil => e.whole \/ e.start < track.duration))

AfterList ==
  IF HasImplied /\ ListEnd # NoEnd
  THEN << [mediaTime |-> ImpliedMediaTime, dwell |-> FALSE, start |-> ListEnd, end |-> NoEnd] >>
  ELSE <<>>

(* Enough passes for the times to pass MaxTime.                            *)
EnoughPasses ==
  IF ~Repeats THEN 1 ELSE ((MaxTime + 1) * track.movieTimescale) \div (ListDuration * track.mediaTimescale) + 2

(* The part of the sample that an edit presents, by what is composed at    *)
(* each tick of it: media ticks mediaTime.. from tick ToMedia(start) on.   *)
PresentedBy(e) ==
  LET begins == ToMedia(e.start)
      Within(t) == t >= e.mediaTime /\ (e.end # NoEnd => t - e.mediaTime < ToMedia(e.end) - begins)
      ticks == { t \in composition.start..(composition.end - 1) : Within(t) }
      instant == composition.start = composition.end /\ Within(composition.start)
      dwells == e.mediaTime \in composition.start..Max({composition.start, composition.end - 1})
  IN  IF e.dwell
      THEN { p \in {[time |-> begins, mediaTime |-> e.mediaTime,
                     duration |-> IF e.end = NoEnd THEN 0 ELSE ToMedia(e.end) - begins]} : dwells }
      ELSE { [time |-> begins + Min(ticks) - e.mediaTime, duration |-> Cardinality(ticks),
              mediaTime |-> Min(ticks)] : n \in {0} \ (IF ticks = {} THEN {0} ELSE {}) }
           \cup { [time |-> begins + composition.start - e.mediaTime, duration |-> 0,
                   mediaTime |-> composition.start] : n \in {0} \ (IF instant THEN {} ELSE {0}) }

AllPresentations ==
  LET laidOut == EditsWithin(EnoughPasses) \o AfterList
      all == FlattenSeq([n \in DOMAIN laidOut |-> SetToSeq(PresentedBy(laidOut[n]))])
  IN  SelectSeq(all, LAMBDA p : p.time <= MaxTime /\ p.mediaTime <= MaxTime)

ReturnedInOrder ==
  /\ IsPrefix(returned, AllPresentations)
  /\ stage = Done => returned = AllPresentations
  /\ \A k \in 2..Len(returned) :
       returned[k - 1].time + returned[k - 1].duration <= returned[k].time

(* The presentations returned are those of the edits laid out one by one,  *)
(* none left out however passes are jumped over, in the order of their     *)
(* times and without overlap; and "they go on until their times pass 64    *)
(* bits", where they end, whether or not the list is repeated for ever.    *)
PresentsAsLaidOut == []ReturnedInOrder /\ <>(stage = Done)
===============================================================================
