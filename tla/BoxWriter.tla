------------------------------- MODULE BoxWriter -------------------------------
(***************************************************************************)
(* BoxWriter of crates/isobmff/src/framing/box_writer.rs, which lays boxes *)
(* end to end from the events of a caller that may offer any event at any  *)
(* time, and the reserved space of framing/reserved.rs, which the caller   *)
(* writes over once it knows what goes there.                              *)
(*                                                                         *)
(* The file is a sequence of cells: a header begins with one that holds    *)
(* what it says, a large one (with a largesize) takes two, the others are  *)
(* payload.  A placeholder is as long as a large header.  A cell is 8      *)
(* bytes: what fill leaves of a space is nothing, or enough for a header.  *)
(***************************************************************************)
EXTENDS Integers, Sequences, FiniteSets

CONSTANTS
  Headers,        (* the headers a caller opens boxes with                 *)
  Payloads,       (* the lengths of the payloads it offers                 *)
  Totals,         (* the lengths of the spaces it reserves, none longer    *)
                  (* than CompactTotal                                     *)
  CompactTotal,   (* the largest total of a size of 32 bits                *)
  ToEnd,          (* the total of a box that runs to the end of the file   *)
  MaxLength       (* bound on the length of the file                       *)

VARIABLES
  writer,         (* [state, header, offset, written, next]                *)
  disk,           (* the cells written                                     *)
  reserved,       (* the spaces reserved and not written over yet          *)
  given           (* the boxes that are ended, by what the caller gave:    *)
                  (* [type, offset, payload, length]                       *)

vars == <<writer, disk, reserved, given>>

Header(type, total, length) == [type |-> type, total |-> total, length |-> length]
Payload == Header("payload", 0, 0)

Compact(type, payload) == Header(type, payload + 1, 1)
Large(type, payload) == Header(type, payload + 2, 2)
IsCompact(header) == header.length = 1
Declares(header) == header.total # ToEnd
PayloadLength(header) == header.total - header.length

(* BoxHeader::with_payload_len, the shortest there is.                     *)
HeaderFor(type, payload) ==
  IF payload + 1 <= CompactTotal THEN Compact(type, payload) ELSE Large(type, payload)

(* A header as it is encoded.                                              *)
Cells(header) ==
  IF ~IsCompact(header) THEN <<header, Payload>>
  ELSE IF Declares(header) THEN <<[header EXCEPT !.total = @ % (CompactTotal + 1)]>>
  ELSE <<header>>

NoHeader == Header("none", 0, 0)

(* A compact header holds its total in 32 bits, and none is shorter than   *)
(* itself; a space that is reserved has a compact header.                  *)
ASSUME LengthAssumption ==
  /\ CompactTotal \in Nat /\ CompactTotal > 0 /\ ToEnd \notin Nat
  /\ Payloads \subseteq Nat /\ Totals \subseteq 0..CompactTotal
ASSUME HeaderAssumption ==
  \A header \in Headers :
    /\ header \in [type : { other.type : other \in Headers }, total : Nat \cup {ToEnd}, length : 1..2]
    /\ Declares(header) => header.length <= header.total
    /\ Declares(header) /\ IsCompact(header) => header.total <= CompactTotal

Init ==
  /\ writer = [state |-> "open", header |-> NoHeader, offset |-> 0, written |-> 0, next |-> 0]
  /\ disk = <<>>
  /\ reserved = {}
  /\ given = {}
-------------------------------------------------------------------------------
(* handle_event, as operators on the writer: whether an event is taken,    *)
(* what the writer is after it, and what is to be written.                 *)
Open(header) == [kind |-> "header", header |-> header, bytes |-> 0]
Bytes(n) == [kind |-> "payload", header |-> NoHeader, bytes |-> n]
End == [kind |-> "end", header |-> NoHeader, bytes |-> 0]

Taken(w, event) ==
  CASE event.kind = "header" -> w.state = "open" /\ event.header.type # "reserved type"
    [] event.kind = "payload" ->
         w.state = "writing" /\ (Declares(w.header) => w.written + event.bytes <= PayloadLength(w.header))
    [] event.kind = "end" ->
         w.state = "writing" /\ (Declares(w.header) => w.written = PayloadLength(w.header))

NextAfterPayload(w) == w.offset + w.written  (* slip: does not count the header *)
NextAfter(w) == w.offset + w.header.length + w.written

After(w, event) ==
  CASE event.kind = "header" ->
         [w EXCEPT !.state = "writing", !.header = event.header, !.offset = w.next, !.written = 0]
    [] event.kind = "payload" -> [w EXCEPT !.written = @ + event.bytes]
    [] event.kind = "end" ->
         [w EXCEPT !.state = IF Declares(w.header) THEN "open" ELSE "past the end of the file",
                   !.next = NextAfter(w)]

Written(event) == IF event.kind = "header" THEN Cells(event.header) ELSE [n \in 1..event.bytes |-> Payload]

(* The box that an end event ends.                                         *)
Box(header, offset, payload) ==
  [type |-> header.type, offset |-> offset, payload |-> payload, length |-> header.length + payload]
Ended(w) == Box(w.header, w.offset, w.written)

HandleEvent(event) ==
  IF Taken(writer, event)
  THEN /\ writer' = After(writer, event)
       /\ disk' = disk \o Written(event)
       /\ given' = IF event.kind = "end" THEN given \cup {Ended(writer)} ELSE given
       /\ UNCHANGED reserved
  ELSE UNCHANGED vars

(* A box written whole, by its header, its payload and its end; where one  *)
(* is refused, those before it were taken.                                 *)
WriteWhole(header, payload, spaces) ==
  LET opened == After(writer, Open(header))
      filled == After(opened, Bytes(payload))
  IN  IF ~Taken(writer, Open(header)) THEN UNCHANGED vars
      ELSE IF ~Taken(opened, Bytes(payload)) THEN writer' = opened /\ UNCHANGED <<disk, given, reserved>>
      ELSE IF ~Taken(filled, End) THEN writer' = filled /\ UNCHANGED <<disk, given, reserved>>
      ELSE /\ writer' = After(filled, End)
           /\ disk' = disk \o Written(Open(header)) \o Written(Bytes(payload))
           /\ given' = given \cup {Box(header, writer.next, payload)}
           /\ reserved' = reserved \cup spaces

WriteBox(type, payload) == WriteWhole(HeaderFor(type, payload), payload, {})

(* finish ends a box that runs to the end of the file.                     *)
Finish ==
  IF writer.state = "finished" \/ (writer.state = "writing" /\ Declares(writer.header)) THEN UNCHANGED vars
  ELSE /\ writer' = [writer EXCEPT !.state = "finished"]
       /\ given' = IF writer.state = "writing" THEN given \cup {Ended(writer)} ELSE given
       /\ UNCHANGED <<disk, reserved>>
-------------------------------------------------------------------------------
(* Reserved space: a free box, whose place the caller keeps.               *)
WriteReserved(total) ==
  LET header == HeaderFor("free", total - 1)
  IN  IF total = 0 THEN UNCHANGED vars
      ELSE WriteWhole(header, total - header.length, { [offset |-> writer.next, length |-> total] })

Overwritten(cells, offset) ==
  [n \in DOMAIN disk |-> IF n - offset \in DOMAIN cells THEN cells[n - offset] ELSE disk[n]]

(* fill: a box at the start of a space, and the header of a free box that  *)
(* spans the rest of it, which keeps the bytes it holds.                   *)
RestHeaderOfAll(rest) == Compact("free", rest)  (* slip: spans its header twice *)
RestHeader(rest) == Compact("free", rest - 1)

FilledWith(space, payload) ==
  LET header == HeaderFor("moov", payload)
      filled == space.offset + header.length + payload
      rest == space.offset + space.length - filled
  IN  [header |-> header, rest |-> rest,
       boxes |-> {Box(header, space.offset, payload)}
                 \cup { Box(RestHeader(rest), filled, n) : n \in {rest - 1} \cap Nat }]

Fill(space, payload) ==
  \E with \in {FilledWith(space, payload)} :
    /\ with.rest \in 0..CompactTotal
    /\ disk' = Overwritten(Cells(with.header) \o Written(Bytes(payload))
                           \o (IF with.rest = 0 THEN <<>> ELSE Cells(RestHeader(with.rest))), space.offset)
    /\ given' = { box \in given : box.offset # space.offset } \cup with.boxes
    /\ reserved' = reserved \ {space}
    /\ UNCHANGED writer

(* media_data_header: a placeholder and everything behind it becomes an    *)
(* mdat, behind an empty free box where its header is compact.             *)
MediaDataHeader(space) ==
  LET payload == writer.next - (space.offset + space.length)
      header == HeaderFor("mdat", payload)
      free == IF IsCompact(header) THEN {Box(Compact("free", 0), space.offset, 0)} ELSE {}
      start == space.offset + Cardinality(free)
  IN  /\ space.length = 2 /\ writer.state = "open"
      /\ disk' = Overwritten((IF IsCompact(header) THEN Cells(Compact("free", 0)) ELSE <<>>) \o Cells(header),
                             space.offset)
      /\ given' = { box \in given : box.offset < space.offset } \cup free \cup {Box(header, start, payload)}
      /\ reserved' = { s \in reserved : s.offset < space.offset }
      /\ UNCHANGED writer
-------------------------------------------------------------------------------
Fits(length) == Len(disk) + length <= MaxLength

Next ==
  \/ \E header \in Headers : Fits(header.length) /\ HandleEvent(Open(header))
  \/ \E n \in Payloads : Fits(n) /\ HandleEvent(Bytes(n))
  \/ HandleEvent(End)
  \/ \E n \in Payloads : Fits(n + 2) /\ WriteBox("moov", n)
  \/ \E total \in Totals : Fits(total) /\ WriteReserved(total)
  \/ \E space \in reserved : \E n \in Payloads : Fill(space, n)
  \/ \E space \in reserved : MediaDataHeader(space)
  \/ Finish

Spec == Init /\ [][Next]_vars
-------------------------------------------------------------------------------
(* PROPERTIES                                                              *)

(* Where the boxes that are ended end.                                     *)
IsOpen == writer.state = "writing"
BoxesEnd == IF IsOpen THEN writer.next ELSE Len(disk)

(* A reader finds a box by the header at its offset, as long as it says.   *)
LiesThere(box) ==
  LET header == disk[box.offset + 1]
  IN  /\ box.offset + box.length <= BoxesEnd
      /\ header.type = box.type /\ header.length + box.payload = box.length
      /\ box.length = IF Declares(header) THEN header.total ELSE BoxesEnd - box.offset

(* From the first cell to the end there is a box behind each box, and none *)
(* lies over another.                                                      *)
EndToEnd ==
  /\ BoxesEnd > 0 => \E box \in given : box.offset = 0
  /\ \A box \in given :
       \/ box.offset + box.length = BoxesEnd
       \/ \E next \in given : next.offset = box.offset + box.length
  /\ \A box, other \in given :
       \/ box = other
       \/ box.offset + box.length <= other.offset
       \/ other.offset + other.length <= box.offset

(* The box that is open lies behind them, and what it owes and its end are *)
(* taken.                                                                  *)
CanBeEnded ==
  /\ Len(disk) = writer.next + writer.header.length + writer.written
  /\ disk[writer.next + 1] = Cells(writer.header)[1]
  /\ Declares(writer.header) =>
       LET owed == Bytes(PayloadLength(writer.header) - writer.written)
       IN  Taken(writer, owed) /\ Taken(After(writer, owed), End)

(* Whatever events came before it and were refused, and whatever was       *)
(* written over: the boxes ended so far are found end to end, as given,    *)
(* the next box starts where next_offset says, and the box that is open    *)
(* lies there and can be brought to its end.                               *)
FramesWhatWasGiven ==
  /\ \A box \in given : LiesThere(box)
  /\ EndToEnd
  /\ writer.state \in {"open", "past the end of the file"} => writer.next = Len(disk)
  /\ IsOpen => CanBeEnded
===============================================================================
