----------------------------- MODULE BoxCodecs -----------------------------
(***************************************************************************)
(* A value is encoded, the payload is stored and may be damaged, decoded,  *)
(* and what was decoded is encoded again.                                  *)
(***************************************************************************)
EXTENDS BoxSamples

CONSTANT Reach    \* how many of the first bytes of a payload may be damaged

VARIABLES box,      \* the type of the box
          value,    \* the value its encoder is given
          origin,   \* where the value is from: a caller, or a payload read
          payload,  \* the payload in the file
          intact,   \* the payload is what the encoder wrote
          stage     \* held, written, read, refused or unreadable
vars == <<box, value, origin, payload, intact, stage>>

Init ==
    /\ box \in DOMAIN Codecs
    /\ \E seed \in Seeds(box) : value = SampleBox(box, seed)
    /\ origin = "caller"
    /\ payload = Nothing
    /\ intact = FALSE
    /\ stage = "held"

(* encode_payload: a buffer of the announced length, which the fields must *)
(* fill.                                                                   *)
EncodePayload ==
    /\ stage = "held"
    /\ \E out \in {Encode(box, value)} :
         IF out = {}
         THEN /\ stage' = "refused"
              /\ UNCHANGED <<payload, intact>>
         ELSE /\ payload' \in out
              /\ intact' = TRUE
              /\ stage' = "written"
    /\ UNCHANGED <<box, value, origin>>

(* decode_payload; what is read is the value a next encoding is given.     *)
DecodePayload ==
    /\ stage = "written"
    /\ \E in \in {Decode(box, payload)} :
         IF in = {}
         THEN /\ stage' = "unreadable"
              /\ UNCHANGED <<value, origin>>
         ELSE /\ value' \in in
              /\ origin' = "file"
              /\ stage' = "read"
    /\ UNCHANGED <<box, payload, intact>>

(* What another writer, or a fault, may have put in the file instead.      *)
Stray == [type |-> "zzzz", payload |-> Payload(<<1>>, <<>>)]
WithBytes(p, bytes) == [p EXCEPT !.bytes = bytes]
WithBoxes(p, boxes) == [p EXCEPT !.boxes = boxes]
AnyField(layout, Test(_)) ==    \* a field of the layout, in some version
    \E i \in DOMAIN layout :
        IF layout[i].k # "byVersion" THEN Test(layout[i])
        ELSE \E v \in DOMAIN layout[i].cases :
               \E j \in DOMAIN layout[i].cases[v] : Test(layout[i].cases[v][j])
HasChildren(type) ==
    AnyField(Codecs[type].layout, LAMBDA f : f.k \in {"children", "boxes", "derived"})
Counts(type) == AnyField(Codecs[type].layout, LAMBDA f : f.k = "boxes" /\ f.count # <<>>)
Reached(p) ==    \* where bytes are damaged: the first ones and the last one
    (1 .. Min({Reach, Len(p.bytes)})) \cup ({Len(p.bytes)} \ {0})
DamagedBytes(p) ==
    {WithBytes(p, SubSeq(p.bytes, 1, i - 1)) : i \in Reached(p)}
      \cup {WithBytes(p, [p.bytes EXCEPT ![i] = b]) :
              i \in Reached(p), b \in {0, 1, 2, 255}}
      \cup {WithBytes(p, Append(p.bytes, b)) : b \in {0, 66}}
DamagedBoxes(p) ==
    {WithBoxes(p, SubSeq(p.boxes, 1, i) \o <<Stray>>
                    \o SubSeq(p.boxes, i + 1, Len(p.boxes))) :
       i \in 0 .. Len(p.boxes)}
      \cup {WithBoxes(p, RemoveAt(p.boxes, i)) : i \in 1 .. Len(p.boxes)}
      \cup {WithBoxes(p, InsertAt(p.boxes, i, p.boxes[i])) :
              i \in 1 .. Len(p.boxes)}
      \cup {WithBoxes(p, [p.boxes EXCEPT ![i].payload = Nothing]) :
              i \in 1 .. Len(p.boxes)}
      \cup {WithBoxes(p, Reverse(p.boxes))}
Damaged(type, p) ==
    DamagedBytes(p) \cup (IF HasChildren(type) THEN DamagedBoxes(p) ELSE {})

Damage ==
    /\ stage = "written" /\ origin = "caller" /\ intact
    /\ payload' \in Damaged(box, payload) \ {payload}
    /\ intact' = FALSE
    /\ UNCHANGED <<box, value, origin, stage>>

EncodeAgain ==
    /\ stage = "read"
    /\ ~intact
    /\ stage' = "held"
    /\ UNCHANGED <<box, value, origin, payload, intact>>

Next == EncodePayload \/ DecodePayload \/ Damage \/ EncodeAgain
Spec == Init /\ [][Next]_vars

----------------------------------------------------------------------------
(* Whatever an encoder writes is decoded, and as the value it was given:   *)
(* also for a value decoded from a payload no encoder wrote.               *)
ReadsBack ==
    [][(stage = "written" /\ intact /\ stage' # "written")
         => (stage' = "read" /\ value' = value)]_vars

(* An encoder that refuses a value refuses it for what it holds, never     *)
(* because the fields do not fill the length it announced.                 *)
LengthTold == stage = "refused" => WriteBox(box, value) = {}

(* A box that is read and written again has the child boxes it had, of     *)
(* whatever types and whether or not they could be decoded, but for those  *)
(* after the last that a box with a count of them counts.                  *)
TypesIn(p) == [type \in {b.type : b \in ToSet(p.boxes)} |->
                 Cardinality({i \in DOMAIN p.boxes : p.boxes[i].type = type})]
ChildrenKept ==
    [][(stage = "held" /\ origin = "file" /\ stage' = "written"
          /\ HasChildren(box) /\ ~Counts(box))
         => TypesIn(payload') = TypesIn(payload)]_vars
=============================================================================
