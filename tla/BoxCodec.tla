------------------------------ MODULE BoxCodec ------------------------------
(***************************************************************************)
(* Decoding and encoding the payload of a box, as the decoders and the     *)
(* encoders of the box crate do it with FieldReader, FieldWriter and       *)
(* ChildBoxes.  A payload is the bytes before its child boxes and the      *)
(* children, each a type and a payload: how a box is framed is modelled in *)
(* BoxFraming.  Reading and writing give the set of what they result in,   *)
(* which is empty when they are refused.                                   *)
(***************************************************************************)
EXTENDS BoxFields, Folds, FiniteSetsExt

CONSTANT Codecs    \* box type -> the layout of its payload and its length

ASSUME CodecsDescribed ==
    \A type \in DOMAIN Codecs : {"layout", "length"} \subseteq DOMAIN Codecs[type]

Payload(bytes, boxes) == [bytes |-> bytes, boxes |-> boxes]
Nothing == Payload(<<>>, <<>>)
Append2(p, q) == Payload(p.bytes \o q.bytes, p.boxes \o q.boxes)
HeaderLength == 8

RECURSIVE PayloadBytes(_)
PayloadBytes(p) ==
    Len(p.bytes)
      + FoldSeq(LAMBDA b, sum : sum + HeaderLength + PayloadBytes(b.payload),
                0, p.boxes)

----------------------------------------------------------------------------
(* Numbers and bits.                                                       *)

RECURSIVE IntOf(_)
IntOf(bytes) ==     \* counts and widths; a large one is only known as large
    IF bytes = <<>> THEN 0
    ELSE IF Len(bytes) > 2 /\ Head(bytes) # 0 THEN 65536
    ELSE LET low == IntOf(Tail(bytes))
         IN IF Head(bytes) = 0 THEN low
            ELSE Head(bytes) * (IF Len(bytes) = 2 THEN 256 ELSE 1) + low

BytesOfInt(int, n) ==
    [i \in 1 .. n |-> IF n - i > 1 THEN 0 ELSE (int \div 256 ^ (n - i)) % 256]

BitsOfBytes(bytes) ==
    [i \in 1 .. 8 * Len(bytes) |->
        (bytes[(i - 1) \div 8 + 1] \div 2 ^ (7 - ((i - 1) % 8))) % 2]
IntOfBits(bits) == FoldLeft(LAMBDA int, bit : 2 * int + bit, 0, bits)
BytesOfBits(bits) ==
    [i \in 1 .. Len(bits) \div 8 |-> IntOfBits(SubSeq(bits, 8 * i - 7, 8 * i))]
BitsOfInt(int, w) == [i \in 1 .. w |-> (int \div 2 ^ (w - i)) % 2]
Repeated(bit, n) == [i \in 1 .. n |-> bit]
SumOf(seq) == FoldLeft(LAMBDA sum, n : sum + n, 0, seq)

(* The flags of three bytes, by the position of their bits.                *)
FlagsOf(bytes) ==
    LET bits == BitsOfBytes(bytes) IN {b \in 0 .. 23 : bits[24 - b] = 1}
FlagBytes(flags) ==
    BytesOfBits([i \in 1 .. 24 |-> IF 24 - i \in flags THEN 1 ELSE 0])

IsText(bytes) == \A i \in 1 .. Len(bytes) : bytes[i] \in 1 .. 127
IsBase64(bytes) ==
    /\ Len(bytes) % 4 = 0
    /\ \A i \in 1 .. Len(bytes) :
         bytes[i] \in (65 .. 90) \cup (97 .. 122) \cup (48 .. 57) \cup {43, 47}
           \cup (IF i + 2 > Len(bytes) THEN {61} ELSE {})
UpToZero(bytes) ==
    LET zeros == {i \in 1 .. Len(bytes) : bytes[i] = 0}
    IN IF zeros = {} THEN bytes ELSE SubSeq(bytes, 1, Min(zeros) - 1)

(* A string that opens with a byte order mark is of 16-bit units, and ends *)
(* with a unit of zero.                                                    *)
IsUtf16(bytes) ==
    Len(bytes) >= 2 /\ SubSeq(bytes, 1, 2) \in {<<254, 255>>, <<255, 254>>}
UtfTerminator(bytes) == IF IsUtf16(bytes) THEN <<0, 0>> ELSE <<0>>
UpToTerminator(bytes) ==
    IF ~IsUtf16(bytes) THEN UpToZero(bytes)
    ELSE LET ends == {i \in 0 .. Len(bytes) \div 2 - 1 :
                        SubSeq(bytes, 2 * i + 1, 2 * i + 2) = <<0, 0>>}
         IN IF ends = {} THEN bytes ELSE SubSeq(bytes, 1, 2 * Min(ends))
IsUtf(bytes) == IF IsUtf16(bytes) THEN Len(bytes) % 2 = 0 ELSE IsText(bytes)

WidthAt(widths, version) == widths[Min({version + 1, Len(widths)})]

(* A number fits fewer bytes when those before them are their extension.   *)
Extension(signed, bytes) ==
    IF signed /\ bytes # <<>> /\ Head(bytes) >= 128 THEN 255 ELSE 0
Lowest(bytes, width) == SubSeq(bytes, Len(bytes) - width + 1, Len(bytes))
Fits(signed, bytes, width) ==
    \A i \in 1 .. Len(bytes) - width :
        bytes[i] = Extension(signed, Lowest(bytes, width))
FitsBits(bytes, w) == \A i \in 1 .. 32 - w : BitsOfBytes(bytes)[i] = 0
WidenedUnsigned(signed, bytes, width) ==    \* a slip: the sign is lost
    Repeated(0, width - Len(bytes)) \o bytes
Widened(signed, bytes, width) ==
    Repeated(Extension(signed, bytes), width - Len(bytes)) \o bytes

----------------------------------------------------------------------------
(* What is known while a payload is read or written: the version and flags *)
(* of its full box header and the numbers that other fields refer to.      *)

Unknown == [version |-> 0, flags |-> {}, named |-> <<>>]
Name(env, name, known) == [env EXCEPT !.named = (name :> known) @@ @]
Learn(env, f, int) == IF "name" \in DOMAIN f THEN Name(env, f.name, int) ELSE env
LearnBits(env, f, bits) ==
    IF "flag" \in DOMAIN f /\ bits = <<1>>
    THEN [env EXCEPT !.flags = @ \cup {f.flag}]
    ELSE Learn(env, f, IF "name" \in DOMAIN f THEN IntOfBits(bits) ELSE 0)
LearnBytes(env, f, bytes) ==
    IF "code" \in DOMAIN f THEN Name(env, f.code, bytes)
    ELSE Learn(env, f, IntOf(bytes))

Took(value, rest, env) == [value |-> value, rest |-> rest, env |-> env]
Drop(p, n) == [p EXCEPT !.bytes = SubSeq(@, Min({n, Len(@)}) + 1, Len(@))]
Ahead(p, n) == SubSeq(p.bytes, 1, Min({n, Len(p.bytes)}))

(* A field of n bytes: refused when fewer are left.                        *)
TakeBytes(p, n, Value(_), Env(_), env) ==
    IF Len(p.bytes) < n THEN {}
    ELSE {Took(Value(Ahead(p, n)), Drop(p, n), Env(Ahead(p, n)))}

WidthOf(items) == FoldSeq(LAMBDA item, w : item.w + w, 0, items)

RECURSIVE ReadItems(_, _, _)
ReadItems(items, bits, env) ==
    IF items = <<>> THEN {Took(<<>>, Nothing, env)}
    ELSE LET item == Head(items)
             own == SubSeq(bits, 1, item.w)
             after == SubSeq(bits, item.w + 1, Len(bits))
             env2 == CASE item.k = "number" -> LearnBits(env, item, own)
                       [] item.k = "present" /\ own = <<1>> ->
                            [env EXCEPT !.flags = @ \cup {item.bit}]
                       [] OTHER -> env
         IN IF \/ item.k = "exactly" /\ 1 \in ToSet(own)
               \/ item.k = "pinned" /\ IntOfBits(own) # item.int
               \/ "reads" \in DOMAIN item /\ IntOfBits(own) > item.reads
            THEN {}
            ELSE {Took(<<IF item.k = "number" THEN own ELSE <<>> >> \o r.value,
                       Nothing, r.env) : r \in ReadItems(Tail(items), after, env2)}

----------------------------------------------------------------------------
(* Reading.                                                                *)

RECURSIVE ReadField(_, _, _), ReadFields(_, _, _), ReadTimes(_, _, _, _),
          ReadBox(_, _), ReadClaims(_, _), ReadBoxes(_, _, _)

ReadFields(fields, p, env) ==
    IF fields = <<>> THEN {Took(<<>>, p, env)}
    ELSE UNION {{Took(<<r.value>> \o s.value, s.rest, s.env) :
                   s \in ReadFields(Tail(fields), r.rest, r.env)} :
                r \in ReadField(Head(fields), p, env)}

(* Entries know what is known of the box, and are forgotten one by one.    *)
ReadTimes(fields, n, p, env) ==
    IF n = 0 THEN {Took(<<>>, p, env)}
    ELSE UNION {{Took(<<r.value>> \o s.value, s.rest, env) :
                   s \in ReadTimes(fields, n - 1, r.rest, env)} :
                r \in ReadFields(fields, p, env)}

RECURSIVE ReadToEnd(_, _, _, _)
ReadToEnd(fields, spare, p, env) ==
    IF Len(p.bytes) <= spare THEN {Took(<<>>, p, env)}
    ELSE UNION {{Took(<<r.value>> \o s.value, s.rest, env) :
                   s \in ReadToEnd(fields, spare, r.rest, env)} :
                r \in ReadFields(fields, p, env)}

(* Entries of no bytes at all are at most one.                             *)
TooMany(f, count, env) ==
    "widths" \in DOMAIN f /\ count > 1 /\ \A name \in f.widths : env.named[name] = 0

(* A table is refused before it is read when not even entries of one byte  *)
(* would fit.                                                              *)
ReadCounted(f, p, env) ==
    LET n == WidthAt(f.n, env.version)
        count == IntOf(Ahead(p, n))
    IN IF \/ Len(p.bytes) < n
          \/ count > Len(p.bytes) + 16 * Len(p.boxes)
          \/ TooMany(f, count, env)
       THEN {}
       ELSE ReadTimes(f.fields, count, Drop(p, n), env)

(* The bits before a count, the count, and as many entries.                *)
ReadCountedIn(f, p, env) ==
    LET width == WidthOf(f.items) + f.w + f.pad
        bits == BitsOfBytes(Ahead(p, width \div 8))
        before == WidthOf(f.items)
        count == IntOfBits(SubSeq(bits, before + 1, before + f.w)) + f.less
    IN IF \/ Len(p.bytes) < width \div 8
          \/ count > Len(p.bytes)
          \/ \E i \in before + f.w + 1 .. width : bits[i] = 1
       THEN {}
       ELSE UNION {UNION {
              {Took([bits |-> b.value, between |-> t.value, entries |-> r.value], r.rest, env) :
                 r \in ReadTimes(f.fields, count, t.rest, t.env)} :
              t \in ReadFields(f.between, Drop(p, width \div 8), b.env)} :
              b \in ReadItems(f.items, bits, env)}

BytesOfEntries(items, count) == ((WidthOf(items) * count) + 7) \div 8
ReadCountedBits(f, p, env) ==
    LET count == IntOf(Ahead(p, f.n))
        length == BytesOfEntries(f.items, count)
        bits == BitsOfBytes(Ahead(Drop(p, f.n), length))
        w == WidthOf(f.items)
    IN IF Len(p.bytes) < f.n + length THEN {}
       ELSE {Took([e \in 1 .. count |->
                     (CHOOSE r \in ReadItems(f.items,
                                 SubSeq(bits, (w * (e - 1)) + 1, w * e), env) :
                        TRUE).value],
                  Drop(p, f.n + length), env)}

(* Rows of no fields are only counted.                                     *)
ReadRows(f, p, env) ==
    LET count == IntOf(Ahead(p, f.n))
        rowless == count = 0 \/ (f.parts # {} /\ f.parts \cap env.flags = {})
    IN IF Len(p.bytes) < f.n THEN {}
       ELSE UNION {
         IF rowless
         THEN {Took([count |-> Ahead(p, f.n), between |-> b.value, rows |-> <<>>],
                    b.rest, b.env)}
         ELSE IF count > Len(b.rest.bytes) + 1 THEN {}
         ELSE {Took([count |-> <<>>, between |-> b.value, rows |-> r.value],
                    r.rest, b.env) : r \in ReadTimes(f.fields, count, b.rest, b.env)} :
         b \in ReadFields(f.between, Drop(p, f.n), env)}

ReadFull(f, p, env) ==
    IF Len(p.bytes) < 4 \/ p.bytes[1] \notin f.versions THEN {}
    ELSE LET flags == FlagsOf(SubSeq(p.bytes, 2, 4))
         IN IF "knows" \in DOMAIN f /\ ~(flags \cap (0 .. 15) \subseteq f.knows)
            THEN {}
            ELSE {Took([version |-> IF f.rule = "kept" THEN p.bytes[1] ELSE 0,
                        flags |-> flags \cap f.keep],
                       Drop(p, 4),
                       [env EXCEPT !.version = p.bytes[1], !.flags = flags])}

ReadString(f, p, env) ==
    LET text == UpToZero(p.bytes)
        length == IF f.toEnd THEN Len(p.bytes)
                  ELSE Min({Len(text) + 1, Len(p.bytes)})
    IN {Took(text, Drop(p, length), env)}

ReadByCode(f, p, env) ==
    IF Len(p.bytes) < f.n THEN {}
    ELSE LET code == Ahead(p, f.n)
             known == code \in DOMAIN f.cases
             fields == IF known THEN f.cases[code] ELSE f.other
         IN IF ~known /\ f.other = <<>> THEN {}
            ELSE {Took([code |-> code, value |-> r.value, known |-> known],
                       r.rest, r.env) :
                    r \in ReadFields(fields, Drop(p, f.n), env)}

ReadByNamed(f, p, env) ==
    IF env.named[f.name] \notin DOMAIN f.cases THEN {}
    ELSE {[r EXCEPT !.value = [known |-> TRUE, value |-> r.value]] :
            r \in ReadFields(f.cases[env.named[f.name]], p, env)}

(* The part, of which the fields must leave nothing, or else its bytes.    *)
ReadInPart(f, p, env) ==
    LET stated == env.named[f.length] = 0
        length == IF stated THEN IntOf(Ahead(p, 4)) ELSE env.named[f.length]
        start == IF stated THEN 4 ELSE 0
        part == Payload(Ahead(Drop(p, start), length), <<>>)
    IN IF Len(p.bytes) < start + length THEN {}
       ELSE {Took(IF whole = {} THEN [known |-> FALSE, value |-> <<part.bytes>>]
                  ELSE CHOOSE value \in whole : TRUE,
                  Drop(p, start + length), env) :
               whole \in {{r.value : r \in {t \in ReadByNamed(f, part, env) :
                                              t.rest.bytes = <<>>}}}}

ReadByZero(f, p, env) ==
    UNION {{Took([first |-> r.value, value |-> s.value], s.rest, s.env) :
              s \in ReadFields(IF IsZero(r.value) THEN f.zero ELSE f.other,
                               r.rest, r.env)} :
           r \in ReadField(f.first, p, env)}

(* Patterns, and the widths of their parts by the codes in the flags.      *)
SizeCode(flags, low) ==
    (IF low + 1 \in flags THEN 2 ELSE 0) + (IF low \in flags THEN 1 ELSE 0)
FieldBits(flags, low) == 4 * (2 ^ SizeCode(flags, low))
PairBits(flags) == FieldBits(flags, 4) + FieldBits(flags, 2)
PairRefused(flags) == (SizeCode(flags, 4) = 0) # (SizeCode(flags, 2) = 0)
FourBytes(bits) == BytesOfBits(Repeated(0, 32 - Len(bits)) \o bits)
Packed(n, w) == ((n * w) + 7) \div 8    \* the bytes of n numbers of w bits
Part(bits, w, i) == SubSeq(bits, (w * (i - 1)) + 1, w * i)

ReadPatterns(p, env) ==
    LET length == FieldBits(env.flags, 4)
        count == FieldBits(env.flags, 2)
        index == FieldBits(env.flags, 0)
        number == IntOf(Ahead(p, 4))
        after == 4 + (number * (PairBits(env.flags) \div 8))
    IN IF Len(p.bytes) < 4 \/ PairRefused(env.flags) \/ Len(p.bytes) < after THEN {}
       ELSE UNION {
         IF Len(p.bytes) < after + Packed(SumOf(lengths), index) THEN {}
         ELSE {Took([i \in 1 .. number |->
                  [count |-> FourBytes(SubSeq(Part(pairs, PairBits(env.flags), i),
                                              length + 1, length + count)),
                   indices |-> [j \in 1 .. lengths[i] |->
                      FourBytes(Part(indices, index,
                                     SumOf(SubSeq(lengths, 1, i - 1)) + j))]]],
                  Drop(p, after + Packed(SumOf(lengths), index)), env) :
               indices \in {BitsOfBytes(SubSeq(p.bytes, after + 1,
                                        after + Packed(SumOf(lengths), index)))}} :
         pairs \in {BitsOfBytes(SubSeq(p.bytes, 5, after))},
         lengths \in {[i \in 1 .. number |->
            IntOf(FourBytes(SubSeq(
              Part(BitsOfBytes(SubSeq(p.bytes, 5, after)), PairBits(env.flags), i),
              1, length)))]}}

(* Whether the fields of the one layout or of the other are there.         *)
TakesSet(f, p, env) ==
    IF "ahead" \in DOMAIN f THEN Ahead(p, Len(f.ahead)) = f.ahead
    ELSE IF f.k = "peek" THEN p.bytes # <<>> /\ Head(p.bytes) >= 128
    ELSE f.bit \in env.flags

ReadField(f, p, env) ==
    CASE f.k = "bytes" ->
           TakeBytes(p, f.n, LAMBDA b : b, LAMBDA b : LearnBytes(env, f, b), env)
      [] f.k = "const" ->
           TakeBytes(p, Len(f.bytes), LAMBDA b : <<>>, LAMBDA b : env, env)
      [] f.k = "wide" ->
           TakeBytes(p, WidthAt(f.widths, env.version),
                     LAMBDA b : Widened(f.signed, b, f.keep), LAMBDA b : env, env)
      [] f.k = "offset" ->
           TakeBytes(p, 4, LAMBDA b : Widened(env.version # 0, b, 8),
                     LAMBDA b : env, env)
      [] f.k = "sized" ->
           TakeBytes(p, env.named[f.name] + f.plus,
                     LAMBDA b : Widened(FALSE, b, f.keep), LAMBDA b : env, env)
      [] f.k = "rest" -> {Took(p.bytes, Drop(p, Len(p.bytes)), env)}
      [] f.k = "string" -> ReadString(f, p, env)
      [] f.k = "utf" ->
           {Took(UpToTerminator(p.bytes), Drop(p, Len(p.bytes)), env)}
      [] f.k = "words" ->
           IF p.bytes = <<>> THEN {}
           ELSE TakeBytes(Drop(p, 1),
                          IF p.bytes[1] = 0 THEN 0 ELSE (4 * p.bytes[1]) - 2,
                          LAMBDA b : b, LAMBDA b : env, env)
      [] f.k = "padded" ->
           IF p.bytes = <<>> \/ Head(p.bytes) > f.n THEN {}
           ELSE TakeBytes(Drop(p, 1), f.n,
                          LAMBDA b : SubSeq(b, 1, Head(p.bytes)),
                          LAMBDA b : env, env)
      [] f.k = "bits" ->
           IF Len(p.bytes) < WidthOf(f.items) \div 8 THEN {}
           ELSE {[r EXCEPT !.rest = Drop(p, WidthOf(f.items) \div 8)] :
                   r \in ReadItems(f.items,
                           BitsOfBytes(Ahead(p, WidthOf(f.items) \div 8)),
                           env)}
      [] f.k = "full" -> ReadFull(f, p, env)
      [] f.k = "group" -> ReadFields(f.fields, p, env)
      [] f.k = "when" ->
           IF (f.bit \in env.flags) = f.on
           THEN {[r EXCEPT !.value = <<r.value>>] :
                   r \in ReadFields(f.fields, p, env)}
           ELSE {Took(<<>>, p, env)}
      [] f.k = "ifLeft" ->
           IF Len(p.bytes) >= f.least
           THEN {[r EXCEPT !.value = <<r.value>>] :
                   r \in ReadFields(f.fields, p, env)}
           ELSE {Took(<<>>, p, env)}
      [] f.k \in {"either", "peek"} ->
           {[r EXCEPT !.value = [set |-> TakesSet(f, p, env), value |-> r.value]] :
              r \in ReadFields(IF TakesSet(f, p, env) THEN f.set ELSE f.clear,
                               p, env)}
      [] f.k = "byFlag" ->
           ReadFields(IF TakesSet(f, p, env) THEN f.set ELSE f.clear, p, env)
      [] f.k = "counted" -> ReadCounted(f, p, env)
      [] f.k = "countedIn" -> ReadCountedIn(f, p, env)
      [] f.k = "countedBits" -> ReadCountedBits(f, p, env)
      [] f.k = "rows" -> ReadRows(f, p, env)
      [] f.k = "times" -> ReadTimes(f.fields, env.named[f.name], p, env)
      [] f.k = "toEnd" ->
           ReadToEnd(f.fields, IF f.before \in env.flags THEN 1 ELSE 0, p, env)
      [] f.k = "byVersion" ->
           IF env.version \notin DOMAIN f.cases THEN {}
           ELSE {[r EXCEPT !.value = [version |-> env.version,
                                      value |-> r.value]] :
                   r \in ReadFields(f.cases[env.version], p, env)}
      [] f.k = "byCode" -> ReadByCode(f, p, env)
      [] f.k = "byNamed" -> ReadByNamed(f, p, env)
      [] f.k = "inPart" -> ReadInPart(f, p, env)
      [] f.k = "byZero" -> ReadByZero(f, p, env)
      [] f.k = "patterns" -> ReadPatterns(p, env)
      [] f.k = "children" -> ReadClaims(f, p)
      [] f.k = "boxes" -> ReadBoxes(f, p, env)
      [] f.k = "leading" ->
           IF p.boxes = <<>> \/ Head(p.boxes).type # f.type THEN {Took(<<>>, p, env)}
           ELSE {Took(<<[type |-> f.type, codec |-> f.type, value |-> v]>>,
                      [p EXCEPT !.boxes = Tail(@)], env) :
                   v \in ReadBox(f.type, Head(p.boxes).payload)}
      [] f.k = "derived" ->
           LET others == SelectSeq(p.boxes, LAMBDA b : b.type \in f.types)
               n == IF others = <<>> THEN Len(p.boxes)
                    ELSE Min({i \in DOMAIN p.boxes : p.boxes[i].type \in f.types}) - 1
           IN {Took(SubSeq(p.boxes, 1, n),
                    [p EXCEPT !.boxes = SubSeq(@, n + 1, Len(@))], env)}

(* What lies past the fields of a box is skipped.                          *)
ReadBox(type, p) ==
    {r.value : r \in ReadFields(Codecs[type].layout, p, Unknown)}
Decode(type, p) == ReadBox(type, p)

----------------------------------------------------------------------------
(* The claims on the children, in turn; what none takes is kept, in order. *)

ClaimedAt(claim, boxes) == {i \in 1 .. Len(boxes) : boxes[i].type \in claim.types}
ReadChild(box) == {[type |-> box.type, value |-> v] : v \in ReadBox(box.type, box.payload)}
Without(boxes, taken) ==
    LET left == {i \in 1 .. Len(boxes) : i \notin taken}
    IN [i \in 1 .. Cardinality(left) |->
          boxes[CHOOSE j \in left : Cardinality({l \in left : l <= j}) = i]]

(* What a claim on some boxes leaves: also what it could not decode.       *)
LeftUnclaimed(boxes, mine, taken) == Without(boxes, mine)    \* a slip: dropped
Left(boxes, mine, taken) == Without(boxes, taken)

(* What one claim takes: the children read and the boxes left.             *)
TakeClaim(claim, boxes) ==
    LET mine == ClaimedAt(claim, boxes)
        single == claim.take \in {"one", "atMostOne"}
    IN UNION {LET decoded == {i \in mine : read[i] # {}}
                  taken == IF claim.lenient THEN decoded ELSE mine
              IN IF \/ single /\ Cardinality(mine) > 1
                    \/ claim.take = "one" /\ mine = {}
                    \/ claim.take = "some" /\ decoded = {}
                    \/ ~claim.lenient /\ decoded # mine
                 THEN {}
                 ELSE {[children |-> [n \in 1 .. Cardinality(taken) |->
                          CHOOSE c \in read[CHOOSE j \in taken :
                            Cardinality({l \in taken : l <= j}) = n] : TRUE],
                        left |-> Left(boxes, mine, taken)]} :
              read \in {[i \in mine |-> ReadChild(boxes[i])]}}

RECURSIVE TakeClaims(_, _)
TakeClaims(claims, boxes) ==
    IF claims = <<>> THEN {[claimed |-> <<>>, others |-> boxes]}
    ELSE UNION {{[claimed |-> <<t.children>> \o c.claimed, others |-> c.others] :
                   c \in TakeClaims(Tail(claims), t.left)} :
                t \in TakeClaim(Head(claims), boxes)}

ReadClaims(f, p) ==
    IF Len(p.bytes) # f.count THEN {}
    ELSE {Took(c, Nothing, Unknown) :
            c \in {t \in TakeClaims(f.claims \o f.after, p.boxes) :
                     f.count = 0 \/ Len(t.claimed[1]) = IntOf(p.bytes)}}

(* The boxes of a list, each by the codec of its type.                     *)
CodecFor(f, type) ==
    IF type \in DOMAIN f.codecs THEN f.codecs[type]
    ELSE IF type \in f.raw THEN NoCodec ELSE f.default
ListRead(f, box) ==
    LET codec == CodecFor(f, box.type)
    IN UNION {IF read = {} /\ f.strict THEN {}
              ELSE IF read = {}
              THEN {[type |-> box.type, codec |-> NoCodec, value |-> box.payload]}
              ELSE {[type |-> box.type, codec |-> codec, value |-> v] : v \in read} :
              read \in {IF codec = NoCodec THEN {} ELSE ReadBox(codec, box.payload)}}

RECURSIVE ReadList(_, _)
ReadList(f, boxes) ==
    IF boxes = <<>> THEN {<<>>}
    ELSE UNION {{<<first>> \o others : others \in ReadList(f, Tail(boxes))} :
                first \in ListRead(f, Head(boxes))}

CountWidth(f, env) ==
    IF f.count = <<>> THEN 0
    ELSE IF env.version = 0 \/ Len(f.count) = 1 THEN f.count[1] ELSE f.count[2]
ReadBoxes(f, p, env) ==
    LET width == CountWidth(f, env)
        count == IF width = 0 THEN Len(p.boxes) ELSE IntOf(Ahead(p, width))
    IN IF \/ Len(p.bytes) < width
          \/ Len(p.bytes) > width /\ count > 0
          \/ count > Len(p.boxes)
       THEN {}
       ELSE {Took(list, Nothing, env) :
               list \in ReadList(f, SubSeq(p.boxes, 1, count))}

----------------------------------------------------------------------------
(* Writing.                                                                *)

Wrote(p, env) == [out |-> p, env |-> env]
WroteBytes(bytes, env) == {Wrote(Payload(bytes, <<>>), env)}

(* The flags that say which fields are there, from what the value has.     *)
RECURSIVE FlagsOfParts(_, _)
FlagsOfParts(fields, v) ==
    UNION {CASE fields[i].k = "when" ->
                  IF (v[i] # <<>>) = fields[i].on THEN {fields[i].bit} ELSE {}
             [] fields[i].k \in {"either", "peek"} ->
                  IF v[i].set THEN {fields[i].bit} ELSE {}
             [] fields[i].k = "rows" ->
                  FlagsOfParts(fields[i].between, v[i].between)
                    \cup (IF v[i].rows = <<>> \/ fields[i].parts = {} THEN {}
                          ELSE FlagsOfParts(fields[i].fields, v[i].rows[1]))
             [] fields[i].k = "group" -> FlagsOfParts(fields[i].fields, v[i])
             [] fields[i].k = "byVersion" ->
                  FlagsOfParts(fields[i].cases[v[i].version], v[i].value)
             [] OTHER -> {} : i \in 1 .. Len(fields)}

RECURSIVE AllNarrow(_, _)
AllNarrow(fields, v) ==
    \A i \in 1 .. Len(fields) :
        CASE fields[i].k = "wide" ->
               Fits(fields[i].signed, v[i], fields[i].widths[1])
          [] fields[i].k \in {"counted", "times", "toEnd", "when"} ->
               \A j \in 1 .. Len(v[i]) : AllNarrow(fields[i].fields, v[i][j])
          [] fields[i].k = "group" -> AllNarrow(fields[i].fields, v[i])
          [] OTHER -> TRUE

VersionCases(fields) == {i \in 1 .. Len(fields) : fields[i].k = "byVersion"}
VersionWritten(fields, v) ==
    IF fields = <<>> \/ fields[1].k # "full" THEN 0
    ELSE CASE fields[1].rule = "kept" -> v[1].version
           [] fields[1].rule = "narrowest" -> IF AllNarrow(fields, v) THEN 0 ELSE 1
           [] fields[1].rule = "variant" ->
                v[CHOOSE i \in VersionCases(fields) : TRUE].version
           [] OTHER -> Min(fields[1].versions)

WriteItem(item, v, env) ==
    CASE item.k = "number" -> v
      [] item.k \in {"pad", "exactly"} -> Repeated(item.bit, item.w)
      [] item.k = "pinned" -> BitsOfInt(item.int, item.w)
      [] OTHER -> <<IF item.bit \in env.flags THEN 1 ELSE 0>>
Refused(item, bits) ==
    /\ item.k = "number"
    /\ \/ Len(bits) > item.w
       \/ "among" \in DOMAIN item /\ IntOfBits(bits) \notin item.among
WrittenBits(items, v, env) ==
    FoldLeft(LAMBDA bits, i : bits \o WriteItem(items[i], v[i], env), <<>>,
             [i \in 1 .. Len(items) |-> i])
Learnt(items, v, env) ==
    FoldLeft(LAMBDA e, i : IF items[i].k = "number"
                           THEN LearnBits(e, items[i], v[i]) ELSE e,
             env, [i \in 1 .. Len(items) |-> i])
WriteItems(items, v, env) ==
    IF \E i \in 1 .. Len(items) : Refused(items[i], v[i]) THEN {}
    ELSE {Wrote(Payload(BytesOfBits(WrittenBits(items, v, env)), <<>>),
                Learnt(items, v, env))}

RECURSIVE WriteField(_, _, _), WriteFields(_, _, _), WriteEach(_, _, _),
          WriteInner(_, _, _), WriteBox(_, _), WriteChildren(_), WriteList(_)

WriteFields(fields, v, env) ==
    IF fields = <<>> THEN {Wrote(Nothing, env)}
    ELSE UNION {{Wrote(Append2(r.out, s.out), s.env) :
                   s \in WriteFields(Tail(fields), Tail(v), r.env)} :
                r \in WriteField(Head(fields), Head(v), env)}

(* Fields of their own, whose flags are their own.                         *)
WriteInner(fields, v, env) ==
    WriteFields(fields, v,
                [env EXCEPT !.flags = @ \cup FlagsOfParts(fields, v)])

WriteEach(fields, entries, env) ==
    IF entries = <<>> THEN {Wrote(Nothing, env)}
    ELSE UNION {{Wrote(Append2(r.out, s.out), env) :
                   s \in WriteEach(fields, Tail(entries), env)} :
                r \in WriteInner(fields, Head(entries), env)}

WriteCounted(f, entries, env) ==
    LET n == WidthAt(f.n, env.version)
    IN IF (n = 1 /\ Len(entries) > 255) \/ TooMany(f, Len(entries), env) THEN {}
       ELSE {Wrote(Append2(Payload(BytesOfInt(Len(entries), n), <<>>), r.out), env) :
               r \in WriteEach(f.fields, entries, env)}

WriteCountedIn(f, v, env) ==
    IF \/ Len(v.entries) - f.less \notin 0 .. (2 ^ f.w) - 1
       \/ \E i \in 1 .. Len(f.items) : Refused(f.items[i], v.bits[i])
    THEN {}
    ELSE UNION {{Wrote(Append2(Append2(Payload(BytesOfBits(
                   WrittenBits(f.items, v.bits, env)
                     \o BitsOfInt(Len(v.entries) - f.less, f.w)
                     \o Repeated(0, f.pad)), <<>>), b.out), r.out), env) :
                   r \in WriteEach(f.fields, v.entries, b.env)} :
                b \in WriteFields(f.between, v.between, Learnt(f.items, v.bits, env))}

WriteCountedBits(f, v, env) ==
    IF \E e \in 1 .. Len(v), i \in 1 .. Len(f.items) : Refused(f.items[i], v[e][i])
    THEN {}
    ELSE LET bits == FoldLeft(LAMBDA all, entry :
                                all \o WrittenBits(f.items, entry, env), <<>>, v)
         IN WroteBytes(BytesOfInt(Len(v), f.n)
              \o BytesOfBits(bits \o Repeated(0, (8 - (Len(bits) % 8)) % 8)), env)

(* Every row has the fields of the first.                                  *)
WriteRows(f, v, env) ==
    IF f.parts # {} /\ \E i \in 1 .. Len(v.rows) :
         FlagsOfParts(f.fields, v.rows[i]) # FlagsOfParts(f.fields, v.rows[1])
    THEN {}
    ELSE UNION {{Wrote(Append2(Append2(Payload(
                   IF v.rows = <<>> THEN v.count ELSE BytesOfInt(Len(v.rows), f.n),
                   <<>>), b.out), r.out), env) :
                   r \in WriteEach(f.fields, v.rows, b.env)} :
                b \in WriteFields(f.between, v.between, env)}

WriteByNamed(f, v, env) ==
    IF ~v.known \/ env.named[f.name] \notin DOMAIN f.cases THEN {}
    ELSE WriteInner(f.cases[env.named[f.name]], v.value, env)

(* The part must be of the length named, when there is one.                *)
WriteInPart(f, v, env) ==
    LET named == env.named[f.length]
    IN {Wrote(IF named = 0
              THEN Append2(Payload(BytesOfInt(Len(r.out.bytes), 4), <<>>), r.out)
              ELSE r.out, env) :
          r \in {t \in IF v.known THEN WriteByNamed(f, v, env)
                       ELSE WroteBytes(v.value[1], env) :
                  named \in {0, Len(t.out.bytes)}}}

(* A pattern repeats at least once in its samples.                         *)
PatternRefused(pattern, flags) ==
    LET length == Len(pattern.indices)
    IN \/ length = 0
       \/ IntOf(pattern.count) < length
       \/ FieldBits(flags, 4) = 4 /\ length > 15
       \/ ~FitsBits(pattern.count, FieldBits(flags, 2))
       \/ \E j \in 1 .. length : ~FitsBits(pattern.indices[j], FieldBits(flags, 0))
LowBits(bytes, w) == SubSeq(BitsOfBytes(bytes), 33 - w, 32)
WritePatterns(v, env) ==
    LET pair(p) == LowBits(BytesOfInt(Len(p.indices), 4), FieldBits(env.flags, 4))
                     \o LowBits(p.count, FieldBits(env.flags, 2))
        pairs == FlattenSeq([i \in 1 .. Len(v) |-> pair(v[i])])
        indices == FlattenSeq([i \in 1 .. Len(v) |->
                     FlattenSeq([j \in 1 .. Len(v[i].indices) |->
                        LowBits(v[i].indices[j], FieldBits(env.flags, 0))])])
    IN IF \/ PairRefused(env.flags)
          \/ \E i \in 1 .. Len(v) : PatternRefused(v[i], env.flags)
       THEN {}
       ELSE WroteBytes(BytesOfInt(Len(v), 4) \o BytesOfBits(pairs)
              \o BytesOfBits(indices \o Repeated(0, Len(indices) % 8)), env)

WriteClaim(claim, children) ==
    IF \/ claim.needed /\ children = <<>>
       \/ "refuses" \in DOMAIN claim
            /\ \E i \in 1 .. Len(children) : Breaks(claim.refuses, children[i].value)
    THEN {} ELSE WriteChildren(children)

RECURSIVE WriteClaims(_, _)
WriteClaims(claims, claimed) ==
    IF claims = <<>> THEN {<<>>}
    ELSE UNION {{first \o others : others \in
                    WriteClaims(Tail(claims), Tail(claimed))} :
                first \in WriteClaim(Head(claims), Head(claimed))}

(* The children of the claims, those no claim took, and the ones after.    *)
WriteClaimed(f, v, env) ==
    LET n == Len(f.claims)
        count == IF f.count = 0 THEN <<>>
                 ELSE BytesOfInt(Len(v.claimed[1]), f.count)
    IN UNION {{Wrote(Payload(count, before \o v.others \o after), env) :
                 after \in WriteClaims(f.after,
                                       SubSeq(v.claimed, n + 1, Len(v.claimed)))} :
              before \in WriteClaims(f.claims, SubSeq(v.claimed, 1, n))}

WriteField(f, v, env) ==
    IF "refuses" \in DOMAIN f /\ Breaks(f.refuses, v) THEN {}
    ELSE
    CASE f.k = "bytes" -> WroteBytes(v, LearnBytes(env, f, v))
      [] f.k = "const" -> WroteBytes(f.bytes, env)
      [] f.k \in {"wide", "offset", "sized"} ->
           LET width == CASE f.k = "wide" -> WidthAt(f.widths, env.version)
                          [] f.k = "offset" -> 4
                          [] f.k = "sized" -> env.named[f.name] + f.plus
               signed == CASE f.k = "wide" -> f.signed
                           [] f.k = "offset" -> env.version # 0
                           [] f.k = "sized" -> FALSE
           IN IF Fits(signed, v, width) THEN WroteBytes(Lowest(v, width), env)
              ELSE {}
      [] f.k = "rest" -> WroteBytes(v, env)
      [] f.k = "string" ->
           IF IF f.base64 THEN IsBase64(v) ELSE IsText(v)
           THEN WroteBytes(Append(v, 0), env) ELSE {}
      [] f.k = "utf" ->
           IF IsUtf(v) THEN WroteBytes(v \o UtfTerminator(v), env) ELSE {}
      [] f.k = "words" ->
           IF v = <<>> THEN WroteBytes(<<0>>, env)
           ELSE IF (Len(v) + 2) % 4 # 0 THEN {}
           ELSE WroteBytes(<<(Len(v) + 2) \div 4>> \o v, env)
      [] f.k = "padded" ->
           IF Len(v) > f.n THEN {}
           ELSE WroteBytes(<<Len(v)>> \o v \o Repeated(0, f.n - Len(v)), env)
      [] f.k = "bits" -> WriteItems(f.items, v, env)
      [] f.k = "full" ->
           IF env.version \notin f.versions THEN {}
           ELSE WroteBytes(<<env.version>>
                  \o FlagBytes(v.flags \cup {bit \in env.flags : bit < 24}
                                 \cup IF "always" \in DOMAIN f THEN f.always ELSE {}),
                  env)
      [] f.k = "group" -> WriteFields(f.fields, v, env)
      [] f.k \in {"when", "ifLeft"} ->
           IF v = <<>> THEN {Wrote(Nothing, env)}
           ELSE WriteInner(f.fields, v[1], env)
      [] f.k \in {"either", "peek"} ->
           WriteInner(IF v.set THEN f.set ELSE f.clear, v.value, env)
      [] f.k = "byFlag" ->
           WriteInner(IF f.bit \in env.flags THEN f.set ELSE f.clear, v, env)
      [] f.k = "counted" -> WriteCounted(f, v, env)
      [] f.k = "countedIn" -> WriteCountedIn(f, v, env)
      [] f.k = "countedBits" -> WriteCountedBits(f, v, env)
      [] f.k = "rows" -> WriteRows(f, v, env)
      [] f.k \in {"times", "toEnd"} -> WriteEach(f.fields, v, env)
      [] f.k = "byVersion" ->
           IF v.version # env.version THEN {}
           ELSE WriteFields(f.cases[v.version], v.value, env)
      [] f.k = "byCode" ->
           IF ~v.known /\ v.code \in DOMAIN f.cases /\ "unchecked" \notin DOMAIN f
           THEN {}
           ELSE {[r EXCEPT !.out = Append2(Payload(v.code, <<>>), r.out)] :
                   r \in WriteInner(IF v.known THEN f.cases[v.code] ELSE f.other,
                                    v.value, env)}
      [] f.k = "byNamed" -> WriteByNamed(f, v, env)
      [] f.k = "inPart" -> WriteInPart(f, v, env)
      [] f.k = "byZero" ->
           UNION {{Wrote(Append2(r.out, s.out), s.env) :
                     s \in WriteFields(IF IsZero(v.first) THEN f.zero ELSE f.other,
                                       v.value, r.env)} :
                  r \in WriteField(f.first, v.first, env)}
      [] f.k = "patterns" -> WritePatterns(v, env)
      [] f.k = "children" -> WriteClaimed(f, v, env)
      [] f.k = "boxes" ->
           IF f.needed /\ v = <<>> THEN {}
           ELSE {Wrote(Payload(BytesOfInt(Len(v), CountWidth(f, env)), list), env) :
                   list \in WriteList(v)}
      [] f.k = "leading" ->
           {Wrote(Payload(<<>>, list), env) : list \in WriteList(v)}
      [] f.k = "derived" -> {Wrote(Payload(<<>>, v), env)}

WriteBox(type, v) ==
    IF "refuses" \in DOMAIN Codecs[type] /\ Breaks(Codecs[type].refuses, v) THEN {} ELSE
    {r.out : r \in WriteFields(Codecs[type].layout, v,
        [Unknown EXCEPT !.version = VersionWritten(Codecs[type].layout, v),
                        !.flags = FlagsOfParts(Codecs[type].layout, v)
                          \cup (IF Codecs[type].layout[1].k = "full"
                                THEN v[1].flags ELSE {})])}

WriteChildren(children) ==
    IF children = <<>> THEN {<<>>}
    ELSE UNION {{<<[type |-> Head(children).type, payload |-> p]>> \o others :
                   others \in WriteChildren(Tail(children))} :
                p \in WriteBox(Head(children).type, Head(children).value)}

WriteList(list) ==
    IF list = <<>> THEN {<<>>}
    ELSE UNION {{<<[type |-> Head(list).type, payload |-> p]>> \o others :
                   others \in WriteList(Tail(list))} :
                p \in IF Head(list).codec = NoCodec THEN {Head(list).value}
                      ELSE WriteBox(Head(list).codec, Head(list).value)}

----------------------------------------------------------------------------
(* The length the encoder announces before it writes (payload_len).        *)

At(v, path) == FoldLeft(LAMBDA part, i : part[i], v, path)

(* The numbers a value holds that other lengths refer to.                  *)
RECURSIVE NamedIn(_, _, _)
NamedIn(fields, v, env) ==
    FoldLeft(LAMBDA known, i :
        CASE fields[i].k = "bits" -> Learnt(fields[i].items, v[i], known)
          [] fields[i].k = "bytes" -> LearnBytes(known, fields[i], v[i])
          [] fields[i].k = "countedIn" -> Learnt(fields[i].items, v[i].bits, known)
          [] fields[i].k = "rows" -> NamedIn(fields[i].between, v[i].between, known)
          [] fields[i].k = "byVersion" ->
               NamedIn(fields[i].cases[v[i].version], v[i].value, known)
          [] OTHER -> known,
      env, [i \in 1 .. Len(fields) |-> i])

RECURSIVE TermLen(_, _, _), TermsLen(_, _, _), PayloadLen(_, _), ListLen(_)
TermsLen(terms, v, env) ==
    SumOf([i \in 1 .. Len(terms) |-> TermLen(terms[i], v, env)])

ListLen(list) ==
    SumOf([i \in 1 .. Len(list) |->
             HeaderLength + IF list[i].codec = NoCodec
                            THEN PayloadBytes(list[i].value)
                            ELSE PayloadLen(list[i].codec, list[i].value)])

TermLen(t, v, env) ==
    CASE t.k = "n" -> t.n
      [] t.k = "each" -> t.n * Len(At(v, t.at))
      [] t.k = "eachBits" -> ((t.w * Len(At(v, t.at))) + 7) \div 8
      [] t.k = "eachWide" -> WidthAt(t.widths, env.version) * Len(At(v, t.at))
      [] t.k = "flag" ->
           TermsLen(IF t.bit \in env.flags THEN t.set ELSE t.clear, v, env)
      [] t.k = "zeroName" ->
           TermsLen(IF env.named[t.name] = 0 THEN t.zero ELSE t.other, v, env)
      [] t.k = "byZero" ->
           TermsLen(IF IsZero(At(v, t.at).first) THEN t.zero ELSE t.other,
                    At(v, t.at).value, env)
      [] t.k = "named" ->
           LET entry == At(v, t.at)
           IN TermsLen(IF entry.known THEN t.cases[env.named[t.name]] ELSE t.other,
                       entry.value, env)
      [] t.k = "patterns" ->
           LET patterns == At(v, t.at)
           IN (Len(patterns) * (PairBits(env.flags) \div 8))
                + Packed(SumOf([i \in 1 .. Len(patterns) |-> Len(patterns[i].indices)]),
                         FieldBits(env.flags, 0))
      [] t.k = "perSized" ->
           Len(At(v, t.at)) * (IntOfBits(At(v, t.of)) + t.plus)
      [] t.k = "widths" ->
           Len(At(v, t.at)) * FoldSet(LAMBDA name, sum : sum + env.named[name],
                                      0, t.names)
      [] t.k = "per" ->
           SumOf([i \in 1 .. Len(At(v, t.at)) |->
                    TermsLen(t.terms, At(v, t.at)[i], env)])
      [] t.k = "str" -> Len(At(v, t.at)) + 1
      [] t.k = "utf" -> Len(At(v, t.at)) + Len(UtfTerminator(At(v, t.at)))
      [] t.k = "children" ->
           LET kids == At(v, t.at)
           IN SumOf([i \in 1 .. Len(kids.claimed) |->
                SumOf([j \in 1 .. Len(kids.claimed[i]) |->
                         HeaderLength + PayloadLen(kids.claimed[i][j].type,
                                                   kids.claimed[i][j].value)])])
              + PayloadBytes(Payload(<<>>, kids.others))
      [] t.k = "boxes" -> ListLen(At(v, t.at))
      [] t.k = "raw" -> PayloadBytes(Payload(<<>>, At(v, t.at)))
      [] t.k = "version" ->
           TermsLen(t.cases[IF env.version \in DOMAIN t.cases THEN env.version
                            ELSE Max(DOMAIN t.cases)], v, env)
      [] t.k = "either" ->
           TermsLen(IF At(v, t.at).set THEN t.set ELSE t.clear,
                    At(v, t.at).value, env)
      [] t.k = "code" ->
           LET choice == At(v, t.at)
           IN TermsLen(IF choice.known THEN t.cases[choice.code] ELSE t.other,
                       choice.value, env)

PayloadLen(type, v) ==
    TermsLen(Codecs[type].length, v,
             NamedIn(Codecs[type].layout, v,
                     [Unknown EXCEPT
                        !.version = VersionWritten(Codecs[type].layout, v),
                        !.flags = FlagsOfParts(Codecs[type].layout, v)
                          \cup (IF Codecs[type].layout[1].k = "full"
                                THEN v[1].flags ELSE {})]))

(* What the encoder writes, which must fill the length announced.          *)
Encode(type, v) ==
    {p \in WriteBox(type, v) : PayloadBytes(p) = PayloadLen(type, v)}

=============================================================================
