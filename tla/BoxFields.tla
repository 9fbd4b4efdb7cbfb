------------------------------ MODULE BoxFields -----------------------------
(***************************************************************************)
(* How the codecs of the box crate are described: the payload of a box is  *)
(* a sequence of fields, and the length its encoder announces is a         *)
(* sequence of terms over the value it encodes.  The value of a sequence   *)
(* of fields is the sequence of their values, one for each field, <<>> for *)
(* a field the decoded box does not keep.                                  *)
(*                                                                         *)
(* A number is the bytes the file holds of it, the highest first.          *)
(***************************************************************************)
EXTENDS Integers, Sequences, SequencesExt, FiniteSets, TLC

----------------------------------------------------------------------------
(* Fields of whole bytes.                                                  *)

(* A number, a code or an array of n bytes, kept as it is read.            *)
U(n) == [k |-> "bytes", n |-> n]

(* A number, or a code, of n bytes that later fields refer to by a name;   *)
(* `codes` are the codes of interest, for the values TLC takes.            *)
Known(name, n) == [k |-> "bytes", n |-> n, name |-> name]
Code(name, n, codes) ==
    [k |-> "bytes", n |-> n, code |-> name, codes |-> codes]

(* Bytes that are written as given and read past.                          *)
Const(bytes) == [k |-> "const", bytes |-> bytes]
Zeros(n) == Const([i \in 1 .. n |-> 0])

(* A number whose width depends on the version of the box, the first width *)
(* that of version 0 and the last that of every version further on; it is  *)
(* kept with the last width, a signed one extended with its sign.          *)
WideBy(widths) ==
    [k |-> "wide", widths |-> widths, keep |-> widths[Len(widths)],
     signed |-> FALSE]
Wide(narrow, wide) == WideBy(<<narrow, wide>>)
Narrow(n, keep) == [WideBy(<<n>>) EXCEPT !.keep = keep]
WideSigned == [Wide(4, 8) EXCEPT !.signed = TRUE]

(* A composition offset: four bytes, signed from version 1 on, kept as a   *)
(* signed number of eight.                                                 *)
CompositionOffset == [k |-> "offset"]

(* The bytes that are left.                                                *)
Rest == [k |-> "rest"]

(* A number of as many bytes as another says, and `plus` more.             *)
SizedBy(name, plus, keep) ==
    [k |-> "sized", name |-> name, plus |-> plus, keep |-> keep]
Sized(name) == SizedBy(name, 0, 8)

(* A count of 4-byte words that the two bytes before the content open, and *)
(* a count of the bytes that are meant of n.                               *)
Words == [k |-> "words"]
Padded(n) == [k |-> "padded", n |-> n]

(* The strings: up to a zero byte or the end in the middle of a payload,   *)
(* or all that is left, of which what follows the first zero is dropped.   *)
Str == [k |-> "string", toEnd |-> FALSE, base64 |-> FALSE]
StrToEnd == [k |-> "string", toEnd |-> TRUE, base64 |-> FALSE]
Base64 == [k |-> "string", toEnd |-> FALSE, base64 |-> TRUE]
UtfToEnd == [k |-> "utf"]

----------------------------------------------------------------------------
(* Fields of bits: B a number that is kept, Loose one whose type is wider  *)
(* than its bits, so that the encoder must refuse some values, Named one   *)
(* that later fields refer to, Among one of which only some are written,   *)
(* UpToRead one that is checked when it is read as well, Pinned one number *)
(* only, Size the width of other fields, at most 8 when it is read,        *)
(* Pad bits that are written as zero and read past, Exactly bits that must *)
(* be zero, Present a bit that says whether a later field is there, and    *)
(* KeptBit one that is kept and that later layouts go by; the bits of flag *)
(* bytes are numbered from 100 on.                                         *)

Bits(items) == [k |-> "bits", items |-> items]
B(w) == [k |-> "number", w |-> w, loose |-> FALSE]
Loose(w) == [k |-> "number", w |-> w, loose |-> TRUE]
Named(name, w) == [k |-> "number", w |-> w, loose |-> TRUE, name |-> name]
Among(set, w) ==
    [k |-> "number", w |-> w, loose |-> TRUE, among |-> set]
UpTo(most, w) == Among(0 .. most, w)
UpToRead(most, w) == ("reads" :> most) @@ UpTo(most, w)
Pinned(int, w) == [k |-> "pinned", w |-> w, int |-> int]
KeptBit(bit) == [k |-> "number", w |-> 1, loose |-> FALSE, flag |-> bit]
Size(name) == [k |-> "number", w |-> 4, loose |-> TRUE, name |-> name,
               among |-> {0, 4, 8}, reads |-> 8]
Pad(w) == [k |-> "pad", w |-> w, bit |-> 0]
Ones(w) == [k |-> "pad", w |-> w, bit |-> 1]
Exactly(w) == [k |-> "exactly", w |-> w, bit |-> 0]
Present(bit) == [k |-> "present", w |-> 1, bit |-> bit]

----------------------------------------------------------------------------
(* The version and flags of a full box.  `versions` are the ones the       *)
(* decoder knows; `rule` says where the version the encoder writes comes   *)
(* from: it is kept in the value, or the narrowest that holds every wide   *)
(* number, or the variant of the value.  `keep` are the flags that are     *)
(* kept, by the position of their bit, besides those that say which fields *)
(* are there.                                                              *)

Full(versions, rule, keep) ==
    [k |-> "full", versions |-> versions, rule |-> rule, keep |-> keep]
AllFlags == 0 .. 23
VersionZero == Full({0}, "zero", {})
VersionZeroFlags == Full({0}, "zero", AllFlags)

(* Flags that are always written, and flags of the low 16 that are refused *)
(* because nothing is known of the field they say is there.                *)
Always(flags, full) == ("always" :> flags) @@ full
Knowing(flags, full) == ("knows" :> flags) @@ full

----------------------------------------------------------------------------
(* Fields made of fields.                                                  *)

Group(fields) == [k |-> "group", fields |-> fields]

(* The fields are there when the flag is set; IfClear: when it is not.     *)
When(bit, fields) == [k |-> "when", bit |-> bit, on |-> TRUE,
                      fields |-> fields]
IfClear(bit, fields) == [k |-> "when", bit |-> bit, on |-> FALSE,
                         fields |-> fields]

(* One of two layouts, by the flag: Either by one that says which it is,   *)
(* ByFlag by one that is kept, Peeked by the highest bit that comes next,  *)
(* PeekedBytes by the bytes that do.                                       *)
Either(bit, set, clear) ==
    [k |-> "either", bit |-> bit, set |-> set, clear |-> clear]
ByFlag(bit, set, clear) ==
    [k |-> "byFlag", bit |-> bit, set |-> set, clear |-> clear]
Peeked(set, clear) == [k |-> "peek", bit |-> 200, set |-> set, clear |-> clear]
PeekedBytes(ahead, set, clear) == ("ahead" :> ahead) @@ Peeked(set, clear)

(* The fields are there when anything, or n bytes, is left to read.        *)
IfAny(fields) == [k |-> "ifLeft", least |-> 1, fields |-> fields]
IfLeft(n, fields) == [k |-> "ifLeft", least |-> n, fields |-> fields]

(* Entries: after a count of n bytes, or of as many bytes as the version   *)
(* says, as many as a named number, or to the end of what there is.        *)
CountedBy(widths, fields) ==
    [k |-> "counted", n |-> widths, fields |-> fields]
Counted(n, fields) == CountedBy(<<n>>, fields)
Times(name, fields) == [k |-> "times", name |-> name, fields |-> fields]
ToEnd(fields) == [k |-> "toEnd", fields |-> fields, before |-> 0]

(* Entries of the widths named, at most one when they are of no bytes.     *)
CountedOf(widths, n, fields) ==
    ("widths" :> widths) @@ Counted(n, fields)

(* To the end but for one byte, when the part of that bit follows.         *)
ToEndBefore(bit, fields) == [k |-> "toEnd", fields |-> fields, before |-> bit]

(* After bits of which the last w, but for `pad` more that must be zero,   *)
(* count the entries, less one that is not counted when `less` is 1; other *)
(* fields may stand between the count and the entries.                     *)
CountedIn(items, w, less, pad, fields) ==
    [k |-> "countedIn", items |-> items, w |-> w, less |-> less, pad |-> pad,
     between |-> <<>>, fields |-> fields]
CountedInBefore(items, w, between, fields) ==
    [CountedIn(items, w, 0, 0, fields) EXCEPT !.between = between]

(* Entries of a few bits, packed, the last byte filled with zeros.         *)
CountedBits(n, items) == [k |-> "countedBits", n |-> n, items |-> items]

(* A count that fields stand between it and its entries; entries that have *)
(* the fields the flags `parts` say have all the same, and when they have  *)
(* none only the count is kept.                                            *)
Rows(n, between, parts, fields) ==
    [k |-> "rows", n |-> n, between |-> between, parts |-> parts,
     fields |-> fields]
CountedAcross(n, between, fields) == Rows(n, between, {}, fields)

(* One of several layouts: by the version of the box, or by a code of      *)
(* bytes, where a code no case has is kept with the fields of `other`; a   *)
(* code without fields of its own has NoFields.  The encoder refuses a     *)
(* code of the cases with the other fields, unless it is Unchecked.        *)
ByVersion(cases) == [k |-> "byVersion", cases |-> cases]
ByCode(n, cases, other) ==
    [k |-> "byCode", n |-> n, cases |-> cases, other |-> other]
ByCodeOnly(n, cases) == ByCode(n, cases, <<>>)
NoFields == <<Zeros(0)>>
Unchecked(field) == ("unchecked" :> TRUE) @@ field

(* By a code read before, and in a part of its own, whose length is the    *)
(* number named or, where that is zero, stands before it in four bytes, a  *)
(* part that no case fills being kept as its bytes.                        *)
ByNamed(name, codes, cases) ==
    [k |-> "byNamed", name |-> name, codes |-> codes, cases |-> cases]
InPart(length, name, codes, cases) ==
    [k |-> "inPart", length |-> length, name |-> name, codes |-> codes,
     cases |-> cases]

(* By whether a first number is zero.                                      *)
ByZero(first, zero, other) ==
    [k |-> "byZero", first |-> first, zero |-> zero, other |-> other]

(* The patterns of csgp, whose lengths, counts and indices are of the      *)
(* widths that flags 4 and 5, 2 and 3, and 0 and 1 say; the indices of all *)
(* the patterns stand after the last.                                      *)
Patterns == [k |-> "patterns"]

(* A field, or a box, whose encoder refuses the values that break a rule.  *)
Ruled(rule, field) == ("refuses" :> rule) @@ field

----------------------------------------------------------------------------
(* The children: each claim takes the boxes of its types, one of them, at  *)
(* most one, any number or at least one; an IfDecoded claim leaves what    *)
(* does not decode among the other boxes.  The claims stand in the order   *)
(* the encoder writes them; `needed` is a list it refuses to write empty.  *)

Claim(types, take, lenient, needed) ==
    [types |-> types, take |-> take, lenient |-> lenient, needed |-> needed]
One(type) == Claim({type}, "one", FALSE, FALSE)
Opt(type) == Claim({type}, "atMostOne", FALSE, FALSE)
OptIfDecoded(type) == Claim({type}, "atMostOne", TRUE, FALSE)
Many(type) == Claim({type}, "any", FALSE, FALSE)
ManyIfDecoded(type) == Claim({type}, "any", TRUE, FALSE)
Some(type) == Claim({type}, "some", FALSE, TRUE)
SomeIfDecoded(type) == Claim({type}, "some", TRUE, TRUE)
Needed(claim) == [claim EXCEPT !.needed = TRUE]
OneOf(types) == Claim(types, "one", FALSE, FALSE)
OptOf(types) == Claim(types, "atMostOne", FALSE, FALSE)
OptOfIfDecoded(types) == Claim(types, "atMostOne", TRUE, FALSE)

Children(claims) ==
    [k |-> "children", claims |-> claims, after |-> <<>>, count |-> 0]

(* Some are written after the boxes that no claim takes.                   *)
ChildrenAround(claims, after) ==
    [k |-> "children", claims |-> claims, after |-> after, count |-> 0]

(* The children after a count of n bytes, which must be that of the boxes  *)
(* the first claim takes.                                                  *)
CountedChildren(n, claims) ==
    [k |-> "children", claims |-> claims, after |-> <<>>, count |-> n]

(* The boxes to the end in their order, whatever their types, or as many   *)
(* as a count of n bytes says: one of a type of `codecs` is decoded by its *)
(* codec, another by the codec `default`, but for the types that are       *)
(* `raw`; strict or else with what does not decode kept as its bytes.      *)
BoxList(codecs, default, raw) ==
    [k |-> "boxes", count |-> <<>>, codecs |-> codecs, default |-> default,
     raw |-> raw, strict |-> FALSE, needed |-> FALSE]
CountedBoxes(widths, codecs, default, strict, needed) ==
    [k |-> "boxes", count |-> widths, codecs |-> codecs, default |-> default,
     raw |-> {}, strict |-> strict, needed |-> needed]
NoCodec == ""

(* A box of the type, if it is the first thing that is left; the boxes up  *)
(* to the first of the types, as their bytes.                              *)
Leading(type) == [k |-> "leading", type |-> type]
Derived(types) == [k |-> "derived", types |-> types]
OwnCodecs(types) == [type \in types |-> type]

----------------------------------------------------------------------------
(* The terms of an announced length: a number of bytes; n bytes, or w bits *)
(* rounded up, for each entry, byte or optional part of the value at a     *)
(* place, or the widths named for each; the terms of each entry there; a   *)
(* string with its terminator; the boxes or the children there; terms that *)
(* depend on the version or a flag written, or on the variant of a value.  *)

N(n) == [k |-> "n", n |-> n]
Each(at, n) == [k |-> "each", at |-> at, n |-> n]
EachBits(at, w) == [k |-> "eachBits", at |-> at, w |-> w]
EachWide(at, widths) == [k |-> "eachWide", at |-> at, widths |-> widths]
Per(at, terms) == [k |-> "per", at |-> at, terms |-> terms]
PerSized(at, of, plus) ==
    [k |-> "perSized", at |-> at, of |-> of, plus |-> plus]
Widths(at, names) == [k |-> "widths", at |-> at, names |-> names]
StrLen(at) == [k |-> "str", at |-> at]
UtfLen(at) == [k |-> "utf", at |-> at]
BoxesLen(at) == [k |-> "boxes", at |-> at]
RawLen(at) == [k |-> "raw", at |-> at]
ChildrenLen(at) == [k |-> "children", at |-> at]
VersionLen(cases) == [k |-> "version", cases |-> cases]
FlagLen(bit, set, clear) ==
    [k |-> "flag", bit |-> bit, set |-> set, clear |-> clear]
ZeroLen(name, zero, other) ==
    [k |-> "zeroName", name |-> name, zero |-> zero, other |-> other]
EitherLen(at, set, clear) ==
    [k |-> "either", at |-> at, set |-> set, clear |-> clear]
ByZeroLen(at, zero, other) ==
    [k |-> "byZero", at |-> at, zero |-> zero, other |-> other]
CodeLen(at, cases, other) ==
    [k |-> "code", at |-> at, cases |-> cases, other |-> other]
NamedLen(at, name, cases, other) ==
    [k |-> "named", at |-> at, name |-> name, cases |-> cases, other |-> other]
PatternsLen(at) == [k |-> "patterns", at |-> at]
Codec(layout, length) == [layout |-> layout, length |-> length]

(* A box of children only.                                                 *)
Container(claims) == Codec(<<Children(claims)>>, <<ChildrenLen(<<1>>)>>)

----------------------------------------------------------------------------
(* What the encoders of the box crate refuse to write besides values that  *)
(* do not fit their fields; the decoders read such values.                 *)

IsZero(bytes) == \A i \in 1 .. Len(bytes) : bytes[i] = 0

Rule(r) == [r |-> r]
NonZero == Rule("nonZero")
Positive == Rule("positive")
Distinct == Rule("distinct")
AtLeast(n) == [r |-> "atLeast", n |-> n]
Never == Rule("never")
NotCode(code) == [r |-> "notCode", code |-> code]
OperationPoints == Rule("operationPoints")
FrameRateEstimate == Rule("frameRateEstimate")
FlagsTwice == Rule("flagsTwice")
OneNewer == Rule("oneNewer")
DistinctNonZero == Rule("distinctNonZero")
DistinctTypes(codec) == [r |-> "distinctTypes", codec |-> codec]
AllOrNone(claims) == [r |-> "allOrNone", claims |-> claims]
Together(children) == [r |-> "together", children |-> children]
StereoScheme == Rule("stereoScheme")
KeysTold == Rule("keysTold")
UnusedKeyId == "unused"
InlineKeyId == "inline"

(* Of the same length.                                                     *)
Less(bytes, others) ==
    \E i \in 1 .. Len(bytes) :
        /\ bytes[i] < others[i]
        /\ \A j \in 1 .. i - 1 : bytes[j] = others[j]

Repeats(seq) == \E i, j \in 1 .. Len(seq) : i < j /\ seq[i] = seq[j]

Breaks(rule, v) ==
    CASE rule.r = "nonZero" -> IsZero(v)
      [] rule.r = "positive" -> IsZero(v) \/ Head(v) >= 128
      [] rule.r = "distinct" -> Repeats(v)
      [] rule.r = "atLeast" -> Len(v) < rule.n
      [] rule.r = "never" -> TRUE
      [] rule.r = "notCode" -> v = rule.code
      [] rule.r = "operationPoints" ->    \* more than one, with rising bitrates
           \/ Len(v) < 2
           \/ IsZero(v[1][1])
           \/ \E i \in 2 .. Len(v) : ~Less(v[i - 1][1], v[i][1])
      [] rule.r = "frameRateEstimate" -> 0 \in v[1].flags /\ IsZero(v[4])
      [] rule.r = "flagsTwice" ->
           /\ v[2].between[2] # <<>>
           /\ v[2].rows # <<>> /\ v[2].rows[1][3] # <<>>
      [] rule.r = "oneNewer" ->    \* at most one child of a claim is not of version 0
           \E c \in 1 .. Len(v[1].claimed) :
               Cardinality({i \in 1 .. Len(v[1].claimed[c]) :
                              v[1].claimed[c][i].value[2].version >= 1}) > 1
      [] rule.r = "distinctNonZero" ->
           Repeats(v) \/ \E i \in 1 .. Len(v) : IsZero(v[i][1])
      [] rule.r = "distinctTypes" ->
           LET typed == SelectSeq(v[1], LAMBDA b : b.codec = rule.codec)
           IN Repeats([i \in 1 .. Len(typed) |-> typed[i].type])
      [] rule.r = "allOrNone" ->
           {c \in rule.claims : v.claimed[c] = <<>>} \notin {{}, rule.claims}
      [] rule.r = "together" ->    \* those kept as they were read count as well
           LET held == {child \in rule.children :
                          \/ v[1].claimed[child[1]] # <<>>
                          \/ \E i \in 1 .. Len(v[1].others) :
                               v[1].others[i].type = child[2]}
           IN held \notin {{}, rule.children}
      [] rule.r = "keysTold" ->
           LET typed == SelectSeq(v[1], LAMBDA b : b.codec = "metadataKey"
                                                     /\ b.type # UnusedKeyId)
           IN \/ v[1] = <<>>
              \/ Repeats([i \in 1 .. Len(typed) |-> typed[i].type])
              \/ \E i \in 1 .. Len(typed) : typed[i].type = InlineKeyId
      [] rule.r = "stereoScheme" ->
           LET second == v[4][2][1][1]
           IN ~ \/ v[3] \in {<<0, 0, 0, 1>>, <<0, 0, 0, 2>>} /\ Len(v[4]) = 4
                \/ /\ v[3] \in {<<0, 0, 0, 3>>, <<0, 0, 0, 4>>}
                   /\ Len(v[4]) = 2 /\ second <= 1
                \/ v[3] = <<0, 0, 0, 5>> /\ Len(v[4]) = 3 /\ second <= 1

=============================================================================
