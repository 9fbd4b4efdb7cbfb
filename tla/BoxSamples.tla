----------------------------- MODULE BoxSamples ----------------------------
(***************************************************************************)
(* Values for TLC to encode, for every layout: a seed says how the numbers *)
(* are filled, how many entries and parts there are, which version, case   *)
(* or variant is taken, and which field, if any, holds what its encoder    *)
(* must refuse.                                                            *)
(***************************************************************************)
EXTENDS BoxCodec

CONSTANTS Fills, Manies    \* how numbers are filled, how many entries

(* Zero, one, all ones, and what just fits half the width.                 *)
Filled(n, fill) ==
    LET half == IF n = 1 THEN 0 ELSE n \div 2
    IN CASE fill % 4 = 0 -> Repeated(0, n)
         [] fill % 4 = 1 -> [i \in 1 .. n |-> IF i = n THEN 1 ELSE 0]
         [] fill % 4 = 2 -> Repeated(255, n)
         [] OTHER -> [i \in 1 .. n |-> IF i > half THEN 127 + 128 * Min({half, 1})
                                       ELSE 0]
FilledBits(w, fill) ==
    CASE fill % 4 = 0 -> Repeated(0, w)
      [] fill % 4 = 1 -> [i \in 1 .. w |-> IF i = w THEN 1 ELSE 0]
      [] fill % 4 = 2 -> Repeated(1, w)
      [] OTHER -> [i \in 1 .. w |-> i % 2]

RECURSIVE Picked(_, _)
Picked(set, n) ==
    LET x == CHOOSE y \in set : TRUE
    IN IF n = 0 THEN x ELSE Picked(set \ {x}, n - 1)
Nth(set, n) == Picked(set, n % Cardinality(set))
FillAt(k, i) == k.fill + k.step * i
Here(k, i) == k.many = 2 \/ (k.many = 1 /\ (i + k.pick) % 2 = 0)
Within(k) == [k EXCEPT !.many = IF @ > 0 THEN @ - 1 ELSE 0, !.over = 0]

SampleText(k, i) ==
    IF k.over = i THEN <<65, 200>> ELSE [c \in 1 .. k.many |-> 64 + c]
SampleBase64(k, i) ==
    IF k.over = i THEN <<81>> ELSE IF k.many = 0 THEN <<>> ELSE <<81, 81, 61, 61>>
SampleUtf(k, i) ==
    IF k.over = i THEN <<254, 255, 0>>
    ELSE IF k.pick % 2 = 0 THEN [c \in 1 .. k.many |-> 64 + c]
    ELSE <<254, 255>> \o [c \in 1 .. 2 * k.many |-> 65 * (1 - (c % 2))]

SampleItem(item, k, i, j) ==
    IF item.k # "number" THEN <<>>
    ELSE IF "among" \in DOMAIN item /\ k.over # i
    THEN BitsOfInt(Nth(item.among, k.pick + j), item.w)
    ELSE IF k.over = i /\ item.loose THEN Repeated(1, item.w + 1)
    ELSE FilledBits(item.w, FillAt(k, i + j))

SampleItems(items, k, i) ==
    [j \in 1 .. Len(items) |-> SampleItem(items[j], k, i, j)]

SampleFull(f, k, i) ==
    [version |-> IF f.rule # "kept" THEN 0
                 ELSE IF k.over = i THEN 9 ELSE Nth(f.versions, k.pick),
     flags |-> {b \in f.keep : FillAt(k, b) % 4 > 1}]

(* The flags that fields say of those after them.                          *)
FlagItems(items, k, i) ==
    {items[j].flag : j \in {l \in 1 .. Len(items) :
        "flag" \in DOMAIN items[l] /\ SampleItem(items[l], k, i, l) = <<1>>}}
FlagsSampled(fields, k) ==
    UNION {CASE fields[i].k = "full" -> SampleFull(fields[i], k, i).flags
             [] fields[i].k = "bits" -> FlagItems(fields[i].items, k, i)
             [] OTHER -> {} : i \in 1 .. Len(fields)}
Told(k, flags) == [k EXCEPT !.flags = @ \cup flags]

RECURSIVE Sample(_, _, _), SampleAll(_, _), SampleBox(_, _)
SampleAll(fields, k) ==
    [i \in 1 .. Len(fields) |-> Sample(fields[i], Told(k, FlagsSampled(fields, k)), i)]
SampleEntries(fields, k) ==
    [e \in 1 .. k.many |->
        SampleAll(fields, [k EXCEPT !.fill = @ + e, !.pick = @ + e])]

NumberOf(claim, k, c) ==
    CASE claim.take = "one" -> 1
      [] claim.take = "atMostOne" -> IF Here(k, c) THEN 1 ELSE 0
      [] OTHER -> k.many
SampleClaim(claim, k, c) ==
    [n \in 1 .. NumberOf(claim, k, c) |->
        LET type == Nth(claim.types, k.pick + n)
        IN [type |-> type,
            value |-> SampleBox(type, [Within(k) EXCEPT !.fill = @ + n])]]

SampleChildren(f, k) ==
    [claimed |-> [c \in 1 .. Len(f.claims \o f.after) |->
                    SampleClaim((f.claims \o f.after)[c], k, c)],
     others |-> <<>>]
SampleList(f, k) ==
    [n \in 1 .. k.many |->
        LET type == Nth(DOMAIN f.codecs \cup
                          (IF f.strict THEN {} ELSE {"zzzz"}), k.pick + n)
            codec == CodecFor(f, type)
        IN [type |-> type, codec |-> codec,
            value |-> IF codec = NoCodec THEN Payload(<<7>>, <<>>)
                      ELSE SampleBox(codec, Within(k))]]

SampleCode(f, k, i) ==
    LET unknown == IF f.other = <<>> THEN {} ELSE {[b \in 1 .. f.n |-> 33]}
        code == Nth(DOMAIN f.cases \cup unknown, k.pick)
        misnamed == k.over = i /\ f.other # <<>> /\ "unchecked" \notin DOMAIN f
        known == code \in DOMAIN f.cases /\ ~misnamed
    IN [code |-> code, known |-> known,
        value |-> SampleAll(IF known THEN f.cases[code] ELSE f.other, k)]

SampleBytes(f, k, i) ==
    IF "name" \in DOMAIN f THEN BytesOfInt(Nth({0, 1, 2, 4}, k.fill + k.many), f.n)
    ELSE IF "code" \in DOMAIN f THEN Nth(f.codes, k.code)
    ELSE Filled(f.n, FillAt(k, i))

(* A case of a code read before, or bytes where there is none for it.      *)
SampleNamed(f, k) ==
    LET code == Nth(f.codes, k.code)
    IN IF code \in DOMAIN f.cases
       THEN [known |-> TRUE, value |-> SampleAll(f.cases[code], k)]
       ELSE [known |-> FALSE, value |-> <<Filled(k.many, k.fill)>>]

(* Rows that have the fields of the first, unless they are to be refused.  *)
SampleRows(f, k, i) ==
    LET row(e) == SampleAll(f.fields,
                            [Told(k, FlagsSampled(f.between, k)) EXCEPT !.fill = @ + e,
                                      !.pick = IF k.over = i THEN @ + e ELSE @])
        rows == IF f.parts # {} /\ FlagsOfParts(f.fields, row(1)) = {} THEN <<>>
                ELSE [e \in 1 .. k.many |-> row(e)]
        fill == IF f.parts = {} THEN 0 ELSE k.fill
    IN [count |-> IF rows = <<>> THEN Filled(f.n, fill) ELSE <<>>,
        between |-> SampleAll(f.between, k), rows |-> rows]

SamplePatterns(k, i) ==
    [e \in 1 .. k.many |->
        [count |-> BytesOfInt(IF k.over = i THEN 0 ELSE k.many + k.fill, 4),
         indices |-> [j \in 1 .. k.many |-> Filled(4, k.fill)]]]

Sample(f, k, i) ==
    CASE f.k = "bytes" -> SampleBytes(f, k, i)
      [] f.k = "const" -> <<>>
      [] f.k = "wide" -> Filled(f.keep, FillAt(k, i))
      [] f.k = "offset" -> Filled(8, FillAt(k, i))
      [] f.k = "sized" -> Filled(f.keep, FillAt(k, i))
      [] f.k = "rest" -> Filled(k.many, FillAt(k, i))
      [] f.k = "words" ->
           IF k.over = i THEN <<1, 2, 3>>
           ELSE Repeated(9, IF k.many = 0 THEN 0 ELSE (4 * k.many) - 2)
      [] f.k = "padded" ->
           Repeated(9, IF k.over = i THEN f.n + 1 ELSE (k.many * f.n) \div 2)
      [] f.k = "string" ->
           IF f.base64 THEN SampleBase64(k, i) ELSE SampleText(k, i)
      [] f.k = "utf" -> SampleUtf(k, i)
      [] f.k = "bits" -> SampleItems(f.items, k, i)
      [] f.k = "full" -> SampleFull(f, k, i)
      [] f.k = "group" -> SampleAll(f.fields, k)
      [] f.k \in {"when", "ifLeft"} ->
           IF Here(k, i) THEN <<SampleAll(f.fields, k)>> ELSE <<>>
      [] f.k \in {"either", "peek"} ->
           [set |-> Here(k, i),
            value |-> SampleAll(IF Here(k, i) THEN f.set ELSE f.clear, k)]
      [] f.k = "byFlag" -> SampleAll(IF f.bit \in k.flags THEN f.set ELSE f.clear, k)
      [] f.k \in {"counted", "times", "toEnd"} -> SampleEntries(f.fields, k)
      [] f.k = "countedIn" ->
           [bits |-> SampleItems(f.items, k, i),
            between |-> SampleAll(f.between, Told(k, FlagItems(f.items, k, i))),
            entries |-> SampleEntries(f.fields, Told(k, FlagItems(f.items, k, i)))]
      [] f.k = "countedBits" ->
           [e \in 1 .. k.many + 1 |-> SampleItems(f.items, [k EXCEPT !.fill = @ + e], i)]
      [] f.k = "rows" -> SampleRows(f, k, i)
      [] f.k = "byVersion" ->
           [version |-> Nth(DOMAIN f.cases, k.pick),
            value |-> SampleAll(f.cases[Nth(DOMAIN f.cases, k.pick)], k)]
      [] f.k = "byCode" -> SampleCode(f, k, i)
      [] f.k \in {"byNamed", "inPart"} -> SampleNamed(f, k)
      [] f.k = "byZero" ->
           LET first == Sample(f.first, k, i)
           IN [first |-> first,
               value |-> SampleAll(IF IsZero(first) THEN f.zero ELSE f.other, k)]
      [] f.k = "patterns" -> SamplePatterns(k, i)
      [] f.k = "children" -> SampleChildren(f, k)
      [] f.k = "boxes" -> SampleList(f, k)
      [] f.k = "leading" ->
           IF Here(k, i) THEN <<[type |-> f.type, codec |-> f.type,
                                 value |-> SampleBox(f.type, Within(k))]>>
           ELSE <<>>
      [] f.k = "derived" ->
           [n \in 1 .. k.many |-> [type |-> "derv", payload |-> Payload(<<n>>, <<>>)]]

SampleBox(type, k) == SampleAll(Codecs[type].layout, [k EXCEPT !.flags = {}])

(* The most versions, cases or codes that one field chooses from.          *)
RECURSIVE MostCases(_)
MostCases(fields) ==
    Max({2} \cup
        UNION {CASE fields[i].k = "full" -> {Min({Cardinality(fields[i].versions), 4})}
                 [] fields[i].k = "byVersion" ->
                      {Cardinality(DOMAIN fields[i].cases)}
                        \cup {MostCases(fields[i].cases[v]) : v \in DOMAIN fields[i].cases}
                 [] fields[i].k = "byCode" -> {Cardinality(DOMAIN fields[i].cases) + 1}
                 [] "codes" \in DOMAIN fields[i] -> {Cardinality(fields[i].codes)}
                 [] fields[i].k \in {"counted", "group", "when", "ifLeft"} ->
                      {MostCases(fields[i].fields)}
                 [] fields[i].k = "boxes" -> {Cardinality(DOMAIN fields[i].codecs) + 1}
                 [] OTHER -> {} : i \in 1 .. Len(fields)})
PicksOf(type) == 0 .. MostCases(Codecs[type].layout) - 1

Seed(fill, step, many, pick, over) ==
    [fill |-> fill, step |-> step, many |-> many, pick |-> pick,
     code |-> pick + fill, flags |-> {},
     over |-> over]
Seeds(type) ==
    {Seed(fill, step, many, pick, 0) :
       fill \in Fills, step \in 0 .. 1, many \in Manies, pick \in PicksOf(type)}
      \cup {Seed(1, 0, many, pick, over) :
              many \in Manies, pick \in PicksOf(type),
              over \in 1 .. Len(Codecs[type].layout)}

=============================================================================
