------------------------------ MODULE KeySpace ------------------------------
(***************************************************************************)
(* The keys of a queue (crates/stowq-keys) and the parsers of index        *)
(* entries in the core.  A key is a sequence of segments: a literal, or    *)
(* the digits of hexadecimal fields.  A byte is one binary digit here and  *)
(* widths are scaled, the order between them kept.                         *)
(***************************************************************************)
EXTENDS Integers, Sequences, SequencesExt

Bad == [type |-> "none"]

\* Other characters than digits: an upper-case spelling of the digit 1, a
\* character that is no digit, the dot, and the plus sign.
Upper == 2
Foreign == 3
Dot == 4
Plus == 5

Width(field) ==
  CASE field = "shard" -> 1 [] field = "generation" -> 2 [] field = "bucket" -> 3
    [] field = "digest" -> 5 [] OTHER -> 4

Literal(name) == [name |-> name, digits |-> <<>>]
Digits(s) == [name |-> "", digits |-> s]

\* Deviation: the least significant byte first.
PushHexLittle(v, width) == [i \in 1..width |-> (v \div 2^(i - 1)) % 2]

\* push_hex of to_be_bytes.
PushHex(v, width) == [i \in 1..width |-> (v \div 2^(width - i)) % 2]

Value(s) == FoldLeft(LAMBDA acc, d : 2 * acc + d, 0, s)

\* hex_decode_fixed: of this width, lower case only; -1 for none.
HexDecode(s, width) ==
  IF Len(s) # width \/ ~(ToSet(s) \subseteq {0, 1}) THEN -1 ELSE Value(s)

-----------------------------------------------------------------------------
(* Display.  A layout is the literals in front and then, for each segment, the
   fields in it: two of them are joined by a dot. *)

DisplayLayout(type) ==
  CASE type = "Job"        -> <<<<"jobs">>, <<<<"shard">>, <<"job_id">>>>>>
    [] type = "Payload"    -> <<<<"payloads">>, <<<<"job_id">>, <<"digest">>>>>>
    [] type = "Claim"      -> <<<<"claims">>, <<<<"shard">>, <<"job_id">>, <<"generation">>>>>>
    [] type = "Fail"       -> <<<<"fails">>, <<<<"shard">>, <<"job_id">>, <<"generation">>>>>>
    [] type = "LeaseIndex" -> <<<<"leases">>, <<<<"bucket">>, <<"shard">>, <<"job_id", "generation">>>>>>
    [] type = "DelayIndex" -> <<<<"delayed">>, <<<<"bucket">>, <<"shard">>, <<"job_id">>>>>>
    [] type = "Receipt"    -> <<<<"receipts">>, <<<<"shard">>, <<"job_id">>>>>>
    [] type = "Dead"       -> <<<<"dead">>, <<<<"shard">>, <<"job_id">>>>>>
    [] type = "TermIndex"  -> <<<<"termidx">>, <<<<"bucket">>, <<"kind">>, <<"shard">>, <<"job_id">>>>>>
    [] type = "Quarantine" -> <<<<"quarantine">>, <<<<"bucket">>, <<"qid">>>>>>
    [] type = "Tail"       -> <<<<"tails">>, <<<<"shard">>, <<"job_id">>>>>>
    [] type = "Beacon"     -> <<<<"meta", "clock">>, <<<<"nonce">>>>>>
    [] type = "Format"     -> <<<<"meta", "FORMAT">>, <<>>>>
    [] type = "Watermark"  -> <<<<"meta", "watermark">>, <<>>>>

DisplaySegment(k, fields) ==
  IF fields = <<"kind">> THEN Literal(IF k.kind = "receipt" THEN "r" ELSE "d")
  ELSE LET hex(f) == PushHex(k[f], Width(f))
       IN  Digits(IF Len(fields) = 1 THEN hex(fields[1])
                  ELSE hex(fields[1]) \o <<Dot>> \o hex(fields[2]))

Display(k) ==
  LET layout == DisplayLayout(k.type)
  IN  [i \in DOMAIN layout[1] |-> Literal(layout[1][i])]
      \o [i \in DOMAIN layout[2] |-> DisplaySegment(k, layout[2][i])]

-----------------------------------------------------------------------------
(* parse.  A rule is the type of key, the number of segments, the first segment
   that has fields, and the fields in order. *)

ParseRule(parts) ==
  CASE parts[1].name = "jobs"       -> <<"Job", 3, 2, <<"shard", "job_id">>>>
    [] parts[1].name = "payloads"   -> <<"Payload", 3, 2, <<"job_id", "digest">>>>
    [] parts[1].name = "claims"     -> <<"Claim", 4, 2, <<"shard", "job_id", "generation">>>>
    [] parts[1].name = "fails"      -> <<"Fail", 4, 2, <<"shard", "job_id", "generation">>>>
    [] parts[1].name = "leases"     -> <<"LeaseIndex", 4, 2, <<"bucket", "shard", "job_id", "generation">>>>
    [] parts[1].name = "delayed"    -> <<"DelayIndex", 4, 2, <<"bucket", "shard", "job_id">>>>
    [] parts[1].name = "receipts"   -> <<"Receipt", 3, 2, <<"shard", "job_id">>>>
    [] parts[1].name = "dead"       -> <<"Dead", 3, 2, <<"shard", "job_id">>>>
    [] parts[1].name = "termidx"    -> <<"TermIndex", 5, 2, <<"bucket", "kind", "shard", "job_id">>>>
    [] parts[1].name = "quarantine" -> <<"Quarantine", 3, 2, <<"bucket", "qid">>>>
    [] parts[1].name = "tails"      -> <<"Tail", 3, 2, <<"shard", "job_id">>>>
    [] parts[1].name = "meta" /\ Len(parts) > 1 ->
         (CASE parts[2].name = "FORMAT"    -> <<"Format", 2, 3, <<>>>>
            [] parts[2].name = "watermark" -> <<"Watermark", 2, 3, <<>>>>
            [] parts[2].name = "clock"     -> <<"Beacon", 3, 3, <<"nonce">>>>
            [] OTHER                       -> <<"none", 0, 0, <<>>>>)
    [] OTHER -> <<"none", 0, 0, <<>>>>

\* split_once at the first dot of a segment: its two halves, or nothing.
SplitDot(s) ==
  LET dots == {i \in DOMAIN s : s[i] = Dot}
      at == CHOOSE i \in dots : \A j \in dots : i <= j
  IN  IF dots = {} THEN <<>> ELSE <<SubSeq(s, 1, at - 1), SubSeq(s, at + 1, Len(s))>>

\* The texts of the fields: the segments, the last one of a lease entry split.
FieldTexts(parts, rule) ==
  LET segments == SubSeq(parts, rule[3], Len(parts))
      texts == [i \in DOMAIN segments |-> segments[i].digits]
  IN  IF rule[1] = "LeaseIndex" THEN Front(texts) \o SplitDot(Last(texts)) ELSE texts

\* Deviation: the kind letters are taken for each other.
KindSwapped(name) == IF name = "d" THEN "receipt" ELSE "dead"

KindFromChar(name) == IF name = "r" THEN "receipt" ELSE IF name = "d" THEN "dead" ELSE ""

Parse(parts) ==
  LET rule == ParseRule(parts)
      texts == FieldTexts(parts, rule)
      fields == rule[4]
      at(f) == CHOOSE i \in DOMAIN fields : fields[i] = f
      decoded(f) == HexDecode(texts[at(f)], Width(f))
      hex == ToSet(fields) \ {"kind"}
      kind == KindFromChar(parts[rule[3] + 1].name)
  IN  IF \/ Len(parts) # rule[2]
         \/ Len(texts) # Len(fields)
         \/ \E f \in hex : decoded(f) = -1
         \/ "kind" \in ToSet(fields) /\ kind = ""
      THEN Bad
      ELSE [f \in {"type"} \cup ToSet(fields) |->
              IF f = "type" THEN rule[1] ELSE IF f = "kind" THEN kind ELSE decoded(f)]

-----------------------------------------------------------------------------
(* The core's own parsers, which read numbers with from_str_radix: either case,
   and a plus sign in front. *)

Radix(s) ==
  LET digits == IF Len(s) > 1 /\ s[1] = Plus THEN Tail(s) ELSE s
  IN  IF digits = <<>> \/ ~(ToSet(digits) \subseteq {0, 1, Upper}) THEN -1
      ELSE Value([i \in DOMAIN digits |-> IF digits[i] = Upper THEN 1 ELSE digits[i]])

\* The values of texts that have the widths of these fields, or nothing.
Entry(texts, fields) ==
  IF \A i \in DOMAIN fields : Len(texts[i]) = Width(fields[i]) /\ Radix(texts[i]) # -1
  THEN [i \in DOMAIN fields |-> Radix(texts[i])] ELSE <<>>

\* parse_generation: the last segment of a claim's key.
ParseGeneration(parts) ==
  LET s == Last(parts).digits
  IN  IF Len(s) # Width("generation") \/ ~(ToSet(s) \subseteq {0, 1, Upper}) THEN -1 ELSE Radix(s)

\* parse_lease_entry, from the segments behind the bucket: the last dot splits.
ParseLeaseEntry(rest) ==
  IF Len(rest) # 2 THEN <<>>
  ELSE LET halves == SplitDot(Reverse(rest[2].digits))
       IN  IF halves = <<>> THEN <<>>
           ELSE Entry(<<rest[1].digits, Reverse(halves[2]), Reverse(halves[1])>>,
                      <<"shard", "job_id", "generation">>)

ParseDelayEntry(rest) ==
  IF Len(rest) # 2 THEN <<>>
  ELSE Entry(<<rest[1].digits, rest[2].digits>>, <<"shard", "job_id">>)

\* parse_term_entry, from the whole key; only the kind's first letter counts.
ParseTermEntry(parts) ==
  LET kind == IF parts[3].name \in {"r", "rx"} THEN "receipt"
              ELSE IF parts[3].name = "d" THEN "dead" ELSE ""
      ids == Entry(<<parts[4].digits, parts[5].digits>>, <<"shard", "job_id">>)
  IN  IF Len(parts) # 5 \/ parts[1].name # "termidx" THEN <<>>
      ELSE IF kind = "" \/ ids = <<>> THEN <<>> ELSE <<kind>> \o ids

-----------------------------------------------------------------------------
(* What the keys have to guarantee. *)

\* Keys to try: of every type, with small numbers.
Numbers(field) ==
  CASE field = "shard" -> {0, 1} [] field = "generation" -> 0..3 [] field = "bucket" -> {0, 3, 4}
    [] field = "digest" -> {9, 18} [] OTHER -> {6, 8}

SampleKeys ==
  LET shard == Numbers("shard")
      gen == Numbers("generation")
      bucket == Numbers("bucket")
      id == Numbers("job_id")
  IN  [type : {"Job", "Receipt", "Dead", "Tail"}, shard : shard, job_id : id]
      \cup [type : {"Payload"}, job_id : id, digest : Numbers("digest")]
      \cup [type : {"Claim", "Fail"}, shard : shard, job_id : id, generation : gen]
      \cup [type : {"LeaseIndex"}, bucket : bucket, shard : shard, job_id : id, generation : gen]
      \cup [type : {"DelayIndex"}, bucket : bucket, shard : shard, job_id : id]
      \cup [type : {"TermIndex"}, bucket : bucket, kind : {"receipt", "dead"}, shard : shard, job_id : id]
      \cup [type : {"Quarantine"}, bucket : bucket, qid : id]
      \cup [type : {"Beacon"}, nonce : id]
      \cup [type : {"Format", "Watermark"}]

\* Ways to misspell a key: a segment lost or doubled, a literal exchanged, a field
\* too short or too long, a character replaced.
Misspelled(parts) ==
  LET replace(i, seg) == [parts EXCEPT ![i] = seg]
      hex == {i \in DOMAIN parts : parts[i].name = ""}
  IN  {RemoveAt(parts, i) : i \in 2..Len(parts)}
      \cup {InsertAt(parts, i, parts[i]) : i \in DOMAIN parts}
      \cup {replace(i, Literal(name)) : i \in DOMAIN parts \ hex,
              name \in {"jobs", "claims", "dead", "meta", "clock", "FORMAT", "r", "d", "rx", "x"}}
      \cup UNION {{replace(i, Digits(s)) :
              s \in {Tail(parts[i].digits), <<0>> \o parts[i].digits}
                    \cup {[parts[i].digits EXCEPT ![j] = c] :
                            j \in DOMAIN parts[i].digits, c \in {0, 1, Upper, Foreign, Dot, Plus}}}
            : i \in hex}

\* One spelling for a key: what is displayed is parsed back, and anything that
\* parses is what the key displays as.
Canonical(k) ==
  /\ Parse(Display(k)) = k
  /\ \A m \in Misspelled(Display(k)) : Parse(m) = Bad \/ Display(Parse(m)) = m

\* The order of strings, as a listing has it.
ListedBefore(k, l) ==
  LET text(key) == FlattenSeq([i \in DOMAIN Display(key) |-> Display(key)[i].digits])
  IN  \E i \in DOMAIN text(k) :
        text(k)[i] < text(l)[i] /\ SubSeq(text(k), 1, i - 1) = SubSeq(text(l), 1, i - 1)

\* Keys that differ in one number only are listed in its order.
Ordered(k, l) ==
  \A f \in (DOMAIN k \cap {"bucket", "generation"}) :
    (k.type = l.type /\ \A g \in DOMAIN k \ {f} : k[g] = l[g]) =>
      (ListedBefore(k, l) <=> k[f] < l[f])

\* An index entry that is a key means the same to the core's parser of it.
EntryAgrees(m) ==
  LET k == Parse(m)
      rest == SubSeq(m, 3, Len(m))
  IN  /\ k.type = "LeaseIndex" => ParseLeaseEntry(rest) = <<k.shard, k.job_id, k.generation>>
      /\ k.type = "DelayIndex" => ParseDelayEntry(rest) = <<k.shard, k.job_id>>
      /\ k.type = "TermIndex"  => ParseTermEntry(m) = <<k.kind, k.shard, k.job_id>>
      /\ k.type = "Claim"      => ParseGeneration(m) = k.generation
=============================================================================
