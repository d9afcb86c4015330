------------------------------ MODULE Records ------------------------------
(***************************************************************************)
(* Records as bytes (crates/stowq-format): the writer, the decoder that    *)
(* reads fields straight off the bytes (direct.rs), and the value path,    *)
(* which builds a tree first and which the tests hold the decoder against. *)
(*                                                                         *)
(* A fields map is a sequence of pairs of a key and an item.  An item has  *)
(* its kind, a number (the integer, or the length of bytes) and, for       *)
(* arrays and maps, what is in it.  A record is the function from the      *)
(* fields it has to their items.  Byte lengths are those of the code.      *)
(***************************************************************************)
EXTENDS Integers, Sequences, SequencesExt, FiniteSets

NoRecord == [no_record |-> 0]

Item(kind, n, sub) == [kind |-> kind, n |-> n, sub |-> sub]
Uint(n) == Item("uint", n, <<>>)
Bool(b) == Item("bool", IF b THEN 1 ELSE 0, <<>>)
Bytes(n) == Item("bytes", n, <<>>)
Text == Item("text", 0, <<>>)
Array(items) == Item("array", 0, items)
Map(pairs) == Item("map", 0, pairs)

Types == {"format", "job", "claim", "fail", "receipt", "dead", "watermark", "quarantine"}

MaxShards == 65536

-----------------------------------------------------------------------------
(* The order of keys, by their encoding: the head with the length comes first. *)

\* The names of fields in the order of the alphabet.
Names ==
  <<"attempt", "basis", "content_type", "continuation", "created_store_time_ns",
    "delayed_bucket_width_ns", "detail", "generation", "highest_observed_wall_bucket",
    "inline_limit", "job_id", "lease_bucket_width_ns", "lease_duration_ns",
    "maximum_attempts", "not_before_ns", "observed_store_ns", "observed_watermark_ns",
    "output_digests", "payload_digest", "payload_inline", "payload_key", "payload_length",
    "prev_duration_ns", "prev_store_time_ns", "prev_token", "qid", "reason",
    "required_feature_bits", "retry_not_before_ns", "sequence", "shard_count", "source_key",
    "terminal_bucket_width_ns", "unheard_of", "worker_id", "worker_token">>

Rank(name) == CHOOSE i \in DOMAIN Names : Names[i] = name
EncodedBefore(a, b) == Len(a) < Len(b) \/ (Len(a) = Len(b) /\ Rank(a) < Rank(b))

\* The tables of the direct decoder, in the order its writer emits.
KeyTable(type) ==
  CASE type = "format" -> <<"shard_count", "inline_limit", "lease_bucket_width_ns",
         "required_feature_bits", "delayed_bucket_width_ns", "terminal_bucket_width_ns">>
    [] type = "job" -> <<"job_id", "payload_key", "content_type", "not_before_ns",
         "payload_digest", "payload_inline", "payload_length", "maximum_attempts",
         "created_store_time_ns">>
    [] type = "claim" -> <<"basis", "job_id", "attempt", "worker_id", "generation", "prev_token",
         "continuation", "worker_token", "lease_duration_ns">>
    [] type = "basis" -> <<"prev_duration_ns", "prev_store_time_ns", "observed_watermark_ns">>
    [] type = "fail" -> <<"job_id", "reason", "attempt", "generation", "retry_not_before_ns">>
    [] type = "receipt" -> <<"job_id", "attempt", "worker_id", "generation", "worker_token",
         "output_digests", "payload_digest">>
    [] type = "dead" -> <<"job_id", "reason", "attempt", "generation">>
    [] type = "watermark" -> <<"sequence", "highest_observed_wall_bucket">>
    [] type = "quarantine" -> <<"qid", "detail", "reason", "source_key", "observed_store_ns">>

-----------------------------------------------------------------------------
(* The writer. *)

\* write_fields: the order of the writes; fields a record lacks are left out.
WriteOrder(type) ==
  CASE type = "format" -> <<"shard_count", "inline_limit", "lease_bucket_width_ns",
         "required_feature_bits", "delayed_bucket_width_ns", "terminal_bucket_width_ns">>
    [] type = "job" -> <<"job_id", "payload_key", "content_type", "not_before_ns",
         "payload_digest", "payload_inline", "payload_length", "maximum_attempts",
         "created_store_time_ns">>
    [] type = "claim" -> <<"basis", "job_id", "attempt", "worker_id", "generation", "prev_token",
         "continuation", "worker_token", "lease_duration_ns">>
    [] type = "fail" -> <<"job_id", "reason", "attempt", "generation", "retry_not_before_ns">>
    [] type = "receipt" -> <<"job_id", "attempt", "worker_id", "generation", "worker_token",
         "output_digests", "payload_digest">>
    [] type = "dead" -> <<"job_id", "reason", "attempt", "generation">>
    [] type = "watermark" -> <<"sequence", "highest_observed_wall_bucket">>
    [] type = "quarantine" -> <<"qid", "detail", "reason", "source_key", "observed_store_ns">>

WriteFields(type, rec) ==
  LET order == SelectSeq(WriteOrder(type), LAMBDA f : f \in DOMAIN rec)
  IN  [i \in DOMAIN order |-> <<order[i], rec[order[i]]>>]

\* The value path sorts the pairs of a map by their encoded keys.
SortedFields(rec) ==
  LET nth(i) == CHOOSE f \in DOMAIN rec : Cardinality({g \in DOMAIN rec : EncodedBefore(g, f)}) = i - 1
  IN  [i \in 1..Cardinality(DOMAIN rec) |-> <<nth(i), rec[nth(i)]>>]

-----------------------------------------------------------------------------
(* The direct decoder. *)

\* Deviation: a key may come twice in a row.
OrderedLax(table, pairs) ==
  LET pos(i) == CHOOSE p \in DOMAIN table : table[p] = pairs[i][1]
  IN  \A i \in 2..Len(pairs) : pos(i - 1) <= pos(i)

\* read_map: keys of the table, strictly in its order.
InTableOrder(table, pairs) ==
  LET pos(i) == CHOOSE p \in DOMAIN table : table[p] = pairs[i][1]
  IN  \A i \in 2..Len(pairs) : pos(i - 1) < pos(i)

Known(table, pairs) == \A i \in DOMAIN pairs : pairs[i][1] \in ToSet(table)

\* The field an item is stored under.
FieldsOf(pairs) ==
  [f \in {pairs[i][1] : i \in DOMAIN pairs} |->
     pairs[CHOOSE i \in DOMAIN pairs : pairs[i][1] = f][2]]

\* read_uint, read_bool, read_borrowed_bytes with fixed, read_borrowed_text, and
\* the readers of the two fields that are not flat.
Reads(reader, item) ==
  CASE reader = "uint"  -> item.kind = "uint"
    [] reader = "shard" -> item.kind = "uint" /\ item.n <= MaxShards
    [] reader = "bool"  -> item.kind = "bool"
    [] reader = "text"  -> item.kind = "text"
    [] reader = "bytes" -> item.kind = "bytes"
    [] reader = "b16"   -> item.kind = "bytes" /\ item.n = 16
    [] reader = "b32"   -> item.kind = "bytes" /\ item.n = 32
    [] reader = "digests" ->
         /\ item.kind = "array" /\ item.sub # <<>>
         /\ \A i \in DOMAIN item.sub : item.sub[i].kind = "bytes" /\ item.sub[i].n = 32
    [] reader = "basis" ->
         /\ item.kind = "map"
         /\ Known(KeyTable("basis"), item.sub) /\ InTableOrder(KeyTable("basis"), item.sub)
         /\ \A i \in DOMAIN item.sub : item.sub[i][2].kind = "uint"
         /\ Len(item.sub) = 3

\* The arms of parse_fields: the reader of each field, and the fields that may be
\* missing.
DirectFormat ==
  [reads |-> [shard_count |-> "shard", inline_limit |-> "uint", lease_bucket_width_ns |-> "uint",
              required_feature_bits |-> "uint", delayed_bucket_width_ns |-> "uint",
              terminal_bucket_width_ns |-> "uint"],
   optional |-> {}]

DirectJob ==
  [reads |-> [job_id |-> "b16", maximum_attempts |-> "uint", content_type |-> "text",
              created_store_time_ns |-> "uint", not_before_ns |-> "uint", payload_digest |-> "b32",
              payload_length |-> "uint", payload_inline |-> "bytes", payload_key |-> "text"],
   optional |-> {"not_before_ns", "payload_inline", "payload_key"}]

DirectClaim ==
  [reads |-> [basis |-> "basis", job_id |-> "b16", attempt |-> "uint", worker_id |-> "text",
              generation |-> "uint", prev_token |-> "b16", continuation |-> "bool",
              worker_token |-> "b16", lease_duration_ns |-> "uint"],
   optional |-> {"basis", "prev_token"}]

DirectFail ==
  [reads |-> [job_id |-> "b16", reason |-> "uint", attempt |-> "uint", generation |-> "uint",
              retry_not_before_ns |-> "uint"],
   optional |-> {}]

DirectReceipt ==
  [reads |-> [job_id |-> "b16", attempt |-> "uint", worker_id |-> "text", generation |-> "uint",
              worker_token |-> "b16", output_digests |-> "digests", payload_digest |-> "b32"],
   optional |-> {"output_digests"}]

DirectDead ==
  [reads |-> [job_id |-> "b16", reason |-> "uint", attempt |-> "uint", generation |-> "uint"],
   optional |-> {}]

DirectWatermark ==
  [reads |-> [sequence |-> "uint", highest_observed_wall_bucket |-> "uint"], optional |-> {}]

DirectQuarantine ==
  [reads |-> [qid |-> "b16", detail |-> "uint", reason |-> "uint", source_key |-> "text",
              observed_store_ns |-> "uint"],
   optional |-> {"detail"}]

DirectArm(type) ==
  CASE type = "format" -> DirectFormat       [] type = "job" -> DirectJob
    [] type = "claim" -> DirectClaim         [] type = "fail" -> DirectFail
    [] type = "receipt" -> DirectReceipt     [] type = "dead" -> DirectDead
    [] type = "watermark" -> DirectWatermark [] type = "quarantine" -> DirectQuarantine

\* Fields that go together: one payload, and the evidence of one kind of claim.
Consistent(type, rec) ==
  LET has(f) == f \in DOMAIN rec IN
  CASE type = "job"   -> has("payload_inline") # has("payload_key")
    [] type = "claim" -> /\ (rec.continuation.n = 1) # has("basis")
                         /\ (rec.continuation.n = 1) = has("prev_token")
                         /\ has("basis") # has("prev_token")
    [] OTHER -> TRUE

DirectFields(type, pairs) ==
  LET arm == DirectArm(type)
      rec == FieldsOf(pairs)
  IN  IF /\ Known(KeyTable(type), pairs)
         /\ InTableOrder(KeyTable(type), pairs)
         /\ \A f \in DOMAIN rec : Reads(arm.reads[f], rec[f])
         /\ (DOMAIN arm.reads) \ arm.optional \subseteq DOMAIN rec
         /\ Consistent(type, rec)
      THEN rec ELSE NoRecord

-----------------------------------------------------------------------------
(* The value path. *)

\* cbor::decode of a map: keys strictly in the order of their encoding.
SortedKeys(pairs) == \A i \in 2..Len(pairs) : EncodedBefore(pairs[i - 1][1], pairs[i][1])

\* The whole tree is decoded before any field is looked at.
WellFormed(pairs) ==
  /\ SortedKeys(pairs)
  /\ \A i \in DOMAIN pairs : pairs[i][2].kind = "map" => SortedKeys(pairs[i][2].sub)

\* The getters: the item of a key, if it is there, and of which kind and width.
Get(pairs, f, kind, n) ==
  \E i \in DOMAIN pairs :
    /\ pairs[i][1] = f /\ \A j \in 1..(i - 1) : pairs[j][1] # f
    /\ pairs[i][2].kind = kind /\ n \in {0, pairs[i][2].n}

Has(pairs, f) == \E i \in DOMAIN pairs : pairs[i][1] = f
GetOpt(pairs, f, kind, n) == Has(pairs, f) => Get(pairs, f, kind, n)

\* expect_keys, and get_u64 of several fields.
ExpectKeys(pairs, allowed) == \A i \in DOMAIN pairs : pairs[i][1] \in allowed
GetU64(pairs, fields) == \A f \in fields : Get(pairs, f, "uint", 0)

\* The arms of from_fields.
ValueFormat(m) ==
  LET uints == {"shard_count", "lease_bucket_width_ns", "delayed_bucket_width_ns",
                "terminal_bucket_width_ns", "inline_limit", "required_feature_bits"}
  IN  /\ ExpectKeys(m, uints) /\ GetU64(m, uints)
      /\ FieldsOf(m).shard_count.n <= MaxShards

ValueJob(m) ==
  LET uints == {"maximum_attempts", "created_store_time_ns", "payload_length"}
  IN  /\ ExpectKeys(m, uints \cup {"job_id", "content_type", "payload_digest", "not_before_ns",
                                   "payload_inline", "payload_key"})
      /\ GetOpt(m, "payload_inline", "bytes", 0) /\ GetOpt(m, "payload_key", "text", 0)
      /\ Has(m, "payload_inline") # Has(m, "payload_key")
      /\ GetU64(m, uints) /\ GetOpt(m, "not_before_ns", "uint", 0)
      /\ Get(m, "job_id", "bytes", 16) /\ Get(m, "payload_digest", "bytes", 32)
      /\ Get(m, "content_type", "text", 0)

ValueBasis(m) ==
  LET uints == {"prev_store_time_ns", "prev_duration_ns", "observed_watermark_ns"}
  IN  ExpectKeys(m, uints) /\ GetU64(m, uints)

ValueClaim(m) ==
  LET uints == {"generation", "attempt", "lease_duration_ns"}
      continuation == FieldsOf(m).continuation.n = 1
  IN  /\ ExpectKeys(m, uints \cup {"job_id", "worker_id", "worker_token", "continuation", "basis",
                                   "prev_token"})
      /\ Get(m, "continuation", "bool", 0)
      /\ GetOpt(m, "basis", "map", 0) /\ GetOpt(m, "prev_token", "bytes", 16)
      /\ Has(m, "basis") => ValueBasis(FieldsOf(m).basis.sub)
      /\ ~(\/ continuation = Has(m, "basis") \/ continuation # Has(m, "prev_token")
           \/ Has(m, "basis") = Has(m, "prev_token"))
      /\ GetU64(m, uints) /\ Get(m, "job_id", "bytes", 16) /\ Get(m, "worker_id", "text", 0)
      /\ Get(m, "worker_token", "bytes", 16)

ValueFail(m) ==
  LET uints == {"generation", "reason", "attempt", "retry_not_before_ns"}
  IN  ExpectKeys(m, uints \cup {"job_id"}) /\ GetU64(m, uints) /\ Get(m, "job_id", "bytes", 16)

ValueReceipt(m) ==
  LET uints == {"generation", "attempt"}
      digests == FieldsOf(m).output_digests.sub
  IN  /\ ExpectKeys(m, uints \cup {"job_id", "worker_id", "worker_token", "payload_digest",
                                   "output_digests"})
      /\ GetOpt(m, "output_digests", "array", 0)
      /\ Has(m, "output_digests") =>
           digests # <<>> /\ \A i \in DOMAIN digests : digests[i] = Bytes(32)
      /\ GetU64(m, uints) /\ Get(m, "worker_id", "text", 0)
      /\ Get(m, "job_id", "bytes", 16) /\ Get(m, "worker_token", "bytes", 16)
      /\ Get(m, "payload_digest", "bytes", 32)

ValueDead(m) ==
  LET uints == {"generation", "attempt", "reason"}
  IN  ExpectKeys(m, uints \cup {"job_id"}) /\ GetU64(m, uints) /\ Get(m, "job_id", "bytes", 16)

ValueWatermark(m) ==
  LET uints == {"highest_observed_wall_bucket", "sequence"}
  IN  ExpectKeys(m, uints) /\ GetU64(m, uints)

ValueQuarantine(m) ==
  LET uints == {"reason", "observed_store_ns"}
  IN  /\ ExpectKeys(m, uints \cup {"qid", "source_key", "detail"})
      /\ GetOpt(m, "detail", "uint", 0) /\ GetU64(m, uints)
      /\ Get(m, "qid", "bytes", 16) /\ Get(m, "source_key", "text", 0)

ValueFields(type, m) ==
  IF /\ WellFormed(m)
     /\ CASE type = "format" -> ValueFormat(m)       [] type = "job" -> ValueJob(m)
          [] type = "claim" -> ValueClaim(m)         [] type = "fail" -> ValueFail(m)
          [] type = "receipt" -> ValueReceipt(m)     [] type = "dead" -> ValueDead(m)
          [] type = "watermark" -> ValueWatermark(m) [] type = "quarantine" -> ValueQuarantine(m)
  THEN FieldsOf(m) ELSE NoRecord

-----------------------------------------------------------------------------
(* The envelope.  A digest is the value it is computed from, the name of the type
   included; `rest' says that bytes follow the fields. *)

Digest(m) == [f \in DOMAIN m \ {"digest"} |-> m[f]]
Seal(m) == [m EXCEPT !.digest = Digest(m)]

Encode(type, rec, queue, tag) ==
  Seal([tail |-> TRUE, items |-> 7, magic |-> TRUE, version |-> <<1, 0>>, queue |-> queue, tag |-> tag,
        type |-> type, fields |-> WriteFields(type, rec), rest |-> FALSE, digest |-> <<>>])

Binding == [error |-> "queue binding"]
Violation == [error |-> "violation"]

\* Deviation: the binding is looked at before the digest.
EnvelopeBindingFirst(m, queue, tag) ==
  IF ~m.tail \/ m.items # 7 \/ ~m.magic \/ m.version # <<1, 0>> THEN Violation
  ELSE IF m.queue # queue \/ m.tag # tag THEN Binding
  ELSE IF m.type \notin Types \/ m.digest # Digest(m) THEN Violation
  ELSE NoRecord

\* The checks of decode_record in front of the fields: NoRecord if all are passed.
Envelope(m, queue, tag) ==
  IF ~m.tail \/ m.items # 7 \/ ~m.magic \/ m.version # <<1, 0>> THEN Violation
  ELSE IF m.type \notin Types \/ m.digest # Digest(m) THEN Violation
  ELSE IF m.queue # queue \/ m.tag # tag THEN Binding
  ELSE NoRecord

DirectDecode(m, queue, tag) ==
  LET rec == DirectFields(m.type, m.fields)
  IN  IF Envelope(m, queue, tag) # NoRecord THEN Envelope(m, queue, tag)
      ELSE IF rec = NoRecord \/ m.rest THEN Violation ELSE rec

ValueDecode(m, queue, tag) ==
  LET rec == ValueFields(m.type, m.fields)
  IN  IF ~m.tail \/ m.rest \/ ~WellFormed(m.fields) THEN Violation
      ELSE IF m.items # 7 \/ ~m.magic \/ m.version # <<1, 0>> \/ m.type \notin Types THEN Violation
      ELSE IF m.digest # Digest(m) THEN Violation
      ELSE IF m.queue # queue \/ m.tag # tag THEN Binding
      ELSE IF rec = NoRecord THEN Violation ELSE rec

\* record_violation_reason: what the repair scan files a bad record under.
QuarantineReason(error) == IF error = Binding THEN 4 ELSE 1

-----------------------------------------------------------------------------
(* Heads of items: a number below 24 is part of the first byte, others follow it in
   1, 2, 4 or 8 bytes.  Here a byte has the values below ByteBase, and the widths
   are 1 to 4. *)

ByteBase == 32
Power(w) == IF w = 0 THEN 24 ELSE ByteBase^w
BigEndian(v, w) == [i \in 1..w |-> (v \div ByteBase^(w - i)) % ByteBase]

PushHead(v) ==
  LET w == CHOOSE x \in 1..4 : v < Power(x) /\ v >= Power(x - 1)
  IN  IF v < 24 THEN [info |-> v, more |-> <<>>] ELSE [info |-> 23 + w, more |-> BigEndian(v, w)]

\* Reader::head: -1 for an error.
ReadHead(h) ==
  LET v == FoldLeft(LAMBDA acc, d : acc * ByteBase + d, 0, h.more)
  IN  IF h.info < 24 THEN h.info
      ELSE IF h.info > 27 \/ Len(h.more) # h.info - 23 THEN -1
      ELSE IF v < Power(h.info - 24) THEN -1 ELSE v

\* Numbers to try: each length's first and last; and all heads of few digits.
HeadNumbers == UNION {{Power(w) - 1, Power(w)} : w \in 0..3} \cup {0, 1, Power(4) - 1}
Heads ==
  [info : 0..23, more : {<<>>}]
  \cup UNION {[info : {i}, more : [1..w -> {0, 1, 23, 24, 31}]] : i \in 24..28, w \in 1..4}

HeadsCanonical ==
  /\ \A v \in HeadNumbers : ReadHead(PushHead(v)) = v
  /\ \A h \in Heads : ReadHead(h) # -1 => PushHead(ReadHead(h)) = h

-----------------------------------------------------------------------------
(* FORMAT, and the shards it makes.  The hash stands for the first two bytes. *)

IsPowerOfTwo(n) == \E k \in 0..17 : n = 2^k

\* FormatRecord::validate; the known feature bits are 1 and 2.
ValidFormat(f) ==
  /\ IsPowerOfTwo(f.shard_count.n) /\ f.shard_count.n <= MaxShards
  /\ \A w \in {"lease_bucket_width_ns", "delayed_bucket_width_ns", "terminal_bucket_width_ns"} :
       f[w].n # 0
  /\ f.required_feature_bits.n < 4

ComputeShard(hash, shards) == IF shards = MaxShards THEN hash ELSE hash % shards

-----------------------------------------------------------------------------
(* Messages to try: every record with its optional fields or without, as written,
   with one change to its fields, and with one change to its envelope. *)

GoodBasis ==
  <<<<"prev_duration_ns", Uint(1)>>, <<"prev_store_time_ns", Uint(2)>>,
    <<"observed_watermark_ns", Uint(3)>>>>

GoodItem(reader) ==
  CASE reader = "uint" -> Uint(1)  [] reader = "shard" -> Uint(MaxShards) [] reader = "bool" -> Bool(FALSE)
    [] reader = "text" -> Text     [] reader = "bytes" -> Bytes(5)        [] reader = "b16" -> Bytes(16)
    [] reader = "b32" -> Bytes(32) [] reader = "digests" -> Array(<<Bytes(32), Bytes(32)>>)
    [] reader = "basis" -> Map(GoodBasis)

Items ==
  {Uint(0), Uint(MaxShards + 1), Bool(TRUE), Bool(FALSE), Bytes(5), Bytes(16), Bytes(32), Text,
   Array(<<>>), Array(<<Bytes(32)>>), Array(<<Bytes(32), Bytes(16)>>), Array(<<Text>>)}
  \cup {Map(b) : b \in {<<>>, Tail(GoodBasis), Reverse(GoodBasis), GoodBasis \o <<GoodBasis[3]>>,
                        <<GoodBasis[1], GoodBasis[1], GoodBasis[2]>>,
                        [GoodBasis EXCEPT ![2] = <<"prev_store_time_ns", Text>>],
                        [GoodBasis EXCEPT ![1] = <<"unheard_of", Uint(1)>>]}}

SampleRecords(type) ==
  LET arm == DirectArm(type)
      with(S) == [f \in ((DOMAIN arm.reads) \ arm.optional) \cup S |-> GoodItem(arm.reads[f])]
      all == {with(S) : S \in SUBSET arm.optional}
  IN  {rec \in all \cup (IF type # "claim" THEN {} ELSE {[r EXCEPT !.continuation = Bool(TRUE)] : r \in all}) :
         Consistent(type, rec)}

EditedFields(pairs) ==
  {pairs}
  \cup {RemoveAt(pairs, i) : i \in DOMAIN pairs}
  \cup {InsertAt(pairs, i, pairs[i]) : i \in DOMAIN pairs}
  \cup {[pairs EXCEPT ![i] = pairs[i + 1], ![i + 1] = pairs[i]] : i \in 1..(Len(pairs) - 1)}
  \cup {[pairs EXCEPT ![i] = <<pairs[i][1], item>>] : i \in DOMAIN pairs, item \in Items}
  \cup {InsertAt(pairs, i, <<f, item>>) : i \in 1..(Len(pairs) + 1),
          f \in {"unheard_of", "basis", "prev_token", "payload_key", "payload_inline"},
          item \in {Bytes(16), Text, Map(GoodBasis)}}

\* What a reader may be given for a record: other bytes, another place or another
\* writer's format.  Nothing is sealed anew.
Damaged(m) ==
  {[m EXCEPT !.tail = FALSE], [m EXCEPT !.items = 6], [m EXCEPT !.magic = FALSE],
   [m EXCEPT !.version = <<1, 1>>], [m EXCEPT !.queue = "other"], [m EXCEPT !.tag = "other"],
   [m EXCEPT !.type = "unheard_of"], [m EXCEPT !.rest = TRUE], [m EXCEPT !.fields = Tail(@)]}
  \cup {[m EXCEPT !.type = t] : t \in Types \ {m.type}}

\* Both decoders accept the same bytes, and for the same record.
SameDecoding(m) ==
  LET direct == DirectDecode(m, "q", "t")
      value  == ValueDecode(m, "q", "t")
  IN  IF direct \in {Binding, Violation} THEN value \in {Binding, Violation} ELSE value = direct

\* What is written is read back, from its own place only; damage is never taken for
\* a record, nor for a record of another place.
WrittenIsRead(type, rec) ==
  LET m == Encode(type, rec, "q", "t")
  IN  /\ m.fields = SortedFields(rec)
      /\ DirectDecode(m, "q", "t") = rec
      /\ \A place \in {<<"q", "u">>, <<"r", "t">>} :
           QuarantineReason(DirectDecode(m, place[1], place[2])) = 4
      /\ \A d \in Damaged(m) :
           DirectDecode(d, "q", "t") = Violation /\ DirectDecode(Seal(d), "q", "t") # rec

\* A FORMAT record that is let in places every job in one of its shards, whose
\* numbers fit the four digits of a key.
ShardsCovered(f) ==
  ValidFormat(f) => \A hash \in {0, 1, 2, 255, 256, 32767, 32768, 65535} :
    ComputeShard(hash, f.shard_count.n) \in 0..(f.shard_count.n - 1)
=============================================================================
