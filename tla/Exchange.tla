------------------------------ MODULE Exchange ------------------------------
(***************************************************************************)
(* The core's store calls over an unreliable exchange with a backend: the  *)
(* resolving puts, the authoritative listing, the tail hint's observe and  *)
(* compare-and-swap, and a delete.  One exchange is one step: the client   *)
(* does nothing between a request and its answer.  A request whose client  *)
(* has given up on it may still be served later (wire).                    *)
(*                                                                         *)
(* The server is the in-memory store: its objects and the counter that     *)
(* versions them.  Each put writes a record of its own, named by the       *)
(* number of its call; a payload's key determines its bytes; the body of a *)
(* hint is a generation.                                                   *)
(***************************************************************************)
EXTENDS Backends, KeySpace, Records

CONSTANTS
  Backend,       \* backends: "memory" (under the fault injector), "http", "s3"
  Clients,
  RecordKeys,    \* keys of records, those under the listed prefix
  PayloadKeys,   \* keys of payloads
  HintKeys,      \* keys of tail hints
  Generations,   \* generations a hint may name
  Suites,        \* which calls are made together in a behaviour, and the bound on
                 \* its exchanges that go wrong; only these share a key: put,
                 \* delete and list
  Limit,         \* size of a page asked for
  Cap,           \* the largest page the server gives
  Retries,       \* RETRY_TRANSPORT_MAX
  MaxCalls,      \* bound: calls made
  Days           \* days since 1970 whose dates are tried

VARIABLES
  backend,     \* the backend and the suite
  objects,     \* the server's objects
  serial,      \* version_counter
  client,      \* per client: its call
  wire,        \* requests of abandoned exchanges
  calls,       \* how many calls were made
  faults       \* how many exchanges went wrong

vars == <<backend, objects, serial, client, wire, calls, faults>>

Keys == RecordKeys \cup PayloadKeys \cup HintKeys
NoObject == [body |-> 0, version |-> 0]
Present == {k \in RecordKeys : objects[k] # NoObject}

\* A call: where it is, what it writes, its two retry counters, the version it
\* has observed, and the listing so far.  mute (a put of it went unanswered),
\* always and ever (records there all the time, and at some time) are history.
Idle == [pc |-> "idle", call |-> "none", key |-> 0, body |-> 0, retries |-> 0, tries |-> 0,
         version |-> 0, after |-> 0, out |-> <<>>, mute |-> FALSE, always |-> {}, ever |-> {},
         res |-> "none"]

Init ==
  /\ backend \in [kind : Backend, suite : Suites]
  /\ objects \in [Keys -> {NoObject, [body |-> -1, version |-> 1]}]
  /\ \A k \in Keys : objects[k] # NoObject =>
       k \in (IF "list" \in backend.suite.calls THEN RecordKeys ELSE {})
             \cup (IF "hint" \in backend.suite.calls THEN HintKeys ELSE {})
  /\ serial = 1
  /\ client = [c \in Clients |-> Idle]
  /\ wire = {}
  /\ calls = 0
  /\ faults = 0

-----------------------------------------------------------------------------
(* The server: MemoryStore. *)

Request(c) ==
  LET d == client[c]
  IN  [kind |-> d.pc, key |-> d.key, body |-> d.body, version |-> d.version, after |-> d.after]

Written(r) == [objects EXCEPT ![r.key] = [body |-> r.body, version |-> serial + 1]]

\* Deviation: any version will do.
AnyVersion(found, version) == TRUE
Matches(found, version) == found.version = version

\* What a request does to the objects, and its answer.
Serve(r) ==
  LET found == IF r.kind = "list" THEN NoObject ELSE objects[r.key]
      free  == found = NoObject
      answer(s, objs, val) == [status |-> s, objects |-> objs, val |-> val]
  IN  CASE r.kind = "put"    -> IF free THEN answer(200, Written(r), 0) ELSE answer(412, objects, 0)
        [] r.kind = "cas"    -> IF free THEN answer(404, objects, 0)
                                ELSE IF Matches(found, r.version) THEN answer(200, Written(r), 0)
                                ELSE answer(412, objects, 0)
        [] r.kind = "delete" -> answer(204, [objects EXCEPT ![r.key] = NoObject], 0)
        [] r.kind = "list"   -> answer(200, objects, Present)
        [] OTHER             -> answer(IF free THEN 404 ELSE 200, objects, found)

Commit(objs) ==
  /\ objects' = objs
  /\ serial' = IF \E k \in Keys : objs[k] # objects[k] /\ objs[k] # NoObject THEN serial + 1 ELSE serial

\* The class of an answer to client c.
Class(c, s) ==
  CASE client[c].pc \in {"put", "cas"}  -> PutStatus(backend.kind, s)
    [] client[c].pc \in {"head", "get"} -> ReadStatus(backend.kind, s)
    [] client[c].pc = "list"            -> ListStatus(backend.kind, s)
    [] client[c].pc = "delete"          -> DeleteStatus(backend.kind, s)

-----------------------------------------------------------------------------
(* The calls: what each makes of the class of an answer. *)

\* A call returns: its result, with the listing if it has one.
Done(d, res) ==
  [Idle EXCEPT !.pc = "done", !.res = res, !.out = d.out, !.always = d.always, !.ever = d.ever]

\* The put is tried again, at most Retries times in a call.
\* Deviation: without end.
RetryAlways(d) == [d EXCEPT !.pc = "put", !.retries = @ + 1]
Retry(d) ==
  IF d.retries = Retries THEN Done(d, "exhausted") ELSE [d EXCEPT !.pc = "put", !.retries = @ + 1]

\* A lookup is tried again, at most Retries times in a row.
Again(d) == IF d.tries = Retries THEN Done(d, "exhausted") ELSE [d EXCEPT !.tries = @ + 1]

\* put_resolving and put_bytes_resolving.  Any object at a payload's key will do.
AfterPut(d, class) ==
  CASE d.call = "hint"       -> Done(d, "ended")
    [] class = "committed"   -> Done(d, "committed")
    [] class = "rejected"    -> Done(d, IF d.call = "bytes" THEN "committed" ELSE "lost")
    [] class = "transport"   -> Retry(d)
    [] class = "unknown"     -> [d EXCEPT !.pc = "head", !.tries = 0, !.mute = TRUE]
    [] OTHER                 -> Done(d, "error")

\* Deviation: what is found after an unanswered put is taken for its own.
AfterHeadHasty(d, class) ==
  CASE class = "ok"       -> Done(d, "committed")
    [] class = "notfound" -> Retry(d)
    [] class \in {"transport", "unknown"} -> Again(d)
    [] OTHER              -> Done(d, "error")

\* resolve_unknown and resolve_presence: absent means that the put is retried.
AfterHead(d, class) ==
  CASE class = "ok"       -> IF d.call = "bytes" THEN Done(d, "committed")
                             ELSE [d EXCEPT !.pc = "get", !.tries = 0]
    [] class = "notfound" -> Retry(d)
    [] class \in {"transport", "unknown"} -> Again(d)
    [] OTHER              -> Done(d, "error")

\* read_retrying, and the comparison with the intended record; for a hint, the
\* observation before its write: a hint that is as new is left alone.
AfterGet(d, class, found) ==
  IF d.call = "hint"
  THEN CASE class = "ok"       -> IF found.body >= d.body THEN Done(d, "ended")
                                  ELSE [d EXCEPT !.pc = "cas", !.version = found.version]
         [] class = "notfound" -> [d EXCEPT !.pc = "put"]
         [] OTHER              -> Done(d, "ended")
  ELSE CASE class = "ok" -> Done(d, IF found.body = d.body THEN "committed" ELSE "lost")
         [] class \in {"transport", "unknown"} -> Again(d)
         [] OTHER        -> Done(d, "error")

\* list_authoritative: page after page, until one is empty or the last.  The
\* server is one that takes start-after to be inclusive.
AfterList(d, class, K) ==
  LET page == CASE backend.kind = "memory" -> MemoryPage(K, d.after, Limit)
                [] backend.kind = "http"   -> HttpPage(K, d.after, Limit, Cap, TRUE)
                [] backend.kind = "s3"     -> S3Page(K, d.after, Limit, Cap, TRUE)
      more == [d EXCEPT !.out = @ \o page.items]
  IN  IF class # "ok" THEN Done(d, "error")
      ELSE IF page.items = <<>> \/ page.next = 0 THEN Done(more, "listed")
      ELSE [more EXCEPT !.after = page.next]

Receive(c, class, val) ==
  LET d == client[c] IN
  CASE d.pc = "put"    -> AfterPut(d, class)
    [] d.pc = "cas"    -> Done(d, "ended")
    [] d.pc = "head"   -> AfterHead(d, class)
    [] d.pc = "get"    -> AfterGet(d, class, val)
    [] d.pc = "list"   -> AfterList(d, class, val)
    [] d.pc = "delete" -> Done(d, IF class = "ok" THEN "deleted" ELSE "error")

\* Client c goes on; calls that are listing witness the records that are there.
Continue(c, d) ==
  LET now == {k \in RecordKeys : objects'[k] # NoObject}
      witness(e) == IF e.pc = "list" THEN [e EXCEPT !.always = @ \cap now, !.ever = @ \cup now] ELSE e
  IN  client' = [e \in Clients |-> IF e = c THEN witness(d) ELSE witness(client[e])]

-----------------------------------------------------------------------------
\* The calls that may be made next.
NewCalls ==
  LET new(call, pc, k, b) == [Idle EXCEPT !.call = call, !.pc = pc, !.key = k, !.body = b]
  IN  {new("put", "put", k, calls + 1) : k \in RecordKeys}
      \cup {new("bytes", "put", k, k) : k \in PayloadKeys}
      \cup {new("hint", "get", k, g) : k \in HintKeys, g \in Generations}
      \cup {new("delete", "delete", k, 0) : k \in RecordKeys}
      \cup {[new("list", "list", 0, 0) EXCEPT !.always = Present, !.ever = Present]}

Start(c) ==
  /\ client[c].pc \in {"idle", "done"}
  /\ calls < MaxCalls
  /\ calls' = calls + 1
  /\ \E d \in NewCalls : d.call \in backend.suite.calls /\ client' = [client EXCEPT ![c] = d]
  /\ UNCHANGED <<backend, objects, serial, wire, faults>>

Waiting(c) == client[c].pc \notin {"idle", "done"}

\* The exchange succeeds.
Answered(c) ==
  LET a == Serve(Request(c)) IN
  /\ Waiting(c)
  /\ Commit(a.objects)
  /\ Continue(c, Receive(c, Class(c, a.status), a.val))
  /\ UNCHANGED <<backend, wire, calls, faults>>

Fault == faults < backend.suite.faults /\ faults' = faults + 1

\* The server answers with an error: a 5xx before or after it has served the
\* request, or a refusal.
Failed(c) ==
  /\ Waiting(c)
  /\ backend.kind # "memory"
  /\ Fault
  /\ \E s \in {403, 503} :
       /\ Commit(objects) \/ (s = 503 /\ Commit(Serve(Request(c)).objects))
       /\ Continue(c, Receive(c, Class(c, s), 0))
  /\ UNCHANGED <<backend, wire, calls>>

\* No answer comes, and the request is lost, has been served, or is still under
\* way.  An error that is raised before sending leaves no request.
Unheard(c) ==
  /\ Waiting(c)
  /\ Fault
  /\ \E e \in SendErrors :
       /\ \/ Commit(objects) /\ UNCHANGED wire
          \/ ~Unsent(backend.kind, e) /\ Commit(Serve(Request(c)).objects) /\ UNCHANGED wire
          \/ /\ e = "timeout" /\ backend.kind # "memory"
             /\ wire' = wire \cup {Request(c)}
             /\ Commit(objects)
       /\ Continue(c, Receive(c, SendError(backend.kind, e), 0))
  /\ UNCHANGED <<backend, calls>>

\* A request is served that nobody waits for any more.
Land ==
  \E r \in wire :
    /\ wire' = wire \ {r}
    /\ Commit(Serve(r).objects)
    /\ \E c \in Clients : Continue(c, client[c])
    /\ UNCHANGED <<backend, calls, faults>>

\* budget.spend fails between two exchanges.
OutOfBudget(c) ==
  /\ Waiting(c)
  /\ client' = [client EXCEPT ![c] = Done(@, "error")]
  /\ UNCHANGED <<backend, objects, serial, wire, calls, faults>>

Next ==
  \/ \E c \in Clients : Start(c) \/ Answered(c) \/ Failed(c) \/ Unheard(c) \/ OutOfBudget(c)
  \/ Land

Spec == Init /\ [][Next]_vars

-----------------------------------------------------------------------------
(* Properties. *)

\* Type invariant: versions come from the counter, and retries are bounded.
TypeOK ==
  /\ \A k \in Keys : objects[k].version \in 0..serial
  /\ \A c \in Clients : client[c].retries \in 0..Retries /\ client[c].tries \in 0..Retries
  /\ \A r \in wire : r.kind \in {"put", "cas", "head", "get", "list", "delete"}
  /\ Cardinality(wire) <= faults /\ faults <= backend.suite.faults /\ calls <= MaxCalls

\* The outcome of a resolving put is true when it is returned (put_resolving,
\* put_bytes_resolving): committed means that the key holds the very record, lost
\* that it holds another one; only the call's own unanswered put, served late, may
\* be what it lost to.
PutTruthful ==
  [][\A c \in Clients :
       LET d == client[c]
           res == client'[c].res
           at == objects'[d.key]
       IN  Waiting(c) =>
             /\ res = "committed" => at.body = d.body
             /\ res = "lost" => at # NoObject /\ (at.body # d.body \/ d.mute)]_vars

\* A listing is sound whatever is written and deleted while its pages are read
\* (list_authoritative over the backends' pages): it has every record that was
\* there all the time and none that never was, each once and in order.
ListingComplete ==
  \A c \in Clients :
    LET d == client[c]
        listed == ToSet(d.out)
    IN  d.res = "listed" =>
          /\ d.always \subseteq listed /\ listed \subseteq d.ever
          /\ \A i, j \in DOMAIN d.out : i < j => d.out[i] < d.out[j]

\* The tail hint never goes back (write_tail_hint): not by a slow writer, nor by a
\* swap that is served after its writer has given up.
HintMonotone ==
  [][\A k \in HintKeys : objects'[k].body >= objects[k].body]_vars

\* The properties below are about operators without state: they are evaluated in
\* one of the initial states.
AtStart ==
  /\ Init
  /\ backend = CHOOSE b \in [kind : Backend, suite : Suites] : TRUE
  /\ \A k \in Keys : objects[k] = NoObject

\* The backends keep one contract for ranged reads (ObjectStore::get): the adapters
\* agree with the in-memory store on every range, although servers clamp ranges;
\* and a server that ignores them never passes off other bytes of the object.
RangesAgree ==
  AtStart => \A size \in 0..3, s, e \in 0..4 :
    /\ HttpRange(size, s, e, TRUE) = MemoryRange(size, s, e)
    /\ S3Range(size, s, e, TRUE) = MemoryRange(size, s, e)
    /\ e <= size =>
         {HttpRange(size, s, e, FALSE), S3Range(size, s, e, FALSE)} \subseteq {NotFound, MemoryRange(size, s, e)}

\* The backends agree on every page of a listing (ObjectStore::list) whose limit
\* the server honours, an empty and a last page included.
PagesAgree ==
  AtStart => \A K \in SUBSET (1..4), after \in 0..4, limit \in 0..4 :
    /\ HttpPage(K, after, limit, 4, FALSE) = MemoryPage(K, after, limit)
    /\ S3Page(K, after, limit, 4, FALSE) = MemoryPage(K, after, limit)

\* What a server formats is read back: times to the second, over leap years and
\* centuries (parse_http_date and parse_iso8601_secs, against civil_from_days), and
\* text however its characters are escaped (xml_unescape).
FormatsRoundTrip ==
  AtStart =>
    /\ \A d \in Days, rem \in {0, 3599, 86399} :
         TimeOf(StampOf(d, rem)) = <<d, rem>> /\ IsoTime(StampOf(d, rem)) = <<d, rem>>
    /\ \A text \in BoundedSeq({"&", ";", "amp", "quote", "a"}, 4), table \in {References, Numbered} :
         XmlUnescape(Escape(text, table)) = text

\* Every object has one name (Key's Display and parse): keys survive being written
\* and read, no other spelling passes for one, and the core's parsers of index
\* entries and claim generations read in a key what parse reads.
KeysCanonical ==
  AtStart => \A k \in SampleKeys :
    Canonical(k) /\ \A m \in {Display(k)} \cup Misspelled(Display(k)) : EntryAgrees(m)

\* Listings come in the order of the numbers in the keys (to_be_bytes), so that the
\* last claim listed is the tail and due buckets come first.
KeysOrdered ==
  AtStart => \A k, l \in SampleKeys : Ordered(k, l)

\* The decoder that reads records straight off the bytes accepts exactly what the
\* tree-building path of the tests accepts, and reads the same record from it, for
\* every record with one field dropped, doubled, moved, replaced or added.
DecodersAgree ==
  AtStart => \A type \in Types : \A rec \in SampleRecords(type) :
    LET m == Encode(type, rec, "q", "t")
    IN  /\ \A fields \in EditedFields(m.fields) : SameDecoding(Seal([m EXCEPT !.fields = fields]))
        /\ \A d \in Damaged(m) : SameDecoding(d) /\ SameDecoding(Seal(d))

\* A record has one encoding: the writer emits what the sorting writer does and it is
\* read back, under its own queue and key only; damage is never taken for a record;
\* the length heads are the shortest, and no other form of them is read.
RecordsCanonical ==
  AtStart =>
    /\ \A type \in Types : \A rec \in SampleRecords(type) : WrittenIsRead(type, rec)
    /\ HeadsCanonical
    /\ \A rec \in SampleRecords("format"), n \in (0..9) \cup {32768, 65535, 65536, 65537} :
         ShardsCovered([rec EXCEPT !.shard_count = Uint(n)])
=============================================================================
