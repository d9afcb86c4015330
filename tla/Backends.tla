------------------------------ MODULE Backends ------------------------------
(***************************************************************************)
(* What each store backend makes of one exchange with its server, as pure  *)
(* operators: how statuses and transport errors are classified, how ranged *)
(* reads and pages of a listing come out, and how XML and dates are read.  *)
(* The in-memory store is the reference, http and s3 the adapters.         *)
(*                                                                         *)
(* Keys are positive numbers in the order of their strings, with 0 for     *)
(* "from the start" and for "no next page".  Bodies are never looked into. *)
(***************************************************************************)
EXTENDS Integers, Sequences, SequencesExt, FiniteSets, FiniteSetsExt, TLC

-----------------------------------------------------------------------------
(* Classification: every answer becomes a member of the error taxonomy. *)

\* A conditional put: committed, lost the race, unknown, or out of contract.
HttpPutStatus(s) ==
  CASE s = 200 -> "committed" [] s = 412 -> "rejected" [] s >= 500 -> "unknown" [] OTHER -> "violation"
S3PutStatus(s) ==
  IF s \in 200..299 THEN "committed"
  ELSE CASE s = 412 -> "rejected" [] s >= 500 -> "unknown" [] OTHER -> "violation"
MemoryPutStatus(s) ==
  CASE s = 200 -> "committed" [] s = 412 -> "rejected" [] OTHER -> "notfound"

\* A read: 404 and an unsatisfiable range are absence.
HttpReadStatus(s) ==
  CASE s \in {200, 206} -> "ok" [] s \in {404, 416} -> "notfound"
    [] s >= 500 -> "unknown" [] OTHER -> "violation"
S3ReadStatus(s) ==
  IF s \in 200..299 THEN "ok"
  ELSE CASE s = 404 -> "notfound" [] s = 416 -> "notfound" [] s >= 500 -> "unknown" [] OTHER -> "violation"

\* A listing: neither adapter asks for a second try, not even on a 5xx.
HttpListStatus(s) == IF s = 200 THEN "ok" ELSE "violation"
S3ListStatus(s) == IF s \in 200..299 THEN "ok" ELSE "violation"

\* A delete is idempotent: a missing key is success.
HttpDeleteStatus(s) ==
  CASE s \in {200, 204, 404} -> "ok" [] s >= 500 -> "unknown" [] OTHER -> "violation"
S3DeleteStatus(s) == IF s = 404 THEN "ok" ELSE S3ReadStatus(s)

\* The in-memory store answers as http does, but for a swap of an absent key.
PutStatus(b, s) ==
  CASE b = "memory" -> MemoryPutStatus(s) [] b = "http" -> HttpPutStatus(s) [] b = "s3" -> S3PutStatus(s)
ReadStatus(b, s) == IF b = "s3" THEN S3ReadStatus(s) ELSE HttpReadStatus(s)
ListStatus(b, s) == IF b = "s3" THEN S3ListStatus(s) ELSE HttpListStatus(s)
DeleteStatus(b, s) == IF b = "s3" THEN S3DeleteStatus(s) ELSE HttpDeleteStatus(s)

\* No answer.  Only an error that is raised before anything is sent may be retried
\* blindly: a refused connection for http (send marks it), a request that could not
\* be built for s3, the injector's PreTransmit for the in-memory store.
SendErrors == {"connect", "user", "timeout", "other"}
SendMarker(e) ==
  CASE e = "connect" -> "[pretransmit]" [] e = "timeout" -> "[timeout]" [] OTHER -> "[unknown]"
HttpSendError(e) == IF SendMarker(e) = "[pretransmit]" THEN "transport" ELSE "unknown"
S3SendError(e) == IF e = "user" THEN "transport" ELSE "unknown"
InjectedError(e) == IF e = "connect" THEN "transport" ELSE "unknown"
SendError(b, e) ==
  CASE b = "memory" -> InjectedError(e) [] b = "http" -> HttpSendError(e) [] b = "s3" -> S3SendError(e)
Unsent(b, e) == e = (IF b = "s3" THEN "user" ELSE "connect")

-----------------------------------------------------------------------------
(* Ranged reads of an object of a given size: the bytes from s up to but not
   including e, as the pair <<s, e>>, or NotFound. *)

NotFound == <<>>

MemoryRange(size, s, e) == IF s >= e \/ e > size THEN NotFound ELSE <<s, e>>

\* A server clamps the end of a range; one that knows no ranges sends it all.
ServerRange(size, s, e, ranges) ==
  IF ~ranges THEN <<0, size>>
  ELSE IF s >= size THEN NotFound ELSE <<s, IF e <= size THEN e ELSE size>>

\* Deviation: what the server sent is taken for what was asked for.
HttpRangeUnchecked(size, s, e, ranges) ==
  IF s >= e THEN NotFound ELSE ServerRange(size, s, e, ranges)

\* The adapters send no empty range, and take a short body for absence.
HttpRange(size, s, e, ranges) ==
  LET sent == ServerRange(size, s, e, ranges)
  IN  IF s >= e \/ sent = NotFound THEN NotFound
      ELSE IF sent[2] - sent[1] # e - s THEN NotFound ELSE sent

S3Range(size, s, e, ranges) ==
  LET sent == ServerRange(size, s, e, ranges)
  IN  IF s < e /\ sent # NotFound /\ sent[2] - sent[1] = e - s THEN sent ELSE NotFound

-----------------------------------------------------------------------------
(* Pages of a listing of the keys K: at most limit of them, after a key. *)

Sorted(K) == SetToSortSeq(K, <)
FirstOf(q, n) == SubSeq(q, 1, Min({n, Len(q)}))
LastOr0(q) == IF q = <<>> THEN 0 ELSE Last(q)

MemoryPage(K, after, limit) ==
  LET all == Sorted({k \in K : k > after})
      items == FirstOf(all, limit)
  IN  [items |-> items, next |-> IF Len(all) > limit THEN LastOr0(items) ELSE 0]

\* The server's page: it may take start-after to include its key, and it caps
\* the size of a page.
ServerPage(K, after, limit, cap, inclusive) ==
  LET all == Sorted({k \in K : k > after \/ (inclusive /\ k = after)})
      items == FirstOf(all, Min({limit, cap}))
  IN  [items |-> items, truncated |-> Len(all) > Len(items)]

(* The XML of a listing, as a sequence of tokens: tags, characters, and the names of
   character references. *)

References == [amp |-> "&", lt |-> "<", gt |-> ">", quot |-> "quote", apos |-> "apostrophe"]
Numbered == "#38" :> "&" @@ "#60" :> "<" @@ "#62" :> ">" @@ "#34" :> "quote" @@ "#39" :> "apostrophe"

\* The server's escaping, by the names of a table of references.
Escape(text, table) ==
  LET one(c) == IF \E e \in DOMAIN table : table[e] = c
                THEN <<"&", CHOOSE e \in DOMAIN table : table[e] = c, ";">> ELSE <<c>>
  IN  FlattenSeq([i \in DOMAIN text |-> one(text[i])])

\* From an ampersand to the next semicolon is one reference; an unknown one, and an
\* ampersand that no semicolon follows, stay as they are.
XmlUnescape(text) ==
  LET known == References @@ Numbered
      read(st, c) ==
        CASE st.ref = <<>> -> IF c = "&" THEN [st EXCEPT !.ref = <<c>>] ELSE [st EXCEPT !.out = Append(@, c)]
          [] c # ";"       -> [st EXCEPT !.ref = Append(@, c)]
          [] OTHER         -> [ref |-> <<>>,
                               out |-> st.out \o (IF Len(st.ref) = 2 /\ st.ref[2] \in DOMAIN known
                                                  THEN <<known[st.ref[2]]>> ELSE Append(st.ref, c))]
      end == FoldLeft(read, [out |-> <<>>, ref |-> <<>>], text)
  IN  end.out \o end.ref

FirstFrom(doc, token, from) ==
  LET at == {i \in from .. Len(doc) : doc[i] = token} IN IF at = {} THEN 0 ELSE Min(at)

\* The text of the first element of that name.
Extract(doc, tag) ==
  LET open == FirstFrom(doc, "<" \o tag \o ">", 1)
      close == FirstFrom(doc, "</" \o tag \o ">", open + 1)
  IN  IF open = 0 \/ close = 0 THEN <<>> ELSE SubSeq(doc, open + 1, close - 1)

ParseList(doc) ==
  LET from[i \in 1 .. Len(doc) + 1] ==
        LET open == FirstFrom(doc, "<Contents>", i)
            close == FirstFrom(doc, "</Contents>", open + 1)
        IN  IF open = 0 \/ close = 0 THEN <<>>
            ELSE <<XmlUnescape(Extract(SubSeq(doc, open + 1, close - 1), "Key"))>> \o from[close + 1]
  IN  [contents |-> from[1], is_truncated |-> Extract(doc, "IsTruncated") = <<"true">>]

\* The document of a page; its keys need no escaping.
KeyText(k) == <<ToString(k)>>
ListDocument(page) ==
  <<"<IsTruncated>", IF page.truncated THEN "true" ELSE "false", "</IsTruncated>">>
  \o FlattenSeq([i \in DOMAIN page.items |->
       <<"<Contents>", "<Key>">> \o KeyText(page.items[i]) \o <<"</Key>", "<Size>", "7", "</Size>", "</Contents>">>])

\* Deviation: the next page starts where the server was asked to start.
HttpPageStuck(K, after, limit, cap, inclusive) ==
  LET page == ServerPage(K, after, limit, cap, inclusive)
      items == SelectSeq(page.items, LAMBDA k : k > after)
  IN  [items |-> items, next |-> IF page.truncated THEN after ELSE 0]

\* The adapters drop a key that is not after the one asked for; a key of the store
\* is known again by its text.
HttpPage(K, after, limit, cap, inclusive) ==
  LET doc == ListDocument(ServerPage(K, after, limit, cap, inclusive))
      parsed == ParseList(doc)
      items == SelectSeq([i \in DOMAIN parsed.contents |-> CHOOSE k \in K : KeyText(k) = parsed.contents[i]],
                         LAMBDA k : k > after)
  IN  IF limit = 0 THEN [items |-> <<>>, next |-> 0]
      ELSE [items |-> items, next |-> IF parsed.is_truncated THEN LastOr0(items) ELSE 0]

S3Page(K, after, limit, cap, inclusive) ==
  LET page == ServerPage(K, after, limit, cap, inclusive)
      items == SelectSeq(page.items, LAMBDA k : ~(k <= after))
  IN  IF limit = 0 THEN [items |-> <<>>, next |-> 0]
      ELSE [items |-> items, next |-> IF page.truncated THEN LastOr0(items) ELSE 0]

-----------------------------------------------------------------------------
(* Dates.  A time, as its day and the second of the day, becomes the civil date
   and time of a stamp; a Last-Modified date becomes a time again. *)

CivilFromDays(days) ==
  LET z   == days + 719468
      era == (IF z >= 0 THEN z ELSE z - 146096) \div 146097
      doe == z - era * 146097
      yoe == (doe - doe \div 1460 + doe \div 36524 - doe \div 146096) \div 365
      doy == doe - (365 * yoe + yoe \div 4 - yoe \div 100)
      mp  == (5 * doy + 2) \div 153
      m   == IF mp < 10 THEN mp + 3 ELSE mp - 9
  IN  [y |-> yoe + era * 400 + (IF m <= 2 THEN 1 ELSE 0), m |-> m,
       d |-> doy - (153 * mp + 2) \div 5 + 1]

StampOf(days, rem) ==
  CivilFromDays(days) @@ [h |-> rem \div 3600, mi |-> (rem % 3600) \div 60, s |-> rem % 60]

\* Deviation: the year is taken to begin in January.
DaysFromJanuary(y, m, d) ==
  LET era == y \div 400
      yoe == y - era * 400
      mp  == IF m > 2 THEN m - 3 ELSE m + 9
  IN  yoe * 365 + yoe \div 4 - yoe \div 100 + (153 * mp + 2) \div 5 + d - 1 + era * 146097 - 719468

DaysFromCivil(y, m, d) ==
  LET y1  == IF m <= 2 THEN y - 1 ELSE y
      era == (IF y1 >= 0 THEN y1 ELSE y1 - 399) \div 400
      yoe == y1 - era * 400
      mp  == IF m > 2 THEN m - 3 ELSE m + 9
      doy == (153 * mp + 2) \div 5 + d - 1
  IN  yoe * 365 + yoe \div 4 - yoe \div 100 + doy + era * 146097 - 719468

\* parse_http_date; and parse_iso8601_secs, of the dates in a listing.
TimeOf(stamp) ==
  <<DaysFromCivil(stamp.y, stamp.m, stamp.d), stamp.h * 3600 + stamp.mi * 60 + stamp.s>>

IsoTime(stamp) ==
  LET y   == IF stamp.m <= 2 THEN stamp.y - 1 ELSE stamp.y
      era == (IF y >= 0 THEN y ELSE y - 399) \div 400
      yoe == y - era * 400
      doy == (153 * (IF stamp.m > 2 THEN stamp.m - 3 ELSE stamp.m + 9) + 2) \div 5 + stamp.d - 1
      doe == yoe * 365 + yoe \div 4 - yoe \div 100 + doy
  IN  <<doe + era * 146097 - 719468, stamp.h * 3600 + stamp.mi * 60 + stamp.s>>
=============================================================================
