----------------------------- MODULE QueryScan ------------------------------
(***************************************************************************)
(* How the query of an announce or a scrape is taken apart                 *)
(* (scan_urlencoded_query.c, ot_http.c): one param=value pair after the    *)
(* other, decoded in place, in the buffer the rest is still read from.     *)
(*                                                                         *)
(* A character is a number.  Those below HEX * HEX are what %xy can stand  *)
(* for; those below HEX are digits.  A keyword is one such character, an   *)
(* info_hash OT_HASH of them.  Every text ends in END (space or newline):  *)
(* a request is handled once its header is complete.  Numbers are short    *)
(* enough not to overflow.                                                 *)
(***************************************************************************)
EXTENDS Integers, Sequences, SequencesExt, FiniteSetsExt

CONSTANTS
    HEX,                     \* digits
    AMP, EQ, PCT, MINUS,     \* & = % -
    END,                     \* hard terminator
    BAD, ODD,                \* characters no part of a query may have; ODD is marked as a terminator
    keywords_announce,       \* character -> what it names
    keywords_event,
    OT_HASH_SIZE,            \* characters of an info_hash or peer_id (20)
    MAXPORT, MAXNUMWANT, NUMWANT,   \* 65535, 200, 50
    OT_MAXMULTISCRAPE_COUNT,
    Before_query,            \* what the request has before the query
    Texts                    \* queries

VARIABLES
    page,      \* what is asked for
    text,      \* the query as it came
    request,   \* the buffer
    read_ptr,
    ws,        \* what has been found
    status     \* "scan", or how it ended

scanVars == <<page, text, request, read_ptr, ws, status>>

-----------------------------------------------------------------------------
(* scan_urlencoded_query.c *)

\* Mutant: '=' ends a value.
is_unreserved_Eq(c, flags) == c \notin {AMP, EQ, END, BAD, ODD}

\* is_unreserved: what a param or a value may consist of; '=' only a value.
is_unreserved(c, flags) == c \notin {AMP, END, BAD, ODD} /\ (flags = "PARAM" => c # EQ)

\* Mutant: the character that ends a word is never met again.
EndOf_Skip(buf, c, s, len, flags) ==
    CASE c = END -> IF len = 0 THEN [len |-> -2, s |-> s] ELSE [len |-> len, s |-> s]
      [] c = EQ /\ flags = "PARAM" -> [len |-> len, s |-> s]
      [] c = AMP -> [len |-> len, s |-> s]
      [] OTHER -> [len |-> -1, s |-> s]

\* The switch at the end: the result and the next position; s is the position behind c.
EndOf(buf, c, s, len, flags) ==
    CASE c = END -> [len |-> IF len = 0 THEN -2 ELSE len, s |-> s - 1]
      [] c = EQ /\ flags = "PARAM" -> [len |-> len, s |-> s]
      [] c = AMP -> [len |-> len, s |-> IF flags = "PARAM" THEN s - 1 ELSE s]
      [] OTHER -> [len |-> -1, s |-> s]

RECURSIVE scan_urlencoded_query(_, _, _, _, _)
\* From position s of the buffer to position d, of which len characters are written.
scan_urlencoded_query(buf, s, d, len, flags) ==
    LET c == buf[s]
        Write(x, n) == scan_urlencoded_query([buf EXCEPT ![d + len] = x], s + n, d, len + 1, flags)
    IN  IF ~is_unreserved(c, flags) THEN EndOf(buf, c, s + 1, len, flags) @@ [buf |-> buf]
        ELSE IF c # PCT THEN Write(c, 1)
        ELSE IF buf[s + 1] >= HEX THEN [len |-> -1, s |-> s, buf |-> buf]
        ELSE IF buf[s + 2] >= HEX THEN [len |-> -1, s |-> s, buf |-> buf]
        ELSE Write(HEX * buf[s + 1] + buf[s + 2], 3)

\* Mutant: a value that is not wanted ends in front of the '&', like a param.
scan_urlencoded_skipvalue_Amp(buf, s) ==
    CHOOSE i \in s..Len(buf) :
        ~is_unreserved(buf[i], "VALUE") /\ \A j \in s..(i - 1) : is_unreserved(buf[j], "VALUE")

\* Where a value that is not wanted ends; a terminator is met again.
scan_urlencoded_skipvalue(buf, s) ==
    LET end == CHOOSE i \in s..Len(buf) :
                   ~is_unreserved(buf[i], "VALUE") /\ \A j \in s..(i - 1) : is_unreserved(buf[j], "VALUE")
    IN  IF buf[end] \in {END, ODD} THEN end ELSE end + 1

\* scan_find_keywords: a word is a keyword when it has its length.
Keyword(keywords, word) ==
    IF Len(word) = 1 /\ word[1] \in DOMAIN keywords THEN keywords[word[1]] ELSE "unknown"

scan_find_keywords(keywords, buf, s, flags) ==
    LET r == scan_urlencoded_query(buf, s, s, 0, flags)
    IN  [key |-> CASE r.len = -2 -> "end" [] r.len = -1 -> "error"
                   [] OTHER -> Keyword(keywords, SubSeq(r.buf, s, s + r.len - 1)),
         s |-> IF r.len < 0 THEN s ELSE r.s, buf |-> r.buf]

\* scan_fixed_int: the number at the start of data, and whether all of it was one.
scan_fixed_int(data) ==
    LET digits == IF data[1] = MINUS THEN Tail(data) ELSE data
        n == Len(SelectSeq([i \in 1..Len(digits) |-> \A j \in 1..i : digits[j] < HEX], LAMBDA b : b))
        value == FoldLeft(LAMBDA v, c : HEX * v + c, 0, SubSeq(digits, 1, n))
    IN  [tmp |-> IF data[1] = MINUS THEN 0 - value ELSE value, all |-> n = Len(digits)]

-----------------------------------------------------------------------------

NoPeer == [port |-> 0, flags |-> {}, numwant |-> NUMWANT, hash |-> <<>>, peer_id |-> <<>>, ok |-> TRUE]

\* Mutant: a negative number of peers is taken.
Wanted_Negative(tmp) == Min({tmp, MAXNUMWANT})

Wanted(tmp) == IF tmp < 0 THEN NUMWANT ELSE Min({tmp, MAXNUMWANT})

\* What a value says of the peer; not ok stands for a bad parameter.  data is the decoded
\* value, found at position at; len tells an empty one.
Value(w, key, len, data, at) ==
    LET number == IF len <= 0 THEN [tmp |-> 0, all |-> FALSE] ELSE scan_fixed_int(data)
        Needs(cond, new) == IF cond THEN new ELSE [w EXCEPT !.ok = FALSE]
    IN  CASE key = "port" -> Needs(number.all /\ number.tmp <= MAXPORT,
                                   [w EXCEPT !.port = number.tmp % (MAXPORT + 1)])
          [] key = "left" -> Needs(len > 0, IF ~number.all \/ number.tmp = 0
                                            THEN [w EXCEPT !.flags = @ \cup {"SEEDING"}] ELSE w)
          [] key = "numwant" -> Needs(number.all, [w EXCEPT !.numwant = Wanted(number.tmp)])
          [] key = "compact" -> Needs(number.all /\ number.tmp # 0, w)
          [] key = "info_hash" -> Needs(w.hash = <<>> /\ len = OT_HASH_SIZE, [w EXCEPT !.hash = <<at>>])
          [] key = "peer_id" -> Needs(len = OT_HASH_SIZE, [w EXCEPT !.peer_id = <<at>>])

ScanInit ==
    /\ page \in {"announce", "scrape"}
    /\ text \in Texts
    /\ request = Before_query \o text
    /\ read_ptr = Len(Before_query) + 1
    /\ ws = IF page = "announce" THEN NoPeer ELSE [numwant |-> 0]
    /\ status = "scan"

\* How a round ends: the loop goes on at s, or with an answer.
On(s, buf, w) == [status |-> "scan", read_ptr |-> s, request |-> buf, ws |-> w]
Answer(a) == [status |-> a, read_ptr |-> read_ptr, request |-> request, ws |-> ws]

\* One round of the loop in http_handle_announce.
AnnounceRound ==
    LET k == scan_find_keywords(keywords_announce, request, read_ptr, "PARAM")
        e == scan_find_keywords(keywords_event, k.buf, k.s, "VALUE")
        r == scan_urlencoded_query(k.buf, k.s, k.s, 0, "VALUE")
        w == Value(ws, k.key, r.len, SubSeq(r.buf, k.s, k.s + r.len - 1), k.s)
    IN  CASE k.key = "end" -> Answer(IF ws.hash = <<>> THEN "no hash"
                                     ELSE IF "STOPPED" \in ws.flags THEN "stop" ELSE "announce")
          [] k.key = "error" -> Answer("400")
          [] k.key = "unknown" -> On(scan_urlencoded_skipvalue(k.buf, k.s), k.buf, ws)
          [] k.key = "event" ->
                 CASE e.key = "error" -> Answer("400")
                   [] e.key \in {"end", "unknown"} -> On(e.s, e.buf, ws)
                   [] OTHER -> On(e.s, e.buf, [ws EXCEPT !.flags = @ \cup {e.key}])
          [] OTHER -> IF w.ok THEN On(r.s, r.buf, w) ELSE Answer("400")

\* Mutant: hashes are collected from the start of the query, not of the request.
multiscrape_buf_Query(n) == Len(Before_query) + 2 + OT_HASH_SIZE * n

\* Hashes are collected from the start of the request on.
multiscrape_buf(n) == 1 + OT_HASH_SIZE * n

\* One round of the loop in http_handle_scrape.
ScrapeRound ==
    LET hash == [c \in {x \in DOMAIN keywords_announce : keywords_announce[x] = "info_hash"} |-> "info_hash"]
        k == scan_find_keywords(hash, request, read_ptr, "PARAM")
        r == scan_urlencoded_query(k.buf, k.s, multiscrape_buf(ws.numwant), 0, "VALUE")
        limit == Min({ws.numwant, OT_MAXMULTISCRAPE_COUNT})
    IN  CASE k.key = "end" -> IF ws.numwant = 0 THEN Answer("400")
                              ELSE [Answer("scrape") EXCEPT !.ws.numwant = limit]
          [] k.key = "error" -> Answer("400")
          [] k.key = "unknown" -> On(scan_urlencoded_skipvalue(k.buf, k.s), k.buf, ws)
          [] k.key = "info_hash" -> IF r.len # OT_HASH_SIZE THEN Answer("400")
                                    ELSE On(r.s, r.buf, [numwant |-> ws.numwant + 1])

Becomes(round) ==
    /\ status' = round.status /\ read_ptr' = round.read_ptr
    /\ request' = round.request /\ ws' = round.ws
    /\ UNCHANGED <<page, text>>

http_handle_announce == page = "announce" /\ status = "scan" /\ Becomes(AnnounceRound)
http_handle_scrape == page = "scrape" /\ status = "scan" /\ Becomes(ScrapeRound)

ScanNext == http_handle_announce \/ http_handle_scrape

-----------------------------------------------------------------------------
(* What a query means, found by splitting it and not by scanning it *)

\* The text up to its end, cut at each '&'; a part cut at its first '='.
Query(t) == SubSeq(t, 1, (CHOOSE i \in 1..Len(t) : t[i] = END /\ \A j \in 1..(i - 1) : t[j] # END) - 1)
Cut(t, c) ==
    LET at == SetToSeq({i \in 1..Len(t) : t[i] = c})
        sorted == SortSeq(at, LAMBDA a, b : a < b)
        from(k) == IF k = 1 THEN 1 ELSE sorted[k - 1] + 1
        to(k) == IF k = Len(at) + 1 THEN Len(t) ELSE sorted[k] - 1
    IN  [k \in 1..(Len(at) + 1) |-> SubSeq(t, from(k), to(k))]
Param(part) == Head(Cut(part, EQ))
Of(part) == SubSeq(part, Len(Param(part)) + 2, Len(part))

\* A word with its escapes replaced, or Wrong.
Wrong == <<BAD>>
RECURSIVE Decode(_)
Decode(s) ==
    IF s = <<>> THEN <<>>
    ELSE IF s[1] # PCT THEN <<s[1]>> \o Decode(Tail(s))
    ELSE IF Len(s) < 3 THEN Wrong
    ELSE IF s[2] >= HEX \/ s[3] >= HEX THEN Wrong
    ELSE <<HEX * s[2] + s[3]>> \o Decode(SubSeq(s, 4, Len(s)))
IsWrong(word) == BAD \in Range(word)

\* What a part adds to what the parts before it said; a hash stands for itself here.
Meant(w, part) ==
    LET word == Decode(Param(part))
        key == Keyword(keywords_announce, word)
        data == Decode(Of(part))
        e == Keyword(keywords_event, data)
    IN  IF ~w.ok \/ IsWrong(word) THEN [w EXCEPT !.ok = FALSE]
        ELSE IF key = "unknown" THEN w
        ELSE IF IsWrong(data) THEN [w EXCEPT !.ok = FALSE]
        ELSE IF key # "event" THEN Value(w, key, Len(data), data, data)
        ELSE IF e = "unknown" THEN w ELSE [w EXCEPT !.flags = @ \cup {e}]
Meaning == FoldLeft(Meant, NoPeer, Cut(Query(text), AMP))

\* The hash a part names, if any, or Wrong.
Hash(part) ==
    LET word == Decode(Param(part))
        hash == Decode(Of(part))
    IN  IF IsWrong(word) THEN <<Wrong>>
        ELSE IF Keyword(keywords_announce, word) # "info_hash" THEN <<>>
        ELSE IF Len(hash) # OT_HASH_SIZE THEN <<Wrong>> ELSE <<hash>>
Scraped ==
    LET parts == Cut(Query(text), AMP)
    IN  FlattenSeq([i \in 1..Len(parts) |-> Hash(parts[i])])

Clean == \A i \in 1..Len(text) : text[i] \notin {BAD, ODD}

-----------------------------------------------------------------------------

ScanTypeOK ==
    /\ status \in {"scan", "400", "no hash", "stop", "announce", "scrape"}
    /\ Len(request) = Len(Before_query) + Len(text)
    /\ ws.numwant \in Nat
    /\ page = "announce" => ws.numwant <= MAXNUMWANT
    /\ status = "scrape" => ws.numwant <= OT_MAXMULTISCRAPE_COUNT

\* What an announce is taken to say is what its query says, though the scan decodes it in
\* place and keeps pointers into the buffer it goes on writing to.
QueryMeaning ==
    page = "announce" /\ status # "scan" /\ Clean =>
        LET At(p) == IF p = <<>> THEN p ELSE <<SubSeq(request, p[1], p[1] + OT_HASH_SIZE - 1)>>
        IN  /\ Meaning.ok <=> status # "400"
            /\ Meaning.ok => [ws EXCEPT !.hash = At(@), !.peer_id = At(@)] = Meaning

\* The hashes of a scrape are collected over the start of the request, which has been
\* read by then: each is the one the query names, in order.
ScrapeMeaning ==
    page = "scrape" /\ status # "scan" /\ Clean =>
        IF Scraped = <<>> \/ \E i \in 1..Len(Scraped) : IsWrong(Scraped[i]) THEN status = "400"
        ELSE /\ status = "scrape"
             /\ \A i \in 1..ws.numwant :
                    SubSeq(request, OT_HASH_SIZE * (i - 1) + 1, OT_HASH_SIZE * i) = Scraped[i]

\* The scan stays in the query: it never passes the first hard terminator.
ScanInQuery == read_ptr <= Len(Before_query) + Len(Query(text)) + 1

\* Every round of the loops ends the scan or reads something: the event loop does not stay
\* in one of them.
ScanAdvances ==
    LET round == IF page = "announce" THEN AnnounceRound ELSE ScrapeRound
    IN  status = "scan" /\ round.status = "scan" => round.read_ptr > read_ptr

\* A query decoded over itself means what it says, and the scan of it stays inside and ends.
QueryRead == QueryMeaning /\ ScrapeMeaning /\ ScanInQuery /\ ScanAdvances
=============================================================================
