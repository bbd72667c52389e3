---------------------------- MODULE HeaderParser ----------------------------
(***************************************************************************)
(* The parser of http/http_headers.c on the ring it feeds, and what runs   *)
(* before it: the reads of receive_new_request_from_client and of          *)
(* accept_reply_from_server, and the type of http/http_first_line.c.  The  *)
(* peer's bytes arrive cut into chunks of any sizes; the parser walks over *)
(* them with three pointers.  Nothing is sent meanwhile: last_sent is 0.   *)
(*                                                                         *)
(* The reference is the parse of the uncut stream (section Properties).    *)
(***************************************************************************)
EXTENDS Integers, Sequences, SequencesExt, FiniteSetsExt

CONSTANTS
    Size,           \* of the ring, BUFFER_SIZE
    MaxChunk,       \* of a buffer, TX_BUFFER_SIZE
    Chunks,         \* the sizes a read may return
    Inputs,         \* [kind, stream, peer, beyond] to parse: see Init
    MaxLength,      \* of their streams
    KnownKeys,      \* the keys find_header_index finds (see HeaderSearch)
    ContentLength,  \* the one of HTTP_CONTENT_LENGTH
    GET, POST, HTTP,   \* the words a first line is recognised by
    IntBits         \* width of an int

NUL == 0
LF == 10
CR == 13
SP == 32
COLON == 58

Silent == 1   \* a peer that neither sends nor closes

Byte == 0 .. 255

ASSUME ParserAssumption ==
    /\ Size \in Nat /\ 2^Size \in Nat \ {0}
    /\ MaxChunk \in Nat \ {0} /\ Chunks \subseteq 1 .. MaxChunk
    /\ ContentLength \in KnownKeys
    /\ IntBits \in Nat \ {0} /\ 2^(IntBits - 1) \in Nat \ {0}

ASSUME InputsAssumption ==
    /\ MaxLength \in Nat
    /\ \A i \in Inputs : /\ i.kind \in {"opening", "request", "reply"}
                         /\ i.stream \in Seq(Byte) /\ Len(i.stream) <= MaxLength
                         /\ i.peer \in {-1, 0, Silent}
                         /\ i.beyond \in Byte

(* The names that http_headers.c lists are strings without a colon, and    *)
(* "HTTP" has no space.                                                    *)
ASSUME WordsAssumption ==
    /\ \A key \in KnownKeys : key \in Seq(Byte \ {COLON, NUL})
    /\ HTTP \in Seq(Byte \ {SP})

VARIABLES input,
          data_sizes, next_to_be_received, start, received,   \* the ring
          start_of_line, last_semicolon, cur_loc,   \* http_header_t
          headers,        \* the pushes on the stacks of values, in order
          type, body_length,
          lines, pc       \* calls of get_next_line that returned (2: or more)

ring == <<data_sizes, next_to_be_received, start, received>>
pointers == <<start_of_line, last_semicolon, cur_loc>>
results == <<headers, type, body_length>>
vars == <<input, ring, pointers, results, lines, pc>>

P == INSTANCE CircularPointers
        WITH MaxSize <- MaxChunk, Ends <- {-1, 0}, MaxAsk <- 0, MaxRemainder <- 0,
             Total <- MaxLength, last_sent <- 0,
             ptr <- cur_loc, add <- <<>>

(* kind: who reads: "opening" (receive_new_request_from_client), "request" *)
(* (decode_request_message_header) or "reply" (receive_reply).  peer: what *)
(* a read at the end of the stream returns, or Silent: it blocks.          *)
(* beyond: the byte in memory after a buffer that a read has filled.       *)
Init == /\ input \in Inputs
        /\ data_sizes = [i \in P!Entries |-> -1]
        /\ next_to_be_received = 0
        /\ start = [i \in P!Entries |-> 0]
        /\ received = 0
        /\ start_of_line = P!At(0, 0)
        /\ last_semicolon = P!At(-1, -1)
        /\ cur_loc = P!At(0, 0)
        /\ headers = <<>>
        /\ type = 0
        /\ body_length = 0
        /\ lines = 0
        /\ pc = IF input.kind = "request" THEN "line" ELSE "read"

-----------------------------------------------------------------------------
(* Bytes.  A buffer is blank behind its data (release_buffer).             *)

stream == input.stream

Left(p) == data_sizes[p.circ_index] - p.buff_pos

get_char(p) == IF Left(p) > 0 THEN stream[P!Position(p) + 1]
               ELSE IF p.buff_pos >= MaxChunk THEN input.beyond ELSE NUL

After(p, n) == [p EXCEPT !.buff_pos = @ + n]

(* op_add_circ_pointers(p, 1), where the next entry, if it is needed, has  *)
(* been fed.                                                               *)
op_add_1(p) == IF Left(p) > 0 THEN After(p, 1)
               ELSE P!At(P!circular_increment(p.circ_index), 1)

between(p, q) == LET positions == P!buffer_2_str_copy(p, q)
                 IN [k \in DOMAIN positions |-> stream[positions[k] + 1]]

(* What strcmp, strlen and the stacks of values see of the bytes that are  *)
(* copied: those before the first NUL.  (strncpy stops at it, too, and     *)
(* fills the rest of its piece with zeros.)                                *)
c_string(s) == SubSeq(s, 1, Min({k \in DOMAIN s : s[k] = NUL} \union {Len(s) + 1}) - 1)

(* buffer_2_str_copy.                                                      *)
copy(p, q) == c_string(between(p, q))

(* Mutant: a line feed only.                                               *)
is_eol_OneByte(p, size) ==
    IF size <= 0 THEN -1 ELSE IF get_char(p) = LF THEN 1 ELSE 0

is_eol(p, size) ==
    IF size <= 0 THEN -1
    ELSE IF size >= 2 /\ {get_char(p), get_char(After(p, 1))} = {LF, CR} THEN 2
    ELSE IF get_char(p) = LF THEN 1 ELSE 0

-----------------------------------------------------------------------------
(* Reading.                                                                *)

ReadResults ==
    {n \in Chunks : received + n <= Len(stream)}
      \union {n \in {-1, 0} : received = Len(stream) /\ input.peer = n}

read_next_buffer ==
    IF P!Full THEN UNCHANGED ring
    ELSE \E n \in ReadResults : P!feed_next_buffer(n)

(* The first read of receive_new_request_from_client, and the one of       *)
(* accept_reply_from_server.                                               *)
ReadFirst ==
    /\ pc = "read"
    /\ read_next_buffer
    /\ pc' = "type"
    /\ UNCHANGED <<input, pointers, results, lines>>

InLast(n) == P!At(P!LastReceived, n)

StartsWith(word) == \A k \in 1 .. Len(word) : get_char(InLast(k - 1)) = word[k]

http_decode_request_type ==
    IF StartsWith(GET) THEN 1 ELSE IF StartsWith(POST) THEN 2 ELSE 0

Overrun == -1000   \* what is found behind the buffer is not known

(* Mutant: the first space ends the search for the code.                   *)
http_decode_response_type_OneSpace ==
    LET spaces == {k \in 0 .. MaxChunk - 1 : get_char(InLast(k)) = SP}
        code == Min(spaces) + 1
        digit(k) == get_char(InLast(code + k)) - 48
    IN IF ~StartsWith(HTTP) THEN 0
       ELSE IF spaces = {} THEN Overrun
       ELSE 100 * digit(0) + 10 * digit(1) + digit(2)

(* The three bytes after the first run of spaces.                          *)
http_decode_response_type ==
    LET spaces == {k \in 0 .. MaxChunk - 1 : get_char(InLast(k)) = SP}
        code == Min({k \in Min(spaces) .. MaxChunk : get_char(InLast(k)) # SP})
        digit(k) == get_char(InLast(code + k)) - 48
    IN IF ~StartsWith(HTTP) THEN 0
       ELSE IF spaces = {} THEN Overrun
       ELSE 100 * digit(0) + 10 * digit(1) + digit(2)

DecodeType ==
    /\ pc = "type"
    /\ \/ /\ input.kind = "opening"
          /\ type' = http_decode_request_type
          /\ pc' = "read_again"
       \/ /\ input.kind = "reply"
          /\ type' = http_decode_response_type
          /\ pc' = "line"
    /\ UNCHANGED <<input, ring, pointers, headers, body_length, lines>>

(* receive_new_request_from_client reads a second time.                    *)
ReadSecond ==
    /\ pc = "read_again"
    /\ read_next_buffer
    /\ pc' = "line"
    /\ UNCHANGED <<input, pointers, results, lines>>

-----------------------------------------------------------------------------
(* get_next_line.                                                          *)

GetNextLine ==
    /\ pc = "line"
    /\ IF P!Empty \/ P!cmp_ptr_to_last_received(cur_loc) >= 0
       THEN read_next_buffer ELSE UNCHANGED ring
    /\ pc' = "skip"
    /\ UNCHANGED <<input, start_of_line, last_semicolon, cur_loc, results, lines>>

(* Mutant: the line still starts at the end of the one before.             *)
skip_eol_if_present_Stays ==
    /\ pc = "skip"
    /\ cur_loc' = After(cur_loc, Max({0, is_eol(cur_loc, Left(cur_loc))}))
    /\ pc' = "scan"
    /\ UNCHANGED <<input, ring, start_of_line, last_semicolon, results, lines>>

skip_eol_if_present ==
    /\ pc = "skip"
    /\ LET offset == is_eol(cur_loc, Left(cur_loc))
       IN IF offset > 0 THEN /\ cur_loc' = After(cur_loc, offset)
                             /\ start_of_line' = cur_loc'
          ELSE UNCHANGED <<cur_loc, start_of_line>>
    /\ pc' = "scan"
    /\ UNCHANGED <<input, ring, last_semicolon, results, lines>>

(* is_ptr_pointing_to_eol_or_eos: with less than two bytes left in the     *)
(* entry, the next one is fed if it has to be.                             *)
Ahead == data_sizes[P!circular_increment(cur_loc.circ_index)]

LooksAhead == pc = "scan" /\ Left(cur_loc) < 2 /\ Ahead < 0

LookAhead ==
    /\ LooksAhead
    /\ read_next_buffer
    /\ pc' = "judge"
    /\ UNCHANGED <<input, start_of_line, last_semicolon, cur_loc, results, lines>>

Judges == pc = "judge" \/ (pc = "scan" /\ ~LooksAhead)

(* On the last byte of an entry the size becomes 2 but the second byte is  *)
(* the one behind it; past the last byte, the second byte of the next      *)
(* entry is looked at.                                                     *)
is_ptr_pointing_to_eol_or_eos ==
    LET eof == Ahead <= 0
        next == op_add_1(cur_loc)
    IN IF Left(cur_loc) >= 2 \/ eof
       THEN Left(cur_loc) <= 0 \/ is_eol(cur_loc, Left(cur_loc)) # 0
       ELSE IF Left(cur_loc) = 1 THEN is_eol(cur_loc, 2) # 0
       ELSE is_eol(next, Left(next)) # 0

Advance ==
    /\ Judges
    /\ ~is_ptr_pointing_to_eol_or_eos
    /\ last_semicolon' = IF get_char(cur_loc) = COLON THEN cur_loc ELSE last_semicolon
    /\ cur_loc' = op_add_1(cur_loc)
    /\ pc' = "scan"
    /\ UNCHANGED <<input, ring, start_of_line, results, lines>>

-----------------------------------------------------------------------------
(* decode_http_headers: the first line is skipped, an empty one or one     *)
(* that begins with a colon is the last.                                   *)

LineRead == Judges /\ is_ptr_pointing_to_eol_or_eos

FirstLine ==
    /\ LineRead /\ lines = 0
    /\ lines' = 1
    /\ pc' = "line"
    /\ UNCHANGED <<input, ring, pointers, results>>

header_strlen == P!op_distance_circ_pointers(start_of_line, cur_loc)

ColonAfterStart == P!cmp_circular_ptr(last_semicolon, start_of_line)

HeaderLine == LineRead /\ lines > 0 /\ header_strlen > 0 /\ ColonAfterStart # 0

(* Mutant: the colon is left.                                              *)
ValueStart_Colon == last_semicolon

(* http_headers_get_header_value: past the colon and the spaces behind it. *)
(* (The byte after it at the end of the stream is a NUL and adds nothing.) *)
ValueStart ==
    LET p == op_add_1(last_semicolon)
    IN After(p, Min({k \in 0 .. MaxChunk : get_char(After(p, k)) # SP}))

Key == copy(start_of_line, last_semicolon)

(* A value begins behind its line if the colon was that of a header before *)
(* it: a key with a NUL is known without its colon.                        *)
ValueInLine == P!cmp_circular_ptr(ValueStart, cur_loc) <= 0

(* http_headers_add without a colon in the line, or with the value behind  *)
(* it: the length of the key, or of the value, is negative, or the loop of *)
(* op_distance_circ_pointers never ends.                                   *)
AddOutOfLine ==
    /\ HeaderLine
    /\ \/ ColonAfterStart < 0
       \/ ColonAfterStart > 0 /\ Key \in KnownKeys /\ ~ValueInLine
    /\ pc' = "fault"
    /\ UNCHANGED <<input, ring, pointers, results, lines>>

http_headers_add ==
    /\ HeaderLine
    /\ ColonAfterStart > 0
    /\ Key \in KnownKeys => ValueInLine
    /\ IF Key \in KnownKeys
       THEN /\ headers' = Append(headers, [key |-> Key, value |-> copy(ValueStart, cur_loc)])
            /\ last_semicolon' = ValueStart
       ELSE UNCHANGED <<headers, last_semicolon>>
    /\ lines' = 2
    /\ pc' = "line"
    /\ UNCHANGED <<input, ring, start_of_line, cur_loc, type, body_length>>

(* str2int, in int arithmetic that wraps; (int) of a power that does not   *)
(* fit is the smallest int.                                                *)
MaxInt == 2^(IntBits - 1) - 1
Wrap(n) == ((n + MaxInt + 1) % (2 * (MaxInt + 1))) - MaxInt - 1
ToInt(n) == IF n > MaxInt THEN -MaxInt - 1 ELSE n

(* pow(10, e), for e up to n.                                              *)
PowersTo(n) ==
    LET power[e \in 0 .. n] == IF e = 0 THEN 1 ELSE 10 * power[e - 1]
    IN power

(* Mutant: the powers are one too high.                                    *)
str2int_HighPower(value) ==
    LET pow == PowersTo(Len(value))
        res[i \in 0 .. Len(value)] ==
          IF i = 0 THEN 0
          ELSE Wrap(res[i - 1] + ToInt(pow[Len(value) - i + 1]) * (value[i] - 48))
    IN res[Len(value)]

str2int(value) ==
    LET pow == PowersTo(Len(value))
        res[i \in 0 .. Len(value)] ==
          IF i = 0 THEN 0
          ELSE Wrap(res[i - 1] + ToInt(pow[Len(value) - i]) * (value[i] - 48))
    IN res[Len(value)]

LengthsIn(hs) == {k \in DOMAIN hs : hs[k].key = ContentLength}

(* The top of the stack is the value pushed last.                          *)
decode_body_length(hs) ==
    IF LengthsIn(hs) = {} THEN 0 ELSE str2int(hs[Max(LengthsIn(hs))].value)

HeaderDecoded ==
    /\ LineRead /\ lines > 0
    /\ header_strlen <= 0 \/ ColonAfterStart = 0
    /\ body_length' = decode_body_length(headers)
    /\ pc' = "done"
    /\ UNCHANGED <<input, ring, pointers, headers, type, lines>>

Next == \/ ReadFirst \/ DecodeType \/ ReadSecond
        \/ GetNextLine \/ skip_eol_if_present \/ LookAhead \/ Advance
        \/ FirstLine \/ AddOutOfLine \/ http_headers_add \/ HeaderDecoded

Spec == Init /\ [][Next]_vars

(* The thread runs, and bytes that were sent arrive.                       *)
FairSpec == Spec /\ WF_vars(Next)

-----------------------------------------------------------------------------
(* Properties.  The parse of the uncut stream: lines end with a line feed, *)
(* which a carriage return may precede; the header ends with an empty one. *)

Streams == {i.stream : i \in Inputs}

(* A line of s ends with the line feed at n: its text is what is behind    *)
(* LineStart and not behind TextEnd.                                       *)
Feeds(s) == {n \in DOMAIN s : s[n] = LF}
LineStart(s, n) == Max({0} \union {m \in Feeds(s) : m < n})
TextEnd(s, n) == IF n > 1 /\ s[n - 1] = CR THEN n - 2 ELSE n - 1

(* The first line is no header, and an empty one is the last.              *)
Blanks(s) == {n \in Feeds(s) : LineStart(s, n) > 0 /\ TextEnd(s, n) = LineStart(s, n)}

(* One colon, behind the key.                                              *)
OneColon(s, n) ==
    \E c \in LineStart(s, n) + 2 .. TextEnd(s, n) :
       \A k \in LineStart(s, n) + 1 .. TextEnd(s, n) : s[k] = COLON <=> k = c

(* A whole header, of text without a NUL.                                  *)
WellFormed == {s \in Streams :
    /\ Blanks(s) # {}
    /\ s[1] \notin {LF, CR}
    /\ \A k \in 1 .. Min(Blanks(s)) : s[k] # NUL
    /\ \A k \in 1 .. Min(Blanks(s)) - 1 : s[k] = CR => s[k + 1] = LF
    /\ \A n \in Feeds(s) : 0 < LineStart(s, n) /\ n < Min(Blanks(s)) => OneColon(s, n)}

HeaderEndOf == [s \in WellFormed |-> Min(Blanks(s))]

RefHeader(s, n) ==
    LET colon == Min({k \in LineStart(s, n) + 1 .. TextEnd(s, n) : s[k] = COLON})
        text == {k \in colon + 1 .. TextEnd(s, n) : s[k] # SP}
    IN [key |-> SubSeq(s, LineStart(s, n) + 1, colon - 1),
        value |-> SubSeq(s, Min(text \union {TextEnd(s, n) + 1}), TextEnd(s, n))]

Recorded(s, n) ==
    /\ n \in Feeds(s) /\ 0 < LineStart(s, n)
    /\ RefHeader(s, n).key \in KnownKeys

(* The headers of the lines that end in the first n bytes.                 *)
ParsedOf(s) ==
    LET parsed[n \in 0 .. HeaderEndOf[s] - 1] ==
          IF n = 0 THEN <<>>
          ELSE IF Recorded(s, n) THEN Append(parsed[n - 1], RefHeader(s, n))
          ELSE parsed[n - 1]
    IN parsed

RefHeadersOf == [s \in WellFormed |-> ParsedOf(s)[HeaderEndOf[s] - 1]]

RefHeaders == RefHeadersOf[stream]
HeaderEnd == HeaderEndOf[stream]

(* The cuts the parser gets right: in the header, a chunk neither begins   *)
(* with an end of line, a colon or a space nor has an end of line as its   *)
(* second byte; it has two bytes; a buffer filled to the brim happens to   *)
(* be followed by a NUL; and the header fits in the ring.                  *)
CleanCut(i) ==
    LET n == start[i]
    IN n \in 1 .. HeaderEnd - 1 =>
          /\ data_sizes[i] >= 2
          /\ stream[n + 1] \notin {LF, CR, COLON, SP}
          /\ stream[n + 2] \notin {LF, CR}

Clean ==
    /\ stream \in WellFormed
    /\ \A i \in P!Window : data_sizes[i] > 0 => CleanCut(i)
    /\ MaxChunk \in Range(data_sizes) => input.beyond = NUL
    /\ P!Full => received >= HeaderEnd

TypeOK ==
    /\ data_sizes \in [P!Entries -> -1 .. MaxChunk]
    /\ next_to_be_received \in P!Entries
    /\ received \in 0 .. Len(stream)
    /\ \A p \in {start_of_line, cur_loc} :
          p.circ_index \in P!Entries /\ p.buff_pos \in 0 .. MaxChunk
    /\ last_semicolon.circ_index \in P!Entries \union {-1}
    /\ lines \in 0 .. 2
    /\ pc \in {"read", "type", "read_again", "line", "skip", "scan", "judge", "done", "fault"}

(* However the stream is cut, as long as the cuts are clean, the headers   *)
(* are those of the uncut stream, and the parser reaches no line without a *)
(* colon.                                                                  *)
HeadersExact ==
    Clean => /\ IsPrefix(headers, RefHeaders)
             /\ pc # "fault"
             /\ pc = "done" => headers = RefHeaders

Decimal(digits) ==
    LET value[k \in 0 .. Len(digits)] ==
          IF k = 0 THEN 0 ELSE 10 * value[k - 1] + digits[k] - 48
    IN value[Len(digits)]

(* The length of the body is the decimal number of the last content        *)
(* length, if it has only digits and an int can hold it.                   *)
BodyLengthExact ==
    Clean /\ pc = "done" =>
       IF LengthsIn(RefHeaders) = {} THEN body_length = 0
       ELSE LET digits == RefHeaders[Max(LengthsIn(RefHeaders))].value
            IN digits \in Seq(48 .. 57) /\ Decimal(digits) <= MaxInt
                 => body_length = Decimal(digits)

StatusEnd ==
    LET spaces == {k \in DOMAIN stream : stream[k] = SP}
    IN Min({k \in Min(spaces) .. Len(stream) : stream[k] # SP}) + 2

HasStatus ==
    \E k \in DOMAIN stream : stream[k] = SP /\ \E j \in k .. Len(stream) : stream[j] # SP

(* The type of a reply is the three digits of its status, however many     *)
(* spaces come before them, once the first read has brought them.          *)
TypeExact ==
    input.kind = "reply" /\ IsPrefix(HTTP, stream) /\ HasStatus
      /\ pc \notin {"read", "type"} /\ data_sizes[0] >= StatusEnd
      => type = Decimal(SubSeq(stream, StatusEnd - 2, StatusEnd))

(* One line start, the key, a colon, spaces and the value.                 *)
Occurs(h) ==
    \E a \in DOMAIN stream : \E v \in a + Len(h.key) + 1 .. Len(stream) + 1 :
       LET c == a + Len(h.key)
       IN /\ a > 1 /\ stream[a - 1] \in {LF, CR}
          /\ SubSeq(stream, a, c - 1) = h.key
          /\ stream[c] = COLON
          /\ \A k \in c + 1 .. v - 1 : stream[k] = SP
          /\ SubSeq(stream, v, v + Len(h.value) - 1) = h.value

(* However a stream without a NUL is cut, a header that is recorded is one *)
(* line start followed by its key, a colon and its value: cuts may lose    *)
(* headers, or shorten and join lines, but mix no bytes up.  (A NUL hides  *)
(* the rest of a line from the look-up of its key: it may be recorded      *)
(* under a part of it.)                                                    *)
NothingInvented ==
    input.beyond = NUL /\ NUL \notin Range(stream)
      => \A k \in DOMAIN headers : Occurs(headers[k])

NothingAwaited ==
    \/ input.peer # Silent
    \/ /\ input.kind # "opening"
       /\ stream \in WellFormed
       /\ stream[HeaderEnd - 1] = CR

(* A clean header is decoded, and no read blocks for bytes behind it: not  *)
(* even with a silent peer, if its lines end with CR LF.  (With a line     *)
(* feed alone one more byte is needed, and the accept of a request wants a *)
(* second chunk whatever is in the first.)                                 *)
DecodesCleanHeaders ==
    []Clean /\ NothingAwaited => <>(pc = "done")

(* "as many times as needed until an 'end of line' is found" and "can      *)
(* either be a single '\n' (unix-style) or a 2-bytes" (http_headers.h:43,  *)
(* 44): no line goes past a line feed.                                     *)
LineEndsAtFeed ==
    pc = "scan" =>
       \A k \in P!Position(start_of_line) + 1 .. P!Position(cur_loc) : stream[k] # LF
=============================================================================
