----------------------------- MODULE ChunkRelay -----------------------------
(***************************************************************************)
(* The relay of a chunked body, byte by byte: transfer_chunk (httpmsg.cpp) *)
(* reads the line with a chunk's size, has transfer_mem (hmemory.h) move   *)
(* line, data and CR LF, and leaves what follows the last chunk to         *)
(* transfer_mem_until, which looks for an empty line with the stateful     *)
(* search of untrust/kmp.h, piece by piece as the bytes arrive.            *)
(*                                                                         *)
(* The bytes that were not relayed are the buffer of the memory (module    *)
(* SocketMemory), in one block: each transfer merges first.                *)
(***************************************************************************)
EXTENDS Integers, Sequences, SequencesExt

CONSTANTS
  Bodies,    \* [chunks, end]: what the origin sends
  LineMax,   \* the 18 bytes in which a size and its CR LF must end
  MaxPiece   \* bound: bytes of one async_load_some

\* A digit stands for a hexadecimal one, x for any byte that is none.
Digits == {"0", "1", "2"}
Value == [d \in Digits |-> IF d = "0" THEN 0 ELSE IF d = "1" THEN 1 ELSE 2]
Byte == Digits \cup {"CR", "LF", "x"}
CRLF == <<"CR", "LF">>
Pattern == CRLF \o CRLF
M == Len(Pattern)

\* A 0 and its CR LF fit in a line; a body, whatever its chunks look like, ends
\* with an empty line (an origin that sends less has closed).
ASSUME RelayAssumption ==
  /\ LineMax \in Nat /\ LineMax >= 3
  /\ MaxPiece \in Nat
  /\ Bodies \subseteq [chunks : Seq([line : Seq(Byte), data : Seq(Byte)]),
                      end : Seq(Byte)]
  /\ \A b \in Bodies : IsSuffix(Pattern, b.end)

\* A body on the wire: what precedes each of its chunks and its end.
Wire(c) == c.line \o CRLF \o c.data \o CRLF
Fronts(b) ==
  LET upto[i \in 0 .. Len(b.chunks)] ==
        IF i = 0 THEN <<>> ELSE upto[i - 1] \o Wire(b.chunks[i])
  IN upto
Bytes(b) == Fronts(b)[Len(b.chunks)] \o b.end

VARIABLES
  body,     \* what the origin has to send,
  stream,   \*   as bytes
  loaded,   \* bytes of it taken from the socket
  relayed,  \* bytes written to the client
  closed,   \* a read found that the origin has closed
  pc,       \* "size", "data", "until", "loop", "done", "thrown"
  line,     \* cs_str
  left,     \* total_bytes - nx of the transfer_mem in progress
  kmp,      \* the search: j, matchIndex at, match_len_ len, position i
  checked   \* bytes the search has seen: checked_len

source == <<body, stream>>
vars == <<source, loaded, relayed, closed, pc, line, left, kmp, checked>>

Buffer == SubSeq(stream, relayed + 1, loaded)

\* Some of the body may have come with the head.
Init ==
  /\ body \in Bodies
  /\ stream = Bytes(body)
  /\ loaded \in 0 .. Len(stream)
  /\ relayed = 0
  /\ closed = FALSE
  /\ pc = "size"
  /\ line = Buffer
  /\ left = 0
  /\ kmp = [j |-> 0, at |-> -1, len |-> 0, i |-> 0]
  /\ checked = 0

\* async_load_some(max): a piece of at most max bytes, or none from an origin
\* that has closed.
Piece(n, max) ==
  /\ n <= max /\ loaded + n <= Len(stream)
  /\ closed => n = 0
  /\ closed' = (n = 0)
  /\ loaded' = loaded + n

-----------------------------------------------------------------------------
(* The size of a chunk                                                     *)

\* Where "\r\n" stands, as the number of bytes before it; cs_str.find gives the
\* first.
LineEnds(s) == {p \in 0 .. (Len(s) - 2) : SubSeq(s, p + 1, p + 2) = CRLF}

LineEnd(s) == CHOOSE p \in LineEnds(s) : \A q \in LineEnds(s) : p <= q

\* Where hex_reg can match: a zero in front, or the first digit that is none.
HexRun(s) == {i \in DOMAIN s : (i = 1 /\ s[i] \in Digits) \/ s[i] \in Digits \ {"0"}}

\* hex_str_to: a zero in front is the whole match, the digits behind it are
\* not read.  No match throws.
hex_str_to(s) ==
  LET first == CHOOSE i \in HexRun(s) : \A k \in HexRun(s) : i <= k
      last == CHOOSE i \in first .. Len(s) :
                /\ \A k \in first .. i : s[k] \in Digits
                /\ i = Len(s) \/ s[i + 1] \notin Digits
      number[i \in first .. last] ==
        Value[s[i]] + (IF i = first THEN 0 ELSE 16 * number[i - 1])
  IN IF s[first] = "0" THEN 0 ELSE number[last]

\* Variant: the CR LF behind the data is forgotten.
CompleteShort(p, size) == p + 2 + size

Complete(p, size) == p + 2 + size + 2

\* The line is there: it stays in the buffer, to be relayed with its data.
ReadSize ==
  LET p == LineEnd(line)
      text == SubSeq(line, 1, p)
  IN
  /\ pc = "size" /\ LineEnds(line) # {}
  /\ IF HexRun(text) = {} THEN pc' = "thrown" /\ left' = left
     ELSE IF hex_str_to(text) = 0 THEN pc' = "until" /\ left' = left
     ELSE pc' = "data" /\ left' = Complete(p, hex_str_to(text))
  /\ UNCHANGED <<source, loaded, relayed, closed, line, kmp, checked>>

\* The first n bytes, or all.
substr(s, n) == SubSeq(s, 1, IF n < Len(s) THEN n ELSE Len(s))

\* cs_str += some_str.substr(0, 18 - cs_str.size())
Lengthened(piece) == line \o substr(piece, LineMax - Len(line))

LoadLine(n) ==
  /\ pc = "size" /\ LineEnds(line) = {} /\ Len(line) < LineMax
  /\ Piece(n, MaxPiece)
  /\ line' = Lengthened(SubSeq(stream, loaded + 1, loaded + n))
  /\ UNCHANGED <<source, relayed, pc, left, kmp, checked>>

NoLine ==
  /\ pc = "size" /\ LineEnds(line) = {} /\ Len(line) >= LineMax
  /\ pc' = "thrown"
  /\ UNCHANGED <<source, loaded, relayed, closed, line, left, kmp, checked>>

-----------------------------------------------------------------------------
(* transfer_mem                                                            *)

\* n more bytes are written; after the last one transfer_chunk looks at what
\* the buffer holds.
Moved(n) ==
  /\ relayed' = relayed + n
  /\ left' = left - n
  /\ IF n = left
     THEN pc' = "size" /\ line' = SubSeq(stream, relayed + n + 1, loaded')
     ELSE pc' = pc /\ line' = line

\* What is buffered, as far as it belongs to the chunk.
MoveBuffered ==
  /\ pc = "data" /\ Buffer # <<>>
  /\ loaded' = loaded
  /\ Moved(IF Len(Buffer) > left THEN left ELSE Len(Buffer))
  /\ UNCHANGED <<source, closed, kmp, checked>>

\* The rest from the socket, never more than is missing.  An empty load does
\* not end the loop.
LoadData(n) ==
  /\ pc = "data" /\ Buffer = <<>>
  /\ Piece(n, IF left < MaxPiece THEN left ELSE MaxPiece)
  /\ Moved(n)
  /\ UNCHANGED <<source, kmp, checked>>

-----------------------------------------------------------------------------
(* untrust/kmp.h                                                           *)

\* Variant: after a mismatch the byte is not compared again.
LongestForgets(lps, len, c) == IF Pattern[len + 1] = c THEN len + 1 ELSE 0

\* A partial match of length len sees byte c.
Longest(lps, len, c) ==
  LET from[n \in 0 .. len] ==
        IF Pattern[n + 1] = c THEN n + 1
        ELSE IF n = 0 THEN 0 ELSE from[lps[n]]
  IN from[len]

\* lps[i] for ever more bytes of the pattern.
computeLPSArray ==
  LET upto[i \in 1 .. M] ==
        IF i = 1 THEN <<0>>
        ELSE LET lps == upto[i - 1] IN
             Append(lps, Longest(lps, lps[i - 1], Pattern[i]))
  IN upto[M]

Kmp == [j : 0 .. M, at : Int, len : Nat, i : Nat]

\* One byte of the text: a match of length 1 starts here.
step(c) ==
  [k \in Kmp |->
     IF k.j = M THEN k
     ELSE LET j == Longest(computeLPSArray, k.j, c) IN
          [k EXCEPT !.j = j, !.at = IF j = 1 THEN k.i ELSE @, !.i = @ + 1]]

Over(k, text) ==
  LET after[n \in 0 .. Len(text)] ==
        IF n = 0 THEN k ELSE step(text[n])[after[n - 1]]
  IN after[Len(text)]

search(k, text) == Over([k EXCEPT !.i = 0], text)

\* What search returns: where the pattern starts in all it was given, or the
\* last start it has noted, in this call or in an earlier one, which it takes
\* for a position in this call's text.
Found(k) == IF k.j = M THEN k.i - M + k.len ELSE k.at + k.len

Counted(k, n) == IF k.j = M THEN k ELSE [k EXCEPT !.len = @ + n]

-----------------------------------------------------------------------------
(* transfer_mem_until                                                      *)

\* The buffer is searched and written as a whole, whatever was found.  The
\* line of the last chunk is in it, so search never answers -1 here.
Until ==
  LET n == Len(Buffer)
      k == search(kmp, Buffer)
  IN
  /\ pc = "until"
  /\ kmp' = Counted(k, n)
  /\ checked' = n
  /\ relayed' = loaded
  /\ pc' = IF n - Found(k) < M THEN "loop" ELSE "done"
  /\ UNCHANGED <<source, loaded, closed, line, left>>

\* Variant: the comparison is made in signed numbers.
GoesOnSigned(n, at) == n - at < M

\* som_str.size() - (p - checked_len) < pattern.size(), in size_t: a
\* difference below zero is a huge number.
GoesOn(n, at) == n - at >= 0 /\ n - at < M

\* Variant: the length is taken from the match, not from the text.
CutUnclamped(n, at) == at + M

\* som_str.substr(0, p - checked_len + pattern.size())
Cut(n, at) == IF at + M < n THEN at + M ELSE n

\* async_load_some, search, write.
LoadRest(n) ==
  LET k == search(kmp, SubSeq(stream, loaded + 1, loaded + n))
      at == Found(k) - checked
  IN
  /\ pc = "loop"
  /\ Piece(n, MaxPiece)
  /\ kmp' = Counted(k, n)
  /\ checked' = checked + n
  /\ IF GoesOn(n, at)
     THEN relayed' = relayed + n /\ pc' = "loop"
     ELSE relayed' = relayed + Cut(n, at) /\ pc' = "done"
  /\ UNCHANGED <<source, line, left>>

Next ==
  \/ ReadSize
  \/ \E n \in 0 .. MaxPiece : LoadLine(n)
  \/ NoLine
  \/ MoveBuffered
  \/ \E n \in 0 .. MaxPiece : LoadData(n)
  \/ Until
  \/ \E n \in 0 .. MaxPiece : LoadRest(n)

(* The coroutine runs; an origin sends or closes.                          *)
Fairness == WF_vars(Next)

Spec == Init /\ [][Next]_vars /\ Fairness

-----------------------------------------------------------------------------
TypeOK ==
  /\ body \in Bodies /\ stream = Bytes(body)
  /\ loaded \in 0 .. Len(stream)
  /\ relayed \in 0 .. loaded
  /\ closed \in BOOLEAN
  /\ pc \in {"size", "data", "until", "loop", "done", "thrown"}
  /\ line \in Seq(Byte)
  /\ left \in Nat
  /\ kmp \in [j : 0 .. M, at : -1 .. Len(stream), len : 0 .. Len(stream),
              i : 0 .. Len(stream)]
  /\ checked \in 0 .. loaded

\* The search over pieces is the search over the whole: between calls j is the
\* longest beginning of the pattern that ends the bytes seen so far.
KmpExact ==
  pc = "loop" =>
    LET seen == SubSeq(stream, relayed - checked + 1, relayed)
        partial(n) == IsSuffix(SubSeq(Pattern, 1, n), seen)
    IN /\ partial(kmp.j)
       /\ \A n \in (kmp.j + 1) .. M : ~partial(n)

\* Chunks as nearly every origin sends them: a size without zeros in front, in
\* a line of at most LineMax bytes (httpmsg.cpp:86), and behind the last one
\* no trailer.  Of others this cannot be said: "01" is read as 0, a longer
\* line is given up when it comes in pieces, and with more zeros, an extension
\* or a trailer at the end the stale position that Found returns can be taken
\* for a match.
Ordinary(b) ==
  /\ \A i \in DOMAIN b.chunks :
       LET c == b.chunks[i] IN
       /\ c.line # <<>> /\ c.line[1] \in Digits \ {"0"}
       /\ LineEnds(c.line) = {}
       /\ Len(c.line) + 2 <= LineMax /\ hex_str_to(c.line) = Len(c.data)
  /\ b.end = <<"0">> \o Pattern

\* Where chunks begin and the body ends.
Starts(b) == {Len(Fronts(b)[i]) : i \in 0 .. Len(b.chunks)}

\* The relay follows the chunks: a size is only ever looked for where a chunk
\* begins, whatever the data looks like and however the bytes arrive, nothing
\* is given up, and unless the origin closed all of it is relayed, no less and
\* no more.  Of any body: the relay does not wait for more when all is there.
Framed ==
  /\ Ordinary(body) =>
       /\ pc \in {"size", "until"} => relayed \in Starts(body)
       /\ pc # "thrown"
       /\ pc = "done" /\ ~closed => relayed = Len(stream)
  /\ pc = "loop" => relayed < Len(stream)

\* The relay of such a body ends, also when the origin closes inside its last
\* line; only a chunk that is cut, in its data or its size, is waited for
\* without end (see HttpDo!RelaySpins).
RelayEnds ==
  Ordinary(body) ~> (pc = "done" \/ (closed /\ pc \in {"size", "data"}))
=============================================================================
