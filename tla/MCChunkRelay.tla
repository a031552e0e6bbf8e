---------------------------- MODULE MCChunkRelay ----------------------------
(* Bodies without a chunk, whose last line has one zero or more and which    *)
(* end at the first empty line, in every way up to MaxTail bytes behind that *)
(* line: a plain end has 2, a trailer of one letter makes 5, two of them 8.  *)
(* Bodies of up to two chunks, among them data that looks like an end, a     *)
(* size with an extension, with a zero in front, one that is too long and    *)
(* none at all, with a plain end and with a trailer.                         *)
EXTENDS ChunkRelay

CONSTANT MaxTail

Letters == {"0", "CR", "LF"}
MCTails ==
  {t \in UNION {[1 .. n -> Letters] : n \in 2 .. MaxTail} :
     /\ IsSuffix(Pattern, CRLF \o t)
     /\ \A n \in 1 .. (Len(t) - 1) : ~IsSuffix(Pattern, CRLF \o SubSeq(t, 1, n))}
MCEnds == {zeros \o CRLF \o t : zeros \in {<<"0">>, <<"0", "0">>}, t \in MCTails}

Chunk(text, bytes) == [line |-> text, data |-> bytes]
MCChunks ==
  {Chunk(<<"1">>, <<"x">>), Chunk(<<"2">>, CRLF), Chunk(<<"2">>, <<"0", "CR">>),
   Chunk(<<"1", "x">>, <<"LF">>), Chunk(<<"0", "1">>, <<"x">>),
   Chunk(<<"1", "x", "x">>, <<"x">>), Chunk(<<"x">>, <<"x">>)}
MCBodies ==
  {[chunks |-> <<>>, end |-> e] : e \in MCEnds}
  \cup [chunks : UNION {[1 .. n -> MCChunks] : n \in 1 .. 2},
        end : {<<"0">> \o Pattern, <<"0">> \o CRLF \o <<"x">> \o Pattern}]
=============================================================================
