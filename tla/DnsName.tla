------------------------------ MODULE DnsName -------------------------------
(***************************************************************************)
(* Names and queries on the wire, as dns/dnshttps.cc encodes and decodes   *)
(* them.  A string is the sequence of its bytes, a byte a number; indices  *)
(* into a message count from 0 as in the code.                             *)
(***************************************************************************)
EXTENDS Integers, Sequences, SequencesExt

DOT == 46
Byte == 0 .. 255
dns_max_label == 63

\* std::string's operator[]: a zero stands behind the last byte.
At(msg, i) == IF i < Len(msg) THEN msg[i + 1] ELSE 0
Bytes(msg, i, n) == SubSeq(msg, i + 1, i + n)
Short(msg, i) == At(msg, i) * 256 + At(msg, i + 1)

lcs(s) == [i \in DOMAIN s |-> IF s[i] \in 65 .. 90 THEN s[i] + 32 ELSE s[i]]

valid_name(name) ==
  /\ Len(name) \in 2 .. 254
  /\ \A i \in DOMAIN name :
       name[i] \in (48 .. 57) \cup (65 .. 90) \cup (97 .. 122) \cup {45, DOT}

-----------------------------------------------------------------------------
(* host2qname                                                              *)

\* Where the label at p ends: at the next dot, or behind the host.
LabelEnd(host, p) == Min({i \in p .. Len(host) : host[i] = DOT} \cup {Len(host) + 1})

\* Every label behind its length.  One that is longer than dns_max_label is
\* split, unless it is the last.
host2qname(host) ==
  LET wire[p \in 1 .. Len(host) + 2] ==
        LET end == LabelEnd(host, p)
            split == end <= Len(host) /\ end - p > dns_max_label
            n == IF split THEN dns_max_label ELSE end - p
        IN
        IF p > Len(host) THEN <<0>>
        ELSE <<n>> \o SubSeq(host, p, p + n - 1)
                   \o wire[IF split THEN p + n ELSE end + 1]
  IN wire[1]

-----------------------------------------------------------------------------
(* qname2host                                                              *)

Bad == [ok |-> FALSE, name |-> <<>>, used |-> 0]

\* Variant: two bytes are counted for every pointer that is followed.
PointerUsed(depth) == 1

\* Bytes a pointer counts for, before the one that is added at the end: only
\* the first is in the name that is read.
Used(depth) == IF depth = 0 THEN 1 ELSE 0

\* The name at start, and the bytes it takes there.  Any length byte beyond
\* dns_max_label has one of the bits 0xc0 and is taken for a pointer, and of
\* a pointer only the second byte is used.
qname2host(msg, start) ==
  LET read[at \in (0 .. Len(msg)) \X (0 .. 10)] ==
        LET i == at[1]
            depth == at[2]
            len == At(msg, i)
        IN
        IF len = 0 THEN [ok |-> TRUE, name |-> <<>>, used |-> 0]
        ELSE IF len > dns_max_label
        THEN IF depth = 10 \/ i + 1 >= Len(msg) \/ At(msg, i + 1) >= Len(msg)
             THEN Bad
             ELSE LET rest == read[<<At(msg, i + 1), depth + 1>>] IN
                  [rest EXCEPT !.used = @ + Used(depth)]
        ELSE IF len + i + 1 > Len(msg) THEN Bad
        ELSE LET rest == read[<<i + len + 1, depth>>] IN
             [ok |-> rest.ok,
              name |-> Bytes(msg, i + 1, len) \o <<DOT>> \o rest.name,
              used |-> rest.used + IF depth = 0 THEN len + 1 ELSE 0]
      all == read[<<start, 0>>]
  IN
  IF ~all.ok \/ Len(all.name) > 255 THEN Bad
  ELSE IF all.name = <<>> THEN all
  ELSE [all EXCEPT !.used = @ + 1]

-----------------------------------------------------------------------------
(* b64url_encode and make_query                                            *)

\* Variant: the bits of a last group are not moved to its front.
GroupRight(src, g) ==
  LET n == Len(src) - g IN
  IF n = 1 THEN At(src, g)
  ELSE IF n = 2 THEN At(src, g) * 256 + At(src, g + 1)
  ELSE At(src, g) * 65536 + At(src, g + 1) * 256 + At(src, g + 2)

\* The bits of three bytes; a last group is filled up with zeros.
Group(src, g) == At(src, g) * 65536 + At(src, g + 1) * 256 + At(src, g + 2)

\* The letters, as their numbers: four for three bytes, and for a last group
\* one more than it has bytes.
b64url_encode(src) ==
  LET weight == <<262144, 4096, 64, 1>> IN
  [k \in 1 .. (4 * Len(src) + 2) \div 3 |->
     (Group(src, 3 * ((k - 1) \div 4)) \div weight[((k - 1) % 4) + 1]) % 64]

TypeA == 1
TypeCNAME == 5
TypeAAAA == 28
ClassIN == 1

\* The header of a query has rd and one question; the id is a time.
make_query(name, id) ==
  b64url_encode(id \o <<1, 0, 0, 1, 0, 0, 0, 0, 0, 0>> \o host2qname(name)
                   \o <<0, TypeA, 0, ClassIN>>)
=============================================================================
