---------------------------- MODULE DohProvider -----------------------------
(***************************************************************************)
(* A DNS-over-HTTPS provider, which is not part of the program: how it     *)
(* reads the query of a GET (RFC 4648, 1035, 8484), and the messages it    *)
(* may answer with.  A message is built here from records with names, so   *)
(* that what it says is known without decoding it.                         *)
(***************************************************************************)
EXTENDS DnsName

\* The bytes whose base64url text consists of these sextets: each has its
\* bits in two of them.
Decoded(text) ==
  LET weight == <<16, 4, 1>> IN
  [i \in 1 .. (3 * Len(text)) \div 4 |->
     LET k == 4 * ((i - 1) \div 3) + ((i - 1) % 3) + 1 IN
     ((text[k] * 64 + text[k + 1]) \div weight[((i - 1) % 3) + 1]) % 256]

\* Behind which places of a host its labels begin.
Cuts(host) == {0} \cup {i \in DOMAIN host : host[i] = DOT}

\* Names the DNS can hold.
InDns(host) ==
  \A c \in Cuts(host) : LabelEnd(host, c + 1) - c - 1 \in 1 .. dns_max_label

\* Such a name on the wire: every cut becomes the length of what follows.
Spelled(host) ==
  [k \in 1 .. Len(host) + 2 |->
     IF k = Len(host) + 2 THEN 0
     ELSE IF k - 1 \in Cuts(host) THEN LabelEnd(host, k) - k
     ELSE host[k - 1]]

Upper(s) == [i \in DOMAIN s |-> IF s[i] \in 97 .. 122 THEN s[i] - 32 ELSE s[i]]

-----------------------------------------------------------------------------
(* Records: the owner, how its name is written, type and data              *)

Question == 12
Pointer(i) == <<192 + i \div 256, i % 256>>
Record(owner, name, type, rd) ==
  [owner |-> owner, name |-> name, type |-> type, rd |-> rd]
Wire(r) ==
  r.name \o <<0, r.type, 0, ClassIN, 0, 0, 0, 60>>
         \o <<Len(r.rd) \div 256, Len(r.rd) % 256>> \o r.rd

Root == <<0>>
OPT == 41
TXT == 16
Other == <<122, 122>>
Own(host, rd) == Record(host, Pointer(Question), TypeA, rd)
IP(n) == <<10, 0, 0, n % 256>>

\* Where the first answer begins.
Answer(host) == Question + Len(Spelled(host)) + 4

\* A record whose data holds a name at offset 268, as far as a pointer with
\* both its bytes reaches; n bytes precede it in the message.
Far == 268
Filler(host) ==
  LET before == Answer(host) + 12 IN
  Record(host, Pointer(Question), TXT,
         [i \in 1 .. Far - before |-> 120] \o Spelled(Other))

Kinds == {"one", "chain", "spelled", "edns", "other", "alias", "ipv6", "far",
          "none", "refused", "torn"}

Records(host, kind, n) ==
  CASE kind \in {"one", "refused"} -> <<Own(host, IP(n))>>
    [] kind = "chain" -> <<Own(host, IP(n)),
                           Record(host, Pointer(Answer(host)), TypeA, IP(n + 1))>>
    [] kind = "spelled" -> <<Record(host, Upper(Spelled(host)), TypeA, IP(n))>>
    [] kind = "edns" -> <<Own(host, IP(n)), Record(<<>>, Root, OPT, <<>>)>>
    [] kind = "other" -> <<Record(Other, Spelled(Other), TypeA, IP(9)),
                           Own(host, IP(n))>>
    [] kind = "alias" -> <<Record(host, Pointer(Question), TypeCNAME, Spelled(Other)),
                           Record(Other, Spelled(Other), TypeA, IP(n))>>
    [] kind = "ipv6" -> <<Record(host, Pointer(Question), TypeAAAA,
                                 [i \in 1 .. 16 |-> 1])>>
    [] kind = "far" -> <<Filler(host), Record(Other, Pointer(Far), TypeA, IP(9))>>
    [] kind = "torn" -> <<Own(host, IP(n)), Own(host, <<10, 0>>)>>
    [] kind = "none" -> <<>>

\* The message: header, the question of the query, the records.
Message(query, host, kind, n) ==
  LET records == Records(host, kind, n) IN
  <<0, 0, 129, IF kind = "refused" THEN 133 ELSE 128>>
    \o <<0, 1, 0, Len(records), 0, 0, 0, 0>>
    \o Bytes(query, Question, Len(query) - Question)
    \o FlattenSeq([i \in DOMAIN records |-> Wire(records[i])])

\* What it says: the addresses of the host, whose name is the same in capitals.
Addresses(host, kind, n) ==
  LET records == Records(host, kind, n) IN
  IF kind = "refused" THEN {}
  ELSE {records[i].rd : i \in {k \in DOMAIN records :
          /\ lcs(records[k].owner) = lcs(host)
          /\ records[k].type = TypeA /\ Len(records[k].rd) = 4}}

\* Its pointers are to places that one byte can name.
Near(host, kind) == kind # "far" /\ (kind = "chain" => Answer(host) < 256)
=============================================================================
