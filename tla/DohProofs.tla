----------------------------- MODULE DohProofs ------------------------------
(****************************************************************************)
(* One resolution over HTTPS, for any set of hosts (as sequences of bytes)  *)
(* and any number of providers and pieces of a body.                        *)
(*                                                                          *)
(* The steps keep little (IInv): while an answer is awaited, what was asked *)
(* is the query of the host (Asked), and what is collected is what the      *)
(* parser makes of the messages of the providers before this one            *)
(* (Collected).  The rest is what the codecs compute:                       *)
(*                                                                          *)
(*   - every three bytes come back from four letters, a last group of one   *)
(*     or two from as many and one more (RoundTrip);                        *)
(*   - on the wire a name the DNS can hold has its labels where its dots    *)
(*     were (QnameIs), so a provider decodes the query that was meant;      *)
(*   - such a name is read back from where it stands, with a pointer, and   *)
(*     in capitals (NameRead, NamePointed, NameChained, NameSpelled);       *)
(*   - a record is then the host's own, another's, or ends the parse, and   *)
(*     so each kind of message tells all and only what it says, or holds    *)
(*     something that throws (WithinReach);                                 *)
(*   - a host that the DNS cannot hold is never heard of: its query has     *)
(*     other labels than its name, and what is read back as the host's name *)
(*     would have to have the same (MustFit).                               *)
(*                                                                          *)
(* Recursive functions are unfolded with Unrolled, and what holds of all    *)
(* their arguments follows by Least, Induct and Descent, which take a set   *)
(* where the library's theorems take an operator.                           *)
(****************************************************************************)
EXTENDS Doh, TLAPS, SequenceTheorems, WellFoundedInduction

-----------------------------------------------------------------------------
(* Induction and recursion                                                 *)

\* A set of numbers that is not empty has a least one.
LEMMA Least ==
  ASSUME NEW S, S \subseteq Nat, S # {}
  PROVE  \E i \in S : \A j \in S : i <= j
<1> DEFINE LT == OpToRel(<, Nat)
<1>1. PICK x \in S : \A y \in S : ~(<<y, x>> \in LT)
  BY WFMin, NatLessThanWellFounded
<1>2. \A y \in S : ~(y < x)
  BY <1>1 DEF OpToRel
<1> QED
  BY <1>2

\* What holds of everything that is smaller, and therefore of x, holds always.
LEMMA Descent ==
  ASSUME NEW X, NEW m \in [X -> Nat], NEW S,
         \A x \in X : (\A y \in X : m[y] < m[x] => y \in S) => x \in S
  PROVE  \A x \in X : x \in S
<1> SUFFICES ASSUME NEW z \in X, z \notin S PROVE FALSE
  OBVIOUS
<1> DEFINE out == {x \in X : x \notin S}
           sizes == {m[x] : x \in out}
<1>1. PICK n \in sizes : \A k \in sizes : n <= k
  <2>1. sizes \subseteq Nat /\ m[z] \in sizes
    OBVIOUS
  <2> HIDE DEF sizes
  <2> QED
    BY <2>1, Least
<1>2. PICK x \in out : n = m[x]
  BY <1>1
<1>3. \A y \in X : m[y] < m[x] => y \in S
  <2> SUFFICES ASSUME NEW y \in X, m[y] < m[x], y \notin S PROVE FALSE
    OBVIOUS
  <2>1. m[y] \in sizes /\ m[y] \in Nat /\ m[x] \in Nat
    OBVIOUS
  <2>2. n <= m[y]
    <3> HIDE DEF sizes
    <3> QED
      BY <2>1, <1>1
  <2> QED
    BY <2>1, <2>2, <1>2
<1> QED
  BY <1>2, <1>3

\* What holds of 0 and is handed on up to N holds of all numbers up to N.
LEMMA Induct ==
  ASSUME NEW N \in Nat, NEW S, 0 \in S,
         \A n \in 0 .. N - 1 : n \in S => n + 1 \in S
  PROVE  \A n \in 0 .. N : n \in S
<1> SUFFICES ASSUME NEW m \in 0 .. N, m \notin S PROVE FALSE
  OBVIOUS
<1> DEFINE out == {n \in 0 .. N : n \notin S}
<1>1. PICK x \in out : \A y \in out : x <= y
  BY out \subseteq Nat, m \in out, Least
<1>2. x # 0 /\ x - 1 \in 0 .. N - 1
  BY <1>1
<1>3. x - 1 \in S
  BY <1>1, <1>2
<1>4. x - 1 + 1 \in S
  BY <1>2, <1>3
<1> QED
  BY <1>1, <1>2, <1>4

\* The value of f at x is v[x], or made of its value at next[x].
Meets(f, X, B, v, next, g) ==
  \A x \in X : f[x] = IF x \in B THEN v[x] ELSE g[x][f[next[x]]]

\* Such a function exists if the way along next ends.
LEMMA Unrolled ==
  ASSUME NEW X, NEW K \in Nat, NEW m \in [X -> 0 .. K], NEW V,
         NEW B, NEW v \in [X -> V], NEW next \in [X -> X], NEW g \in [X -> [V -> V]],
         \A x \in X : x \notin B => m[next[x]] < m[x]
  PROVE  \E f \in [X -> V] : Meets(f, X, B, v, next, g)
<1> DEFINE Good(k, f) ==
             \A x \in X : m[x] < k =>
               f[x] = IF x \in B THEN v[x] ELSE g[x][f[next[x]]]
           S == {k \in 0 .. K + 1 : \E f \in [X -> V] : Good(k, f)}
<1>1. 0 \in S
  <2>1. Good(0, v)
    OBVIOUS
  <2> QED
    BY <2>1
<1>2. ASSUME NEW k \in 0 .. K, k \in S
      PROVE  k + 1 \in S
  <2>1. PICK f \in [X -> V] : Good(k, f)
    BY <1>2
  <2> DEFINE h == [x \in X |-> IF m[x] < k THEN f[x]
                               ELSE IF x \in B THEN v[x] ELSE g[x][f[next[x]]]]
  <2>2. h \in [X -> V]
    <3> SUFFICES ASSUME NEW x \in X PROVE h[x] \in V
      OBVIOUS
    <3>1. next[x] \in X /\ f[next[x]] \in V /\ g[x] \in [V -> V]
      OBVIOUS
    <3>2. g[x][f[next[x]]] \in V
      BY <3>1
    <3> QED
      BY <3>2
  <2>3. ASSUME NEW x \in X, m[x] < k + 1
        PROVE  h[x] = IF x \in B THEN v[x] ELSE g[x][h[next[x]]]
    <3>1. CASE x \in B
      BY <2>1, <3>1
    <3>2. CASE x \notin B
      <4>1. m[next[x]] < m[x] /\ next[x] \in X
        BY <3>2
      <4>2. m[next[x]] < k
        BY <4>1, <2>3
      <4>3. h[next[x]] = f[next[x]]
        BY <4>1, <4>2
      <4>4. h[x] = g[x][f[next[x]]]
        BY <2>1, <3>2
      <4> QED
        BY <4>3, <4>4, <3>2
    <3> QED
      BY <3>1, <3>2
  <2>4. Good(k + 1, h)
    BY <2>3
  <2> HIDE DEF Good, h
  <2>5. \E f_1 \in [X -> V] : Good(k + 1, f_1)
    BY <2>2, <2>4
  <2> QED
    BY <2>5
<1> HIDE DEF S
<1>3. PICK L \in Nat : L = K + 1
  OBVIOUS
<1>4. K + 1 \in S
  <2>1. \A k \in 0 .. L - 1 : k \in S => k + 1 \in S
    <3>1. L - 1 = K
      BY <1>3
    <3> QED
      BY <3>1, <1>2
  <2>2. \A k \in 0 .. L : k \in S
    BY <1>1, <2>1, Induct
  <2> QED
    BY <1>3, <2>2
<1>5. PICK f \in [X -> V] : Good(K + 1, f)
  BY <1>4 DEF S
<1>6. \A x \in X : m[x] < K + 1
  OBVIOUS
<1> QED
  BY <1>5, <1>6 DEF Meets

-----------------------------------------------------------------------------
(* Bytes                                                                   *)

LEMMA AtIs ==
  ASSUME NEW s \in Seq(Byte), NEW i \in Nat
  PROVE  At(s, i) \in Byte /\ (i < Len(s) => At(s, i) = s[i + 1])
<1>1. i < Len(s) => i + 1 \in 1 .. Len(s)
  OBVIOUS
<1>2. i < Len(s) => s[i + 1] \in Byte
  BY <1>1
<1> QED
  BY <1>2 DEF At, Byte

LEMMA AtNat ==
  ASSUME NEW s \in Seq(Byte), NEW i \in Nat
  PROVE  At(s, i) \in Nat /\ At(s, i) <= 255
<1>1. PICK a \in Byte : a = At(s, i)
  BY AtIs
<1>2. a \in Nat /\ a <= 255
  BY DEF Byte
<1> QED
  BY <1>1, <1>2

\* The two bytes of a number.
LEMMA HalvesIs ==
  ASSUME NEW n \in Nat, n <= 1000
  PROVE  /\ n \div 256 \in 0 .. 255 /\ n % 256 \in 0 .. 255
         /\ (n \div 256) * 256 + (n % 256) = n
<1>1. PICK k \in Nat : k = n \div 256
  OBVIOUS
<1>2. PICK r \in 0 .. 255 : r = n % 256
  OBVIOUS
<1>3. n = k * 256 + r
  BY <1>1, <1>2
<1>4. k <= 255
  BY <1>3
<1> QED
  BY <1>1, <1>2, <1>3, <1>4

\* One text behind the other.
LEMMA JoinIs ==
  ASSUME NEW s \in Seq(Byte), NEW t \in Seq(Byte)
  PROVE  /\ s \o t \in Seq(Byte) /\ Len(s \o t) = Len(s) + Len(t)
         /\ \A i \in Nat : At(s \o t, i) = IF i < Len(s) THEN At(s, i)
                                           ELSE At(t, i - Len(s))
<1>1. PICK u : u = s \o t
  OBVIOUS
<1>2. /\ u \in Seq(Byte) /\ Len(u) = Len(s) + Len(t)
      /\ \A q \in 1 .. Len(s) + Len(t) :
           u[q] = IF q <= Len(s) THEN s[q] ELSE t[q - Len(s)]
  BY <1>1, ConcatProperties
<1>3. PICK m \in Nat, n \in Nat : m = Len(s) /\ n = Len(t)
  OBVIOUS
<1>4. \A q \in 1 .. m + n : u[q] = IF q <= m THEN s[q] ELSE t[q - m]
  BY <1>2, <1>3
<1>5. ASSUME NEW i \in Nat
      PROVE  At(u, i) = IF i < m THEN At(s, i) ELSE At(t, i - m)
  <2>1. CASE i < m
    <3>1. i + 1 \in 1 .. m + n /\ i + 1 <= m /\ i < m + n
      BY <2>1
    <3> QED
      BY <3>1, <2>1, <1>2, <1>3, <1>4 DEF At
  <2>2. CASE i >= m /\ i < m + n
    <3>1. i + 1 \in 1 .. m + n /\ ~(i + 1 <= m) /\ i + 1 - m = i - m + 1 /\ i - m < n
      BY <2>2
    <3>2. u[i + 1] = t[i - m + 1]
      BY <3>1, <1>4
    <3> QED
      BY <3>1, <3>2, <2>2, <1>2, <1>3 DEF At
  <2>3. CASE i >= m + n
    <3>1. ~(i < m + n) /\ ~(i - m < n) /\ ~(i < m)
      BY <2>3
    <3> QED
      BY <3>1, <1>2, <1>3 DEF At
  <2> QED
    BY <2>1, <2>2, <2>3
<1> QED
  BY <1>1, <1>2, <1>3, <1>5

\* The n bytes from index i on.
LEMMA BytesIs ==
  ASSUME NEW s \in Seq(Byte), NEW i \in Nat, NEW n \in Nat, i + n <= Len(s)
  PROVE  /\ Bytes(s, i, n) \in Seq(Byte)
         /\ Len(Bytes(s, i, n)) = n
         /\ \A j \in 0 .. n - 1 : At(Bytes(s, i, n), j) = At(s, i + j)
<1>1. \A q \in i + 1 .. i + n : s[q] \in Byte
  OBVIOUS
<1>2. PICK t : t = SubSeq(s, i + 1, i + n)
  OBVIOUS
<1>3. /\ t \in Seq(Byte)
      /\ Len(t) = IF i + 1 <= i + n THEN i + n - (i + 1) + 1 ELSE 0
      /\ \A q \in 1 .. i + n - (i + 1) + 1 : t[q] = s[i + 1 + q - 1]
  BY <1>1, <1>2, SubSeqProperties
<1>4. Len(t) = n
  <2>1. (IF i + 1 <= i + n THEN i + n - (i + 1) + 1 ELSE 0) = n
    OBVIOUS
  <2> QED
    BY <2>1, <1>3
<1>5. ASSUME NEW j \in 0 .. n - 1
      PROVE  At(t, j) = At(s, i + j)
  <2>1. /\ j + 1 \in 1 .. i + n - (i + 1) + 1 /\ i + 1 + (j + 1) - 1 = i + j + 1
        /\ j < n /\ i + j < Len(s)
    OBVIOUS
  <2>2. t[j + 1] = s[i + j + 1]
    BY <2>1, <1>3
  <2> QED
    BY <2>1, <2>2, <1>4 DEF At
<1> QED
  BY <1>2, <1>3, <1>4, <1>5 DEF Bytes

\* Texts that agree everywhere.
LEMMA SameBytes ==
  ASSUME NEW s \in Seq(Byte), NEW t \in Seq(Byte), Len(s) = Len(t),
         \A i \in 0 .. Len(s) - 1 : At(s, i) = At(t, i)
  PROVE  s = t
<1>1. ASSUME NEW q \in 1 .. Len(s)
      PROVE  s[q] = t[q]
  <2>1. q - 1 \in 0 .. Len(s) - 1 /\ q - 1 + 1 = q /\ q - 1 < Len(s)
    OBVIOUS
  <2>2. At(s, q - 1) = At(t, q - 1)
    BY <2>1
  <2> QED
    BY <2>1, <2>2 DEF At
<1> QED
  BY <1>1, SeqEqual

-----------------------------------------------------------------------------
(* base64url                                                               *)

\* How far the letter r of a group, and the byte r of three, is shifted.
LetterWeight(r) == <<262144, 4096, 64, 1>>[r + 1]
ByteWeight(r) == <<16, 4, 1>>[r + 1]

\* The bits of three bytes, and a byte from two letters.
Bits(a, b, c) == a * 65536 + b * 256 + c
Both(x, y, r) == ((x * 64 + y) \div ByteWeight(r)) % 256

\* What the letters of three bytes hold of them.
Letter(a, b, c, r) ==
  IF r = 0 THEN a \div 4
  ELSE IF r = 1 THEN (a % 4) * 16 + b \div 16
  ELSE IF r = 2 THEN (b % 16) * 4 + c \div 64
  ELSE c % 64

LEMMA LetterIs ==
  ASSUME NEW a \in Byte, NEW b \in Byte, NEW c \in Byte, NEW r \in 0 .. 3
  PROVE  (Bits(a, b, c) \div LetterWeight(r)) % 64 = Letter(a, b, c, r)
<1>1. PICK bits \in Nat : bits = a * 65536 + b * 256 + c
  BY SMT DEF Byte
<1>2. CASE r = 0
  <2>1. (bits \div 262144) % 64 = a \div 4
    BY <1>1, SMT DEF Byte
  <2> QED
    BY <2>1, <1>1, <1>2, SMT DEF LetterWeight, Letter, Bits
<1>3. CASE r = 1
  <2>1. (bits \div 4096) % 64 = (a % 4) * 16 + b \div 16
    BY <1>1, SMTT(30) DEF Byte
  <2> QED
    BY <2>1, <1>1, <1>3, SMT DEF LetterWeight, Letter, Bits
<1>4. CASE r = 2
  <2>2. bits \div 64 = a * 1024 + (b * 4 + c \div 64)
    BY <1>1, SMT DEF Byte
  <2>3. c \div 64 \in 0 .. 3
    BY SMT DEF Byte
  <2>1. (bits \div 64) % 64 = (b % 16) * 4 + c \div 64
    BY <2>2, <2>3, SMT DEF Byte
  <2> QED
    BY <2>1, <1>1, <1>4, SMT DEF LetterWeight, Letter, Bits
<1>5. CASE r = 3
  <2>1. (bits \div 1) % 64 = c % 64
    BY <1>1, SMT DEF Byte
  <2> QED
    BY <2>1, <1>1, <1>5, SMT DEF LetterWeight, Letter, Bits
<1> QED
  BY <1>2, <1>3, <1>4, <1>5

\* Two letters hold a byte.
LEMMA ByteOf ==
  ASSUME NEW a \in Byte, NEW b \in Byte, NEW c \in Byte, NEW r \in 0 .. 2
  PROVE  Both(Letter(a, b, c, r), Letter(a, b, c, r + 1), r)
           = IF r = 0 THEN a ELSE IF r = 1 THEN b ELSE c
<1>1. CASE r = 0
  <2>1. (((a \div 4) * 64 + ((a % 4) * 16 + b \div 16)) \div 16) % 256 = a
    BY SMT DEF Byte
  <2>2. /\ Letter(a, b, c, r) = a \div 4
        /\ Letter(a, b, c, r + 1) = (a % 4) * 16 + b \div 16
        /\ ByteWeight(r) = 16
    BY <1>1, SMT DEF Letter, ByteWeight
  <2> QED
    BY <2>1, <2>2, <1>1, SMT DEF Both
<1>2. CASE r = 1
  <2>1. ((((a % 4) * 16 + b \div 16) * 64 + ((b % 16) * 4 + c \div 64)) \div 4) % 256 = b
    BY SMT DEF Byte
  <2>2. /\ Letter(a, b, c, r) = (a % 4) * 16 + b \div 16
        /\ Letter(a, b, c, r + 1) = (b % 16) * 4 + c \div 64
        /\ ByteWeight(r) = 4
    BY <1>2, SMT DEF Letter, ByteWeight
  <2>3. r # 0
    BY <1>2
  <2> QED
    BY <2>1, <2>2, <2>3, <1>2, SMT DEF Both
<1>3. CASE r = 2
  <2>1. ((((b % 16) * 4 + c \div 64) * 64 + (c % 64)) \div 1) % 256 = c
    BY SMT DEF Byte
  <2>2. /\ Letter(a, b, c, r) = (b % 16) * 4 + c \div 64
        /\ Letter(a, b, c, r + 1) = c % 64
        /\ ByteWeight(r) = 1
    BY <1>3, SMT DEF Letter, ByteWeight
  <2>3. r # 0 /\ r # 1
    BY <1>3
  <2> QED
    BY <2>1, <2>2, <2>3, <1>3, SMT DEF Both
<1> QED
  BY <1>1, <1>2, <1>3

LEMMA GroupIs ==
  ASSUME NEW src \in Seq(Byte), NEW i \in Nat
  PROVE  Group(src, i) \in Nat
<1>1. i \in Nat /\ i + 1 \in Nat /\ i + 2 \in Nat
  OBVIOUS
<1>2. PICK a \in Nat, b \in Nat, c \in Nat :
        a = At(src, i) /\ b = At(src, i + 1) /\ c = At(src, i + 2)
  <2>1. At(src, i) \in Byte /\ At(src, i + 1) \in Byte /\ At(src, i + 2) \in Byte
    BY <1>1, AtIs
  <2>2. Byte \subseteq Nat
    BY DEF Byte
  <2> QED
    BY <2>1, <2>2
<1>3. a * 65536 + b * 256 + c \in Nat
  BY SMT
<1> QED
  BY <1>2, <1>3, SMT DEF Group

\* The text of a message.
LEMMA EncodedIs ==
  ASSUME NEW src \in Seq(Byte)
  PROVE  /\ b64url_encode(src) \in Seq(0 .. 63)
         /\ Len(b64url_encode(src)) = (4 * Len(src) + 2) \div 3
         /\ \A q \in Nat, r \in 0 .. 3 : 4 * q + r < (4 * Len(src) + 2) \div 3 =>
              b64url_encode(src)[4 * q + r + 1] =
                (Group(src, 3 * q) \div LetterWeight(r)) % 64
<1>1. PICK n \in Nat : n = (4 * Len(src) + 2) \div 3
  OBVIOUS
<1> DEFINE letter(k) ==
      (Group(src, 3 * ((k - 1) \div 4)) \div LetterWeight((k - 1) % 4)) % 64
<1>2. b64url_encode(src) = [k \in 1 .. n |-> letter(k)]
  BY <1>1 DEF b64url_encode, LetterWeight
<1>3. ASSUME NEW k \in 1 .. n
      PROVE  letter(k) \in 0 .. 63
  <2>1. PICK g \in Nat, d \in {262144, 4096, 64, 1} :
          /\ g = Group(src, 3 * ((k - 1) \div 4))
          /\ d = LetterWeight((k - 1) % 4)
    <3>1. 3 * ((k - 1) \div 4) \in Nat
      OBVIOUS
    <3>5. Group(src, 3 * ((k - 1) \div 4)) \in Nat
      BY <3>1, GroupIs
    <3>6. (k - 1) % 4 \in 0 .. 3
      OBVIOUS
    <3>7. LetterWeight((k - 1) % 4) \in {262144, 4096, 64, 1}
      BY <3>6, SMT DEF LetterWeight
    <3> QED
      BY <3>5, <3>7
  <2>2. (g \div d) % 64 \in 0 .. 63
    OBVIOUS
  <2> QED
    BY <2>1, <2>2
<1>4. ASSUME NEW q \in Nat, NEW r \in 0 .. 3, 4 * q + r < n
      PROVE  b64url_encode(src)[4 * q + r + 1] =
                (Group(src, 3 * q) \div LetterWeight(r)) % 64
  <2>1. PICK k : k = 4 * q + r + 1
    OBVIOUS
  <2>2. k \in 1 .. n /\ (k - 1) \div 4 = q /\ (k - 1) % 4 = r
    BY <1>4, <2>1
  <2>3. b64url_encode(src)[k] = letter(k)
    BY <1>2, <2>2
  <2> QED
    BY <2>1, <2>2, <2>3
<1> HIDE DEF letter
<1>5. b64url_encode(src) \in Seq(0 .. 63) /\ Len(b64url_encode(src)) = n
  BY <1>2, <1>3
<1> QED
  BY <1>1, <1>4, <1>5

\* What a provider decodes is what was encoded, for a message of any length.
LEMMA RoundTrip ==
  ASSUME NEW src \in Seq(Byte)
  PROVE  Decoded(b64url_encode(src)) = src
<1>1. PICK n \in Nat : n = Len(src)
  OBVIOUS
<1>2. PICK text : text = b64url_encode(src)
  OBVIOUS
<1>3. PICK len \in Nat : len = (4 * n + 2) \div 3
  OBVIOUS
<1>4. /\ text \in Seq(0 .. 63) /\ Len(text) = len
      /\ \A q \in Nat, r \in 0 .. 3 : 4 * q + r < len =>
           text[4 * q + r + 1] =
             (Group(src, 3 * q) \div LetterWeight(r)) % 64
  BY <1>1, <1>2, <1>3, EncodedIs
<1> DEFINE byte(i) == LET k == 4 * ((i - 1) \div 3) + ((i - 1) % 3) + 1 IN
                      ((text[k] * 64 + text[k + 1])
                         \div ByteWeight((i - 1) % 3)) % 256
<1>5. (3 * len) \div 4 = n
  BY <1>3
<1>6. Decoded(text) = [i \in 1 .. n |-> byte(i)]
  BY <1>4, <1>5 DEF Decoded, ByteWeight
<1>7. ASSUME NEW i \in 1 .. n
      PROVE  byte(i) = src[i]
  <2>1. PICK q \in Nat, r \in 0 .. 2 : i = 3 * q + r + 1
    <3>1. (i - 1) \div 3 \in Nat /\ (i - 1) % 3 \in 0 .. 2
          /\ i = 3 * ((i - 1) \div 3) + ((i - 1) % 3) + 1
      OBVIOUS
    <3> QED
      BY <3>1
  <2>2. (i - 1) \div 3 = q /\ (i - 1) % 3 = r
    BY <2>1
  <2>3. 4 * q + r < len /\ 4 * q + (r + 1) < len
    BY <2>1, <1>3
  <2>4. PICK a \in Byte, b \in Byte, c \in Byte :
          a = At(src, 3 * q) /\ b = At(src, 3 * q + 1) /\ c = At(src, 3 * q + 2)
    <3>1. 3 * q \in Nat /\ 3 * q + 1 \in Nat /\ 3 * q + 2 \in Nat
      OBVIOUS
    <3>2. At(src, 3 * q) \in Byte /\ At(src, 3 * q + 1) \in Byte /\ At(src, 3 * q + 2) \in Byte
      BY <3>1, AtIs
    <3> QED
      BY <3>2
  <2>5. \A k \in 0 .. 3 : 4 * q + k < len => text[4 * q + k + 1] = Letter(a, b, c, k)
    <3> SUFFICES ASSUME NEW k \in 0 .. 3, 4 * q + k < len
                 PROVE  text[4 * q + k + 1] = Letter(a, b, c, k)
      OBVIOUS
    <3>1. PICK g : g = Bits(a, b, c)
      OBVIOUS
    <3>2. Group(src, 3 * q) = g
      BY <2>4, <3>1, SMT DEF Group, Bits
    <3>3. text[4 * q + k + 1] = (g \div LetterWeight(k)) % 64
      BY <3>2, <1>4
    <3>4. (g \div LetterWeight(k)) % 64 = Letter(a, b, c, k)
      BY <3>1, LetterIs
    <3> QED
      BY <3>3, <3>4
  <2>6. PICK x, y : x = text[4 * q + r + 1] /\ y = text[4 * q + (r + 1) + 1]
    OBVIOUS
  <2>7. x = Letter(a, b, c, r) /\ y = Letter(a, b, c, r + 1)
    <3>1. r \in 0 .. 3 /\ r + 1 \in 0 .. 3
      OBVIOUS
    <3> QED
      BY <3>1, <2>3, <2>5, <2>6
  <2>8. byte(i) = Both(x, y, r)
    <3>1. 4 * q + r + 1 + 1 = 4 * q + (r + 1) + 1
      OBVIOUS
    <3> QED
      BY <3>1, <2>2, <2>6, SMT DEF Both
  <2> HIDE DEF byte
  <2>9. byte(i) = IF r = 0 THEN a ELSE IF r = 1 THEN b ELSE c
    BY <2>7, <2>8, ByteOf
  <2>10. byte(i) = At(src, 3 * q + r)
    BY <2>4, <2>9
  <2>11. At(src, 3 * q + r) = src[i]
    <3>1. 3 * q + r < Len(src) /\ 3 * q + r + 1 = i
      BY <2>1, <1>1
    <3> QED
      BY <3>1 DEF At
  <2> QED
    BY <2>10, <2>11
<1> HIDE DEF byte
<1>8. Decoded(text) = [i \in 1 .. n |-> src[i]]
  BY <1>6, <1>7
<1>9. src = [i \in 1 .. n |-> src[i]]
  BY <1>1
<1> QED
  BY <1>2, <1>8, <1>9

-----------------------------------------------------------------------------
(* Names on the wire                                                       *)

\* A label ends at the next dot.
LEMMA LabelEndIs ==
  ASSUME NEW h \in Seq(Byte), NEW p \in 1 .. Len(h) + 1
  PROVE  /\ LabelEnd(h, p) \in p .. Len(h) + 1
         /\ LabelEnd(h, p) <= Len(h) => h[LabelEnd(h, p)] = DOT
         /\ \A i \in p .. LabelEnd(h, p) - 1 : h[i] # DOT
<1>1. PICK S : S = {i \in p .. Len(h) : h[i] = DOT} \cup {Len(h) + 1}
  OBVIOUS
<1>2. PICK e \in S : \A i \in S : e <= i
  <2>1. S \subseteq Nat /\ S # {}
    BY <1>1
  <2> QED
    BY <2>1, Least
<1>3. LabelEnd(h, p) \in S /\ \A i \in S : LabelEnd(h, p) <= i
  BY <1>1, <1>2 DEF LabelEnd, Min
<1>4. PICK n : n = LabelEnd(h, p)
  OBVIOUS
<1>5. n \in p .. Len(h) + 1 /\ (n <= Len(h) => h[n] = DOT)
  BY <1>1, <1>3, <1>4
<1>6. \A i \in p .. n - 1 : h[i] # DOT
  BY <1>1, <1>3, <1>4, <1>5
<1> QED
  BY <1>4, <1>5, <1>6

\* How many bytes follow the length byte for place p, and where it goes on.
Split(h, p) == LabelEnd(h, p) <= Len(h) /\ LabelEnd(h, p) - p > dns_max_label
Size(h, p) == IF Split(h, p) THEN dns_max_label ELSE LabelEnd(h, p) - p
Further(h, p) == IF Split(h, p) THEN p + Size(h, p) ELSE LabelEnd(h, p) + 1

LEMMA SizeIs ==
  ASSUME NEW h \in Seq(Byte), NEW p \in 1 .. Len(h)
  PROVE  /\ Size(h, p) \in 0 .. Len(h) /\ p + Size(h, p) <= Len(h) + 1
         /\ Further(h, p) \in p + 1 .. Len(h) + 2
<1>1. PICK e \in p .. Len(h) + 1 : e = LabelEnd(h, p)
  BY LabelEndIs
<1> QED
  BY <1>1 DEF Size, Further, Split, dns_max_label

\* The wire form is built label by label.
LEMMA WireIs ==
  ASSUME NEW h \in Seq(Byte), Len(h) <= 255
  PROVE  \E f \in [1 .. Len(h) + 2 -> Seq(Byte)] :
           /\ host2qname(h) = f[1]
           /\ \A p \in 1 .. Len(h) + 2 : p > Len(h) => f[p] = <<0>>
           /\ \A p \in 1 .. Len(h) :
                f[p] = <<Size(h, p)>> \o SubSeq(h, p, p + Size(h, p) - 1)
                                      \o f[Further(h, p)]
<1> DEFINE X == 1 .. Len(h) + 2
           V == Seq(Byte)
           Label(p) == <<Size(h, p)>> \o SubSeq(h, p, p + Size(h, p) - 1)
           m == [p \in X |-> Len(h) + 2 - p]
           B == {p \in X : p > Len(h)}
           v == [p \in X |-> <<0>>]
           next == [p \in X |-> IF p > Len(h) THEN p ELSE Further(h, p)]
           g == [p \in X |-> [u \in V |-> IF p > Len(h) THEN u ELSE Label(p) \o u]]
           body(f, p) == LET end == LabelEnd(h, p)
                             split == end <= Len(h) /\ end - p > dns_max_label
                             n == IF split THEN dns_max_label ELSE end - p
                         IN
                         IF p > Len(h) THEN <<0>>
                         ELSE <<n>> \o SubSeq(h, p, p + n - 1)
                                    \o f[IF split THEN p + n ELSE end + 1]
           Right(f) == f = [p \in 1 .. Len(h) + 2 |-> body(f, p)]
           wire == CHOOSE f : Right(f)
<1>1. ASSUME NEW p \in 1 .. Len(h)
      PROVE  Label(p) \in V
  <2>1. Size(h, p) \in Byte
    <3>1. PICK k \in 0 .. Len(h) : k = Size(h, p)
      BY SizeIs
    <3>2. PICK n \in Nat : n = Len(h) /\ n <= 255
      OBVIOUS
    <3>4. k \in 0 .. n
      BY <3>2
    <3>3. k \in 0 .. 255
      BY <3>2, <3>4
    <3> QED
      BY <3>1, <3>3 DEF Byte
  <2>2. \A i \in p .. p + Size(h, p) - 1 : h[i] \in Byte
    BY SizeIs
  <2>3. SubSeq(h, p, p + Size(h, p) - 1) \in Seq(Byte)
    BY <2>2, SizeIs, SubSeqProperties
  <2> QED
    BY <2>1, <2>3
<1>2. \A f, p : body(f, p) = IF p > Len(h) THEN <<0>>
                              ELSE Label(p) \o f[Further(h, p)]
  BY DEF Further, Size, Split
<1>0. PICK K \in Nat : K = Len(h) + 2
  OBVIOUS
<1>3. m \in [X -> 0 .. K] /\ v \in [X -> V]
  BY <1>0 DEF Byte
<1>17. next \in [X -> X]
  BY SizeIs
<1>4. \A p \in X : p \notin B => m[next[p]] < m[p]
  BY SizeIs
<1>5. g \in [X -> [V -> V]]
  <2> HIDE DEF Label
  <2> SUFFICES ASSUME NEW p \in X, NEW u \in V
               PROVE  (IF p > Len(h) THEN u ELSE Label(p) \o u) \in V
    OBVIOUS
  <2>1. CASE p > Len(h)
    BY <2>1
  <2>2. CASE p \in 1 .. Len(h)
    <3>1. Label(p) \o u \in Seq(Byte)
      BY <2>2, <1>1
    <3> QED
      BY <2>2, <3>1
  <2> QED
    BY <2>1, <2>2
<1>6. PICK f \in [X -> V] : Meets(f, X, B, v, next, g)
  <2> HIDE DEF X, V, m, B, v, next, g
  <2> QED
    BY <1>3, <1>4, <1>5, <1>17, Unrolled, Zenon
<1> HIDE DEF Label
<1>7. \A p \in X : p > Len(h) => f[p] = <<0>>
  BY <1>6 DEF Meets
<1>8. ASSUME NEW p \in 1 .. Len(h)
      PROVE  f[p] = Label(p) \o f[Further(h, p)]
  <2>1. p \in X /\ p \notin B /\ next[p] = Further(h, p) /\ Further(h, p) \in X
    BY SizeIs
  <2>2. f[p] = g[p][f[Further(h, p)]]
    BY <2>1, <1>6 DEF Meets
  <2>3. f[Further(h, p)] \in V
    BY <2>1
  <2> QED
    BY <2>1, <2>2, <2>3
<1>9. Right(f)
  <2> HIDE DEF body
  <2>1. ASSUME NEW p \in X PROVE f[p] = body(f, p)
    <3>1. CASE p > Len(h)
      BY <3>1, <1>2, <1>7
    <3>2. CASE ~(p > Len(h))
      <4>1. p \in 1 .. Len(h)
        BY <3>2
      <4> QED
        BY <4>1, <3>2, <1>2, <1>8
    <3> QED
      BY <3>1, <3>2
  <2> QED
    BY <2>1
<1>10. Right(wire)
  <2> HIDE DEF Right
  <2> QED
    BY <1>9
<1>11. host2qname(h) = wire[1]
  BY DEF host2qname
<1> HIDE DEF wire
<1>12. ASSUME NEW p \in X PROVE wire[p] = body(wire, p)
  BY <1>10
<1> HIDE DEF body, Right
<1>13. \A p \in X : p > Len(h) => wire[p] = <<0>>
  BY <1>2, <1>12
<1>14. \A p \in 1 .. Len(h) : wire[p] = Label(p) \o wire[Further(h, p)]
  <2> SUFFICES ASSUME NEW p \in 1 .. Len(h)
               PROVE  wire[p] = Label(p) \o wire[Further(h, p)]
    OBVIOUS
  <2>1. p \in X /\ ~(p > Len(h))
    OBVIOUS
  <2> QED
    BY <2>1, <1>2, <1>12
<1>15. \A p \in X : wire[p] \in V
  <2> DEFINE S == {p \in X : wire[p] \in V}
  <2>1. ASSUME NEW p \in X, \A k \in X : m[k] < m[p] => k \in S
        PROVE  p \in S
    <3>1. CASE p > Len(h)
      <4>1. <<0>> \in Seq(Byte)
        BY DEF Byte
      <4> QED
        BY <3>1, <4>1, <1>13
    <3>2. CASE p \in 1 .. Len(h)
      <4>1. Further(h, p) \in X /\ m[Further(h, p)] < m[p]
        BY <3>2, SizeIs
      <4>2. wire[Further(h, p)] \in V /\ Label(p) \in V
        BY <4>1, <2>1, <3>2, <1>1
      <4>3. Label(p) \o wire[Further(h, p)] \in Seq(Byte)
        BY <4>2
      <4> QED
        BY <4>3, <3>2, <1>14
    <3> QED
      BY <3>1, <3>2
  <2>2. m \in [X -> Nat]
    OBVIOUS
  <2>3. \A p \in X : (\A k \in X : m[k] < m[p] => k \in S) => p \in S
    BY <2>1
  <2> HIDE DEF S, X, m
  <2>4. \A p \in X : p \in S
    BY <2>2, <2>3, Descent
  <2> QED
    BY <2>4 DEF S
<1>16. wire \in [X -> V]
  <2>1. wire = [p \in 1 .. Len(h) + 2 |-> body(wire, p)]
    BY <1>10 DEF Right
  <2>2. wire = [p \in X |-> wire[p]]
    BY <2>1
  <2> QED
    BY <2>2, <1>15
<1> QED
  BY <1>11, <1>13, <1>14, <1>16 DEF Label

\* The bytes of a name, by index.
LEMMA SpelledIs ==
  ASSUME NEW h \in Seq(Byte), InDns(h)
  PROVE  /\ Spelled(h) \in Seq(Byte) /\ Len(Spelled(h)) = Len(h) + 2
         /\ At(Spelled(h), Len(h) + 1) = 0
         /\ \A c \in Cuts(h) : At(Spelled(h), c) = LabelEnd(h, c + 1) - c - 1
         /\ \A j \in 1 .. Len(h) : h[j] # DOT => At(Spelled(h), j) = h[j]
<1>1. PICK n \in Nat : n = Len(h)
  OBVIOUS
<1> DEFINE byte(k) == IF k = n + 2 THEN 0
                      ELSE IF k - 1 \in Cuts(h) THEN LabelEnd(h, k) - k
                      ELSE h[k - 1]
<1>2. Spelled(h) = [k \in 1 .. n + 2 |-> byte(k)]
  BY <1>1 DEF Spelled
<1>3. Cuts(h) \subseteq 0 .. n /\ 0 \in Cuts(h)
      /\ \A j \in 1 .. n : j \in Cuts(h) <=> h[j] = DOT
  BY <1>1 DEF Cuts
<1>4. \A c \in Cuts(h) : LabelEnd(h, c + 1) - c - 1 \in 1 .. 63
  BY DEF InDns, dns_max_label
<1>5. ASSUME NEW c \in Cuts(h)
      PROVE  byte(c + 1) = LabelEnd(h, c + 1) - c - 1 /\ c + 1 \in 1 .. n + 2
  <2>1. c \in 0 .. n /\ c + 1 - 1 = c /\ c + 1 # n + 2
    BY <1>3
  <2>2. LabelEnd(h, c + 1) \in Nat
    <3>1. c + 1 \in 1 .. Len(h) + 1
      BY <2>1, <1>1
    <3>2. LabelEnd(h, c + 1) \in c + 1 .. Len(h) + 1
      BY <3>1, LabelEndIs
    <3> QED
      BY <3>2, <2>1
  <2> QED
    BY <2>1, <2>2
<1>6. ASSUME NEW k \in 1 .. n + 2
      PROVE  byte(k) \in Byte
  <2>1. CASE k = n + 2
    BY <2>1 DEF Byte
  <2>2. CASE k # n + 2 /\ k - 1 \in Cuts(h)
    <3>1. k - 1 + 1 = k
      OBVIOUS
    <3>2. byte(k) \in 1 .. 63
      BY <2>2, <3>1, <1>4, <1>5
    <3> QED
      BY <3>2 DEF Byte
  <2>3. CASE k # n + 2 /\ k - 1 \notin Cuts(h)
    <3>1. k - 1 \in 1 .. n
      BY <2>3, <1>3
    <3>2. h[k - 1] \in Byte
      BY <3>1, <1>1
    <3> QED
      BY <3>2, <2>3
  <2> QED
    BY <2>1, <2>2, <2>3
<1>7. Spelled(h) \in Seq(Byte) /\ Len(Spelled(h)) = n + 2
  <2> HIDE DEF byte
  <2> QED
    BY <1>2, <1>6
<1>8. \A k \in 1 .. n + 2 : Spelled(h)[k] = byte(k)
  BY <1>2
<1>9. At(Spelled(h), n + 1) = 0
  <2>1. n + 2 \in 1 .. n + 2 /\ n + 1 + 1 = n + 2 /\ n + 1 < n + 2 /\ byte(n + 2) = 0
    OBVIOUS
  <2> HIDE DEF byte
  <2> QED
    BY <2>1, <1>7, <1>8 DEF At
<1>10. ASSUME NEW c \in Cuts(h)
       PROVE  At(Spelled(h), c) = LabelEnd(h, c + 1) - c - 1
  <2>1. c \in 0 .. n /\ c < n + 2
    BY <1>3
  <2>2. Spelled(h)[c + 1] = LabelEnd(h, c + 1) - c - 1
    <3> HIDE DEF byte
    <3> QED
      BY <1>5, <1>8
  <2> QED
    BY <2>1, <2>2, <1>7 DEF At
<1>11. ASSUME NEW j \in 1 .. n, h[j] # DOT
       PROVE  At(Spelled(h), j) = h[j]
  <2>1. j \notin Cuts(h)
    BY <1>3, <1>11
  <2>2. j + 1 \in 1 .. n + 2 /\ j + 1 - 1 = j /\ j + 1 # n + 2 /\ j < n + 2
    OBVIOUS
  <2>3. byte(j + 1) = h[j]
    BY <2>1, <2>2
  <2> HIDE DEF byte
  <2> QED
    BY <2>2, <2>3, <1>7, <1>8 DEF At
<1> QED
  BY <1>1, <1>7, <1>9, <1>10, <1>11

\* The label behind a cut, in the name and on the wire.
LEMMA CutIs ==
  ASSUME NEW h \in Seq(Byte), InDns(h), NEW c \in Cuts(h)
  PROVE  \E n \in 1 .. 63 :
           /\ c \in Nat /\ c + n <= Len(h)
           /\ LabelEnd(h, c + 1) = c + n + 1
           /\ c + n < Len(h) => c + n + 1 \in Cuts(h)
           /\ At(Spelled(h), c) = n
           /\ \A j \in 1 .. n : h[c + j] # DOT /\ At(Spelled(h), c + j) = h[c + j]
           /\ Size(h, c + 1) = n /\ Further(h, c + 1) = c + n + 2
<1>1. c \in 0 .. Len(h)
  BY DEF Cuts
<1>2. PICK e : e = LabelEnd(h, c + 1)
  OBVIOUS
<1>3. /\ e \in c + 1 .. Len(h) + 1 /\ (e <= Len(h) => h[e] = DOT)
      /\ \A i \in c + 1 .. e - 1 : h[i] # DOT
  <2>1. c + 1 \in 1 .. Len(h) + 1
    BY <1>1
  <2> QED
    BY <2>1, <1>2, LabelEndIs
<1>4. PICK n \in 1 .. 63 : n = e - c - 1
  BY <1>2 DEF InDns, dns_max_label
<1>5. c + n <= Len(h) /\ e = c + n + 1
  BY <1>1, <1>3, <1>4
<1>6. c + n < Len(h) => c + n + 1 \in Cuts(h)
  <2>1. c + n < Len(h) => c + n + 1 \in 1 .. Len(h) /\ h[c + n + 1] = DOT
    BY <1>1, <1>3, <1>5
  <2> QED
    BY <2>1 DEF Cuts
<1>7. ASSUME NEW j \in 1 .. n
      PROVE  h[c + j] # DOT /\ At(Spelled(h), c + j) = h[c + j]
  <2>1. c + j \in c + 1 .. e - 1 /\ c + j \in 1 .. Len(h)
    BY <1>1, <1>5
  <2>2. h[c + j] # DOT
    BY <2>1, <1>3
  <2> QED
    BY <2>1, <2>2, SpelledIs
<1>8. At(Spelled(h), c) = n
  BY <1>2, <1>4, SpelledIs
<1>9. Size(h, c + 1) = n /\ Further(h, c + 1) = c + n + 2
  <2>1. ~Split(h, c + 1)
    BY <1>1, <1>2, <1>5 DEF Split, dns_max_label
  <2> QED
    BY <2>1, <1>1, <1>2, <1>5 DEF Size, Further
<1>10. c \in Nat /\ LabelEnd(h, c + 1) = c + n + 1
  BY <1>1, <1>2, <1>5
<1>11. \A j \in 1 .. n : h[c + j] # DOT /\ At(Spelled(h), c + j) = h[c + j]
  BY <1>7
<1> QED
  BY <1>5, <1>6, <1>8, <1>9, <1>10, <1>11, Zenon

\* A label behind its length, before the rest.
Glue(n, label, rest) == <<n>> \o label \o rest
Glued(w, n, label, rest) ==
  /\ Len(w) = n + 1 + Len(rest)
  /\ At(w, 0) = n
  /\ \A j \in 1 .. n : At(w, j) = At(label, j - 1)
  /\ \A j \in Nat : At(w, n + 1 + j) = At(rest, j)

LEMMA GlueIs ==
  ASSUME NEW n \in Byte, NEW label \in Seq(Byte), Len(label) = n, NEW rest \in Seq(Byte)
  PROVE  Glue(n, label, rest) \in Seq(Byte) /\ Glued(Glue(n, label, rest), n, label, rest)
<1>0. n \in Nat
  BY DEF Byte
<1>1. PICK one \in Seq(Byte) : one = <<n>>
  <2>1. <<n>> \in Seq(Byte)
    OBVIOUS
  <2> QED
    BY <2>1
<1>2. Len(one) = 1 /\ At(one, 0) = n
  BY <1>1 DEF At
<1>3. PICK front \in Seq(Byte) : front = one \o label
  BY JoinIs
<1>4. /\ Len(front) = Len(one) + Len(label)
      /\ \A i \in Nat : At(front, i) = IF i < Len(one) THEN At(one, i) ELSE At(label, i - Len(one))
  BY <1>3, JoinIs
<1>5. /\ Len(front) = n + 1 /\ At(front, 0) = n
      /\ \A j \in 1 .. n : At(front, j) = At(label, j - 1)
  BY <1>0, <1>2, <1>4
<1>6. PICK w \in Seq(Byte) : w = front \o rest
  BY JoinIs
<1>7. /\ Len(w) = Len(front) + Len(rest)
      /\ \A i \in Nat : At(w, i) = IF i < Len(front) THEN At(front, i) ELSE At(rest, i - Len(front))
  BY <1>6, JoinIs
<1>8. Len(w) = n + 1 + Len(rest) /\ At(w, 0) = n
  BY <1>0, <1>5, <1>7
<1>9. \A j \in 1 .. n : At(w, j) = At(label, j - 1)
  <2>1. \A j \in 1 .. n : j \in Nat /\ j < n + 1
    BY <1>0
  <2> QED
    BY <2>1, <1>5, <1>7
<1>10. \A j \in Nat : At(w, n + 1 + j) = At(rest, j)
  <2> SUFFICES ASSUME NEW j \in Nat PROVE At(w, n + 1 + j) = At(rest, j)
    OBVIOUS
  <2>1. PICK i \in Nat : i = n + 1 + j
    BY <1>0
  <2>2. ~(i < n + 1) /\ i - (n + 1) = j
    BY <1>0, <2>1
  <2>3. At(w, i) = At(rest, i - (n + 1))
    BY <2>2, <1>5, <1>7
  <2> QED
    BY <2>1, <2>2, <2>3
<1>11. w = Glue(n, label, rest)
  BY <1>1, <1>3, <1>6 DEF Glue
<1> QED
  BY <1>8, <1>9, <1>10, <1>11 DEF Glued

\* A name that the DNS can hold is encoded as it is spelled there.
LEMMA QnameIs ==
  ASSUME NEW h \in Seq(Byte), InDns(h), Len(h) <= 255
  PROVE  host2qname(h) = Spelled(h)
<1>1. PICK N \in Nat : N = Len(h) /\ N <= 255
  OBVIOUS
<1> DEFINE X == 1 .. N + 2
           S == Spelled(h)
<1>2. PICK f \in [X -> Seq(Byte)] :
        /\ host2qname(h) = f[1]
        /\ \A p \in X : p > N => f[p] = <<0>>
        /\ \A p \in 1 .. N :
             f[p] = <<Size(h, p)>> \o SubSeq(h, p, p + Size(h, p) - 1)
                                   \o f[Further(h, p)]
  BY <1>1, WireIs
<1>3. S \in Seq(Byte) /\ Len(S) = N + 2 /\ At(S, N + 1) = 0
  BY <1>1, SpelledIs
<1> DEFINE Rest(p) == /\ Len(f[p]) = N + 3 - p
                      /\ \A j \in 0 .. N + 2 - p : At(f[p], j) = At(S, p - 1 + j)
           T == {p \in X : (p - 1 \in Cuts(h) \/ p = N + 2) => Rest(p)}
           m == [p \in X |-> N + 2 - p]
<1>4. Rest(N + 2)
  <2>1. f[N + 2] = <<0>> /\ N + 3 - (N + 2) = 1 /\ N + 2 - (N + 2) = 0
    BY <1>2
  <2>2. At(<<0>>, 0) = 0
    BY DEF At
  <2>3. N + 2 - 1 + 0 = N + 1
    OBVIOUS
  <2> QED
    BY <2>1, <2>2, <2>3, <1>3
<1>5. ASSUME NEW p \in X, p - 1 \in Cuts(h),
             \A k \in X : m[k] < m[p] => k \in T
      PROVE  Rest(p)
  <2>1. PICK c \in Nat : c = p - 1
    OBVIOUS
  <2>2. PICK n \in 1 .. 63 :
           /\ c \in Nat /\ c + n <= Len(h)
           /\ LabelEnd(h, c + 1) = c + n + 1
           /\ c + n < Len(h) => c + n + 1 \in Cuts(h)
           /\ At(Spelled(h), c) = n
           /\ \A j \in 1 .. n : h[c + j] # DOT /\ At(Spelled(h), c + j) = h[c + j]
           /\ Size(h, c + 1) = n /\ Further(h, c + 1) = c + n + 2
    BY <2>1, <1>5, CutIs
  <2>3. /\ p = c + 1 /\ p \in 1 .. N /\ p + n + 1 \in X /\ p + n <= N + 1
        /\ Size(h, p) = n /\ Further(h, p) = p + n + 1
    BY <2>1, <2>2, <1>1
  <2>4. Rest(p + n + 1)
    <3>1. m[p + n + 1] < m[p]
      BY <2>3
    <3>2. p + n + 1 \in T
      BY <3>1, <2>3, <1>5
    <3>3. p + n + 1 - 1 \in Cuts(h) \/ p + n + 1 = N + 2
      BY <2>2, <2>3, <1>1
    <3> QED
      BY <3>2, <3>3
  <2>5. PICK label : label = SubSeq(h, p, p + n - 1)
    OBVIOUS
  <2>6. /\ label \in Seq(Byte) /\ Len(label) = n
        /\ \A j \in 0 .. n - 1 : At(label, j) = h[p + j]
    <3>1. /\ Bytes(h, c, n) \in Seq(Byte)
          /\ Len(Bytes(h, c, n)) = n
          /\ \A j \in 0 .. n - 1 : At(Bytes(h, c, n), j) = At(h, c + j)
      BY <2>2, BytesIs
    <3>2. c + 1 = p /\ c + n = p + n - 1
      BY <2>3
    <3>3. Bytes(h, c, n) = label
      BY <3>2, <2>5 DEF Bytes
    <3>4. \A j \in 0 .. n - 1 : c + j < Len(h) /\ c + j + 1 = p + j
      BY <2>2, <2>3
    <3>5. \A j \in 0 .. n - 1 : At(h, c + j) = h[p + j]
      BY <3>4 DEF At
    <3> QED
      BY <3>1, <3>3, <3>5
  <2>7. PICK rest \in Seq(Byte) : rest = f[p + n + 1]
    BY <2>3
  <2>8. /\ Len(rest) = N + 2 - p - n
        /\ \A j \in 0 .. N + 1 - p - n : At(rest, j) = At(S, p + n + j)
    <3>1. /\ N + 3 - (p + n + 1) = N + 2 - p - n
          /\ N + 2 - (p + n + 1) = N + 1 - p - n
          /\ p + n + 1 - 1 = p + n
      BY <2>3
    <3> QED
      BY <2>4, <2>7, <3>1
  <2>9. f[p] = Glue(n, label, rest)
    BY <2>3, <2>5, <2>7, <1>2 DEF Glue
  <2>13. /\ Len(f[p]) = n + 1 + Len(rest)
         /\ At(f[p], 0) = n
         /\ \A j \in 1 .. n : At(f[p], j) = At(label, j - 1)
         /\ \A j \in Nat : At(f[p], n + 1 + j) = At(rest, j)
    <3>1. n \in Byte
      BY DEF Byte
    <3>2. label \in Seq(Byte) /\ rest \in Seq(Byte) /\ Len(label) = n
      BY <2>6
    <3>3. Glued(Glue(n, label, rest), n, label, rest)
      BY <3>1, <3>2, GlueIs
    <3> QED
      BY <2>9, <3>3 DEF Glued
  <2>14. ASSUME NEW j \in 0 .. N + 2 - p
         PROVE  At(f[p], j) = At(S, p - 1 + j)
    <3>1. CASE j = 0
      <4>2. p - 1 + 0 = c
        BY <2>3
      <4> QED
        BY <3>1, <4>2, <2>2, <2>13
    <3>2. CASE j \in 1 .. n
      <4>1. At(f[p], j) = At(label, j - 1)
        BY <3>2, <2>13
      <4>2. j - 1 \in 0 .. n - 1 /\ p + (j - 1) = c + j /\ p - 1 + j = c + j
        BY <3>2, <2>3
      <4>3. At(label, j - 1) = h[c + j]
        BY <4>2, <2>6
      <4> QED
        BY <4>1, <4>2, <4>3, <3>2, <2>2
    <3>3. CASE j > n
      <4>1. PICK k \in Nat : k = j - (n + 1)
        BY <3>3
      <4>2. k \in 0 .. N + 1 - p - n /\ p + n + k = p - 1 + j /\ n + 1 + k = j
        BY <3>3, <4>1, <2>3
      <4>3. At(f[p], j) = At(rest, k)
        BY <4>2, <2>13
      <4> QED
        BY <4>2, <4>3, <2>8
    <3> QED
      BY <3>1, <3>2, <3>3
  <2>15. Len(f[p]) = N + 3 - p
    BY <2>3, <2>8, <2>13
  <2> QED
    BY <2>14, <2>15
<1>6. \A p \in X : (\A k \in X : m[k] < m[p] => k \in T) => p \in T
  <2> HIDE DEF Rest, m
  <2> QED
    BY <1>4, <1>5
<1>7. m \in [X -> Nat]
  OBVIOUS
<1>8. 1 \in T
  <2>1. 1 \in X
    OBVIOUS
  <2> HIDE DEF T, m, X
  <2>2. \A p \in X : p \in T
    BY <1>6, <1>7, Descent
  <2> QED
    BY <2>1, <2>2
<1>9. Rest(1)
  <2>1. 1 - 1 \in Cuts(h)
    BY DEF Cuts
  <2> QED
    BY <2>1, <1>8
<1>10. PICK w \in Seq(Byte) : w = f[1]
  BY <1>2
<1>11. Len(w) = Len(S) /\ \A j \in 0 .. Len(w) - 1 : At(w, j) = At(S, j)
  <2>1. N + 3 - 1 = N + 2 /\ N + 2 - 1 = N + 1 /\ \A j \in 0 .. N + 1 : 1 - 1 + j = j
    OBVIOUS
  <2>2. Len(w) = N + 2 /\ \A j \in 0 .. N + 1 : At(w, j) = At(S, j)
    BY <2>1, <1>9, <1>10
  <2> QED
    BY <2>2, <1>3
<1>12. w = S
  <2> HIDE DEF S
  <2> QED
    BY <1>3, <1>11, SameBytes
<1> QED
  BY <1>2, <1>10, <1>12

-----------------------------------------------------------------------------
(* What the providers read                                                 *)

\* The query of a host, in bytes.
Header(id) == id \o <<1, 0, 0, 1, 0, 0, 0, 0, 0, 0>>
Query(h) == Header(<<0, 0>>) \o host2qname(h) \o <<0, TypeA, 0, ClassIN>>

LEMMA HeaderIs ==
  /\ Header(<<0, 0>>) = <<0, 0, 1, 0, 0, 1, 0, 0, 0, 0, 0, 0>>
  /\ Header(<<0, 0>>) \in Seq(Byte) /\ Len(Header(<<0, 0>>)) = 12
<1>1. PICK a \in Seq(0 .. 1) : a = <<0, 0>>
  <2>1. <<0, 0>> \in Seq(0 .. 1)
    OBVIOUS
  <2> QED
    BY <2>1
<1>2. PICK b \in Seq(0 .. 1) : b = <<1, 0, 0, 1, 0, 0, 0, 0, 0, 0>>
  <2>1. <<1, 0, 0, 1, 0, 0, 0, 0, 0, 0>> \in Seq(0 .. 1)
    OBVIOUS
  <2> QED
    BY <2>1
<1>3. PICK c \in Seq(0 .. 1) : c = <<0, 0, 1, 0, 0, 1, 0, 0, 0, 0, 0, 0>>
  <2>1. <<0, 0, 1, 0, 0, 1, 0, 0, 0, 0, 0, 0>> \in Seq(0 .. 1)
    OBVIOUS
  <2> QED
    BY <2>1
<1>4. PICK w \in Seq(0 .. 1) : w = a \o b
  BY ConcatProperties
<1>5. Len(w) = 12 /\ \A i \in 1 .. 12 : w[i] = IF i <= 2 THEN a[i] ELSE b[i - 2]
  BY <1>1, <1>2, <1>4
<1>6. Len(c) = 12 /\ \A i \in 1 .. 12 : w[i] = c[i]
  BY <1>1, <1>2, <1>3, <1>5
<1>7. w = c
  BY <1>5, <1>6, SeqEqual
<1>8. c = Header(<<0, 0>>)
  BY <1>1, <1>2, <1>4, <1>7 DEF Header
<1>9. <<0, 0, 1, 0, 0, 1, 0, 0, 0, 0, 0, 0>> \in Seq(Byte)
  BY DEF Byte
<1> QED
  BY <1>3, <1>6, <1>8, <1>9

LEMMA QueryIs ==
  ASSUME NEW h \in Seq(Byte), Len(h) <= 255
  PROVE  /\ Query(h) \in Seq(Byte) /\ host2qname(h) \in Seq(Byte)
         /\ make_query(h, <<0, 0>>) = b64url_encode(Query(h))
         /\ make_query(h, <<0, 0>>) \in Seq(0 .. 63)
         /\ Decoded(make_query(h, <<0, 0>>)) = Query(h)
<1>1. host2qname(h) \in Seq(Byte)
  <2>1. PICK f \in [1 .. Len(h) + 2 -> Seq(Byte)] : host2qname(h) = f[1]
    BY WireIs
  <2>2. PICK N \in Nat : N = Len(h)
    OBVIOUS
  <2>3. 1 \in 1 .. N + 2
    OBVIOUS
  <2>4. f[1] \in Seq(Byte)
    BY <2>2, <2>3
  <2> QED
    BY <2>1, <2>4
<1>2. PICK q \in Seq(Byte) : q = host2qname(h)
  BY <1>1
<1>3. /\ Header(<<0, 0>>) \in Seq(Byte)
      /\ <<0, TypeA, 0, ClassIN>> \in Seq(Byte)
  BY HeaderIs DEF Byte, TypeA, ClassIN
<1>4. Query(h) \in Seq(Byte)
  BY <1>2, <1>3 DEF Query
<1>5. make_query(h, <<0, 0>>) = b64url_encode(Query(h))
  BY DEF make_query, Query, Header
<1> QED
  BY <1>1, <1>4, <1>5, EncodedIs, RoundTrip

-----------------------------------------------------------------------------
(* What is asked                                                           *)

\* While an answer is awaited, the query in the request is that of the host.
Asked ==
  /\ host \in Hosts
  /\ pc \in {"head", "body"} => valid_name(host) /\ asked = make_query(host, <<0, 0>>)

LEMMA ValidShort ==
  ASSUME NEW h \in Seq(Byte), valid_name(h)
  PROVE  Len(h) \in Nat /\ Len(h) >= 2 /\ Len(h) <= 254 /\ Len(h) <= 255
<1>1. PICK n : n = Len(h)
  OBVIOUS
<1>2. n \in 2 .. 254
  BY <1>1 DEF valid_name
<1>3. n \in Nat /\ n >= 2 /\ n <= 254 /\ n <= 255
  BY <1>2
<1> QED
  BY <1>1, <1>3

LEMMA AskedInit == Init => Asked
BY DEF Init, Asked

LEMMA AskedStep == Asked /\ [Next]_vars => Asked'
<1> SUFFICES ASSUME Asked, [Next]_vars PROVE Asked'
  OBVIOUS
<1> USE DEF Asked, choices
<1>1. CASE Finish
  BY <1>1 DEF Finish
<1>2. CASE Connect \/ Handshake
  BY <1>2 DEF Connect, Handshake
<1>3. CASE ConnectFail
  BY <1>3 DEF ConnectFail
<1>4. CASE Ask
  BY <1>4 DEF Ask, Over
<1>5. ASSUME NEW n \in 0 .. Parts, ReadHead(n) PROVE Asked'
  BY <1>5 DEF ReadHead, Got, Over
<1>6. ASSUME NEW n \in 0 .. Parts, ReadBody(n) PROVE Asked'
  BY <1>6 DEF ReadBody, Got, Over
<1>7. CASE UNCHANGED vars
  BY <1>7 DEF vars
<1> QED
  BY <1>1, <1>2, <1>3, <1>4, <1>5, <1>6, <1>7 DEF Next

\* A host is as long as its name on the wire allows, and the header of its
\* query is what Understood says.
LEMMA AskedUnderstood == Asked => Understood
<1> SUFFICES ASSUME Asked, pc \in {"head", "body"}, InDns(host)
             PROVE  Decoded(asked) = <<0, 0, 1, 0, 0, 1, 0, 0, 0, 0, 0, 0>>
                                       \o Spelled(host) \o <<0, TypeA, 0, ClassIN>>
  BY DEF Understood
<1>1. host \in Seq(Byte) /\ Len(host) <= 255 /\ asked = make_query(host, <<0, 0>>)
  <2>1. host \in Seq(Byte)
    BY DohAssumption DEF Asked
  <2>2. valid_name(host) /\ asked = make_query(host, <<0, 0>>)
    BY DEF Asked
  <2>3. Len(host) <= 255
    BY <2>1, <2>2, ValidShort
  <2> QED
    BY <2>1, <2>2, <2>3
<1>2. Decoded(asked) = Query(host)
  BY <1>1, QueryIs
<1>3. host2qname(host) = Spelled(host)
  BY <1>1, QnameIs
<1>4. Header(<<0, 0>>) = <<0, 0, 1, 0, 0, 1, 0, 0, 0, 0, 0, 0>>
  BY HeaderIs
<1> QED
  BY <1>2, <1>3, <1>4 DEF Query

\* Understood of module Doh: what a provider reads from a request is the
\* query for the A records of the host, whatever its length and labels.
THEOREM Comprehension == Spec => []Understood
BY AskedInit, AskedStep, AskedUnderstood, PTL DEF Spec

-----------------------------------------------------------------------------
(* What a name on the wire is read as                                      *)

Named == [ok : BOOLEAN, name : Seq(Byte), used : Nat]
Places(msg) == (0 .. Len(msg)) \X (0 .. 10)

\* The three ways a name goes on.
IsPointer(msg, i) == At(msg, i) > dns_max_label
IsLabel(msg, i) == At(msg, i) # 0 /\ ~IsPointer(msg, i)
Ends(msg, i, depth) ==
  \/ At(msg, i) = 0
  \/ IsPointer(msg, i) /\ (depth = 10 \/ i + 1 >= Len(msg) \/ At(msg, i + 1) >= Len(msg))
  \/ IsLabel(msg, i) /\ At(msg, i) + i + 1 > Len(msg)
End(msg, i) == IF At(msg, i) = 0 THEN [ok |-> TRUE, name |-> <<>>, used |-> 0] ELSE Bad
Follow(msg, i, depth) ==
  IF IsPointer(msg, i) THEN <<At(msg, i + 1), depth + 1>>
  ELSE <<i + At(msg, i) + 1, depth>>
Before(msg, i, depth, rest) ==
  IF IsPointer(msg, i) THEN [rest EXCEPT !.used = @ + Used(depth)]
  ELSE [ok |-> rest.ok,
        name |-> Bytes(msg, i + 1, At(msg, i)) \o <<DOT>> \o rest.name,
        used |-> rest.used + IF depth = 0 THEN At(msg, i) + 1 ELSE 0]
Whole(all) ==
  IF ~all.ok \/ Len(all.name) > 255 THEN Bad
  ELSE IF all.name = <<>> THEN all
  ELSE [all EXCEPT !.used = @ + 1]

\* f is what is read at every place of the message, at every depth.
Reads(f, msg) ==
  /\ \A i \in 0 .. Len(msg), d \in 0 .. 10 :
       f[<<i, d>>] = IF Ends(msg, i, d) THEN End(msg, i)
                     ELSE Before(msg, i, d, f[Follow(msg, i, d)])
  /\ \A i \in 0 .. Len(msg) : qname2host(msg, i) = Whole(f[<<i, 0>>])

\* A name goes on at a place of the message, further on or one pointer deeper.
LEMMA FollowIs ==
  ASSUME NEW msg \in Seq(Byte), NEW i \in 0 .. Len(msg), NEW d \in 0 .. 10,
         ~Ends(msg, i, d)
  PROVE  /\ Follow(msg, i, d) \in Places(msg)
         /\ \/ Follow(msg, i, d)[2] = d /\ Follow(msg, i, d)[1] > i
            \/ Follow(msg, i, d)[2] = d + 1
<1>1. PICK L \in Nat : L = Len(msg)
  OBVIOUS
<1>2. PICK a \in Nat, b \in Nat : a = At(msg, i) /\ b = At(msg, i + 1)
  <2>1. i \in Nat /\ i + 1 \in Nat
    OBVIOUS
  <2>2. At(msg, i) \in Nat /\ At(msg, i + 1) \in Nat
    BY <2>1, AtNat
  <2> QED
    BY <2>2
<1>3. CASE IsPointer(msg, i)
  <2>1. d # 10 /\ b < L
    BY <1>1, <1>2, <1>3 DEF Ends
  <2>2. Follow(msg, i, d) = <<b, d + 1>>
    BY <1>2, <1>3 DEF Follow
  <2> QED
    BY <2>1, <2>2, <1>1 DEF Places
<1>4. CASE ~IsPointer(msg, i)
  <2>1. a # 0 /\ a + i + 1 <= L
    BY <1>1, <1>2, <1>4 DEF Ends, IsLabel
  <2>2. Follow(msg, i, d) = <<i + a + 1, d>>
    BY <1>2, <1>4 DEF Follow
  <2> QED
    BY <2>1, <2>2, <1>1 DEF Places
<1> QED
  BY <1>3, <1>4

\* What is put before a rest that has been read.
LEMMA BeforeIs ==
  ASSUME NEW msg \in Seq(Byte), NEW i \in 0 .. Len(msg), NEW d \in 0 .. 10,
         ~Ends(msg, i, d), NEW rest \in Named
  PROVE  Before(msg, i, d, rest) \in Named
<1>1. PICK L \in Nat : L = Len(msg)
  OBVIOUS
<1>2. PICK a \in Nat : a = At(msg, i)
  BY AtNat
<1>3. CASE IsPointer(msg, i)
  BY <1>3 DEF Before, Named, Used
<1>4. CASE ~IsPointer(msg, i)
  <2>1. a # 0 /\ a + i + 1 <= L
    BY <1>1, <1>2, <1>4 DEF Ends, IsLabel
  <2>2. Bytes(msg, i + 1, a) \in Seq(Byte)
    BY <2>1, <1>1, BytesIs
  <2>3. <<DOT>> \in Seq(Byte)
    BY DEF DOT, Byte
  <2>0. PICK tail \in Seq(Byte) : tail = rest.name
    BY DEF Named
  <2>4. PICK name \in Seq(Byte) : name = Bytes(msg, i + 1, a) \o <<DOT>> \o rest.name
    <3>1. PICK front \in Seq(Byte) : front = Bytes(msg, i + 1, a) \o <<DOT>>
      BY <2>2, <2>3, JoinIs
    <3>2. front \o tail \in Seq(Byte)
      BY JoinIs
    <3> QED
      BY <2>0, <3>1, <3>2
  <2>5. PICK k \in Nat : k = IF d = 0 THEN a + 1 ELSE 0
    OBVIOUS
  <2>6. Before(msg, i, d, rest) = [ok |-> rest.ok, name |-> name, used |-> rest.used + k]
    BY <2>4, <2>5, <1>2, <1>4 DEF Before
  <2> QED
    BY <2>6 DEF Named
<1> QED
  BY <1>3, <1>4

\* How far the reading of a name can still go.
Left(L, i, d) == (10 - d) * (L + 1) + (L - i)

LEMMA LeftIs ==
  ASSUME NEW L \in Nat, NEW i \in 0 .. L, NEW d \in 0 .. 10
  PROVE  /\ Left(L, i, d) \in 0 .. 11 * L + 10
         /\ \A j \in i + 1 .. L : Left(L, j, d) < Left(L, i, d)
         /\ d < 10 => \A j \in 0 .. L : Left(L, j, d + 1) < Left(L, i, d)
<1>1. d \in {0, 1, 2, 3, 4, 5, 6, 7, 8, 9, 10}
  OBVIOUS
<1>2. PICK M \in Nat : M = L + 1
  OBVIOUS
<1>3. PICK k \in Nat : k = (10 - d) * M /\ k <= 10 * M
  BY <1>1
<1>4. d < 10 => (10 - (d + 1)) * M = k - M
  BY <1>1, <1>3
<1>5. \A j \in 0 .. L : Left(L, j, d) = k + (L - j)
  BY <1>2, <1>3 DEF Left
<1>6. d < 10 => \A j \in 0 .. L : Left(L, j, d + 1) = k - M + (L - j)
  BY <1>2, <1>4 DEF Left
<1> QED
  BY <1>2, <1>3, <1>5, <1>6

LEMMA ReadIs ==
  ASSUME NEW msg \in Seq(Byte)
  PROVE  \E f \in [Places(msg) -> Named] : Reads(f, msg)
<1>0. PICK L \in Nat : L = Len(msg)
  OBVIOUS
<1> DEFINE X == Places(msg)
           V == Named
           m == [at \in X |-> Left(L, at[1], at[2])]
           B == {at \in X : Ends(msg, at[1], at[2])}
           v == [at \in X |-> End(msg, at[1])]
           next == [at \in X |-> IF at \in B THEN at ELSE Follow(msg, at[1], at[2])]
           g == [at \in X |-> [rest \in V |-> IF at \in B THEN rest
                                              ELSE Before(msg, at[1], at[2], rest)]]
           body(f, at) ==
             LET i == at[1]
                 depth == at[2]
                 len == At(msg, i)
             IN
             IF len = 0 THEN [ok |-> TRUE, name |-> <<>>, used |-> 0]
             ELSE IF len > dns_max_label
             THEN IF depth = 10 \/ i + 1 >= Len(msg) \/ At(msg, i + 1) >= Len(msg)
                  THEN Bad
                  ELSE LET rest == f[<<At(msg, i + 1), depth + 1>>] IN
                       [rest EXCEPT !.used = @ + Used(depth)]
             ELSE IF len + i + 1 > Len(msg) THEN Bad
             ELSE LET rest == f[<<i + len + 1, depth>>] IN
                  [ok |-> rest.ok,
                   name |-> Bytes(msg, i + 1, len) \o <<DOT>> \o rest.name,
                   used |-> rest.used + IF depth = 0 THEN len + 1 ELSE 0]
           Right(f) == f = [at \in (0 .. Len(msg)) \X (0 .. 10) |-> body(f, at)]
           read == CHOOSE f : Right(f)
<1>1. \A at \in X : at[1] \in 0 .. L /\ at[2] \in 0 .. 10 /\ at = <<at[1], at[2]>>
  BY <1>0 DEF Places
<1>2. \A f, at : body(f, at) =
          IF Ends(msg, at[1], at[2]) THEN End(msg, at[1])
          ELSE Before(msg, at[1], at[2], f[Follow(msg, at[1], at[2])])
  BY DEF Ends, End, Before, Follow, IsPointer, IsLabel, dns_max_label, Bad
<1>18. ASSUME NEW at \in X, at \notin B
       PROVE  /\ Follow(msg, at[1], at[2]) \in X
              /\ \/ /\ Follow(msg, at[1], at[2])[2] = at[2]
                    /\ Follow(msg, at[1], at[2])[1] > at[1]
                 \/ Follow(msg, at[1], at[2])[2] = at[2] + 1
              /\ \A rest \in V : Before(msg, at[1], at[2], rest) \in V
  <2>1. PICK i \in 0 .. Len(msg), d \in 0 .. 10 : i = at[1] /\ d = at[2]
    BY DEF Places
  <2>2. ~Ends(msg, i, d)
    BY <2>1, <1>18
  <2> QED
    BY <2>1, <2>2, FollowIs, BeforeIs
<1>3. m \in [X -> 0 .. 11 * L + 10]
  <2> SUFFICES ASSUME NEW at \in X PROVE Left(L, at[1], at[2]) \in 0 .. 11 * L + 10
    OBVIOUS
  <2>1. PICK i \in 0 .. L, d \in 0 .. 10 : i = at[1] /\ d = at[2]
    BY <1>1
  <2>2. Left(L, i, d) \in 0 .. 11 * L + 10
    BY LeftIs
  <2> QED
    BY <2>1, <2>2
<1>4. v \in [X -> V]
  BY DEF End, Bad, Named
<1>5. next \in [X -> X]
  <2> HIDE DEF X, B
  <2> QED
    BY <1>18
<1>6. g \in [X -> [V -> V]]
  <2> HIDE DEF X, V, B
  <2> QED
    BY <1>18
<1>7. \A at \in X : at \notin B => m[next[at]] < m[at]
  <2> SUFFICES ASSUME NEW at \in X, at \notin B
               PROVE  m[Follow(msg, at[1], at[2])] < m[at]
    OBVIOUS
  <2>1. PICK to \in X : to = Follow(msg, at[1], at[2])
    BY <1>18
  <2>2. (to[2] = at[2] /\ to[1] > at[1]) \/ to[2] = at[2] + 1
    BY <2>1, <1>18
  <2>3. Left(L, to[1], to[2]) < Left(L, at[1], at[2])
    <3>1. PICK i \in 0 .. L, d \in 0 .. 10 : i = at[1] /\ d = at[2]
      BY <1>1
    <3>2. PICK j \in 0 .. L, e \in 0 .. 10 : j = to[1] /\ e = to[2]
      BY <1>1
    <3>3. (e = d /\ j \in i + 1 .. L) \/ (d < 10 /\ e = d + 1)
      BY <2>2, <3>1, <3>2, SMTT(30)
    <3>4. Left(L, j, e) < Left(L, i, d)
      BY <3>3, LeftIs
    <3> QED
      BY <3>1, <3>2, <3>4
  <2> QED
    BY <2>1, <2>3
<1>8. PICK f \in [X -> V] : Meets(f, X, B, v, next, g)
  <2>1. PICK K \in Nat : K = 11 * L + 10
    OBVIOUS
  <2>2. m \in [X -> 0 .. K]
    BY <2>1, <1>3
  <2> HIDE DEF X, V, m, B, v, next, g
  <2> QED
    BY <2>2, <1>4, <1>5, <1>6, <1>7, Unrolled, Zenon
<1>9. ASSUME NEW at \in X
      PROVE  f[at] = IF Ends(msg, at[1], at[2]) THEN End(msg, at[1])
                     ELSE Before(msg, at[1], at[2], f[Follow(msg, at[1], at[2])])
  <2>1. CASE at \in B
    BY <2>1, <1>8 DEF Meets
  <2>2. CASE at \notin B
    <3>1. PICK to \in X : to = Follow(msg, at[1], at[2])
      BY <2>2, <1>18
    <3>2. f[at] = g[at][f[to]]
      BY <2>2, <3>1, <1>8 DEF Meets
    <3>3. f[to] \in V
      OBVIOUS
    <3> QED
      BY <2>2, <3>1, <3>2, <3>3
  <2> QED
    BY <2>1, <2>2
<1>10. Right(f)
  <2>1. \A at \in X : f[at] = body(f, at)
    <3> HIDE DEF body, X
    <3> QED
      BY <1>2, <1>9
  <2> HIDE DEF body
  <2> QED
    BY <2>1 DEF Places
<1>11. Right(read)
  <2> HIDE DEF Right
  <2> QED
    BY <1>10
<1>12. \A i : qname2host(msg, i) = Whole(read[<<i, 0>>])
  BY DEF qname2host, Whole
<1> HIDE DEF read
<1>13. ASSUME NEW at \in X PROVE read[at] = body(read, at)
  BY <1>11 DEF Places
<1> HIDE DEF body, Right
<1>14. ASSUME NEW at \in X
       PROVE  read[at] = IF Ends(msg, at[1], at[2]) THEN End(msg, at[1])
                         ELSE Before(msg, at[1], at[2], read[Follow(msg, at[1], at[2])])
  BY <1>2, <1>13
<1>15. \A at \in X : read[at] \in V
  <2> DEFINE S == {at \in X : read[at] \in V}
  <2>1. ASSUME NEW at \in X, \A k \in X : m[k] < m[at] => k \in S
        PROVE  at \in S
    <3>1. CASE at \in B
      <4>1. read[at] = v[at]
        BY <3>1, <1>14
      <4> QED
        BY <4>1, <1>4
    <3>2. CASE at \notin B
      <4>1. PICK to \in X : to = Follow(msg, at[1], at[2])
        BY <3>2, <1>18
      <4>2. m[to] < m[at]
        BY <3>2, <4>1, <1>7
      <4>3. read[to] \in V
        BY <4>2, <2>1
      <4>4. Before(msg, at[1], at[2], read[to]) \in V
        BY <3>2, <4>3, <1>18
      <4> QED
        BY <3>2, <4>1, <4>4, <1>14
    <3> QED
      BY <3>1, <3>2
  <2>2. m \in [X -> Nat]
    BY <1>3
  <2>3. \A p \in X : (\A k \in X : m[k] < m[p] => k \in S) => p \in S
    BY <2>1
  <2> HIDE DEF S, X, m
  <2>4. \A p \in X : p \in S
    BY <2>2, <2>3, Descent
  <2> QED
    BY <2>4 DEF S
<1>16. read \in [X -> V]
  <2>1. read = [at \in (0 .. Len(msg)) \X (0 .. 10) |-> body(read, at)]
    BY <1>11 DEF Right
  <2>2. read = [at \in X |-> read[at]]
    BY <2>1 DEF Places
  <2> QED
    BY <2>2, <1>15
<1>17. Reads(read, msg)
  <2>1. ASSUME NEW i \in 0 .. Len(msg), NEW d \in 0 .. 10
        PROVE  read[<<i, d>>] = IF Ends(msg, i, d) THEN End(msg, i)
                                ELSE Before(msg, i, d, read[Follow(msg, i, d)])
    <3>1. PICK at : at = <<i, d>>
      OBVIOUS
    <3>2. at \in X /\ at[1] = i /\ at[2] = d
      BY <3>1 DEF Places
    <3> QED
      BY <3>1, <3>2, <1>14
  <2> QED
    BY <2>1, <1>12 DEF Reads
<1> QED
  BY <1>16, <1>17

LEMMA NameIs ==
  ASSUME NEW msg \in Seq(Byte), NEW i \in 0 .. Len(msg)
  PROVE  qname2host(msg, i) \in Named /\ Len(qname2host(msg, i).name) <= 255
<1>1. PICK f \in [Places(msg) -> Named] : Reads(f, msg)
  BY ReadIs
<1>2. <<i, 0>> \in Places(msg)
  BY DEF Places
<1>3. PICK all \in Named : all = f[<<i, 0>>]
  BY <1>2
<1>4. qname2host(msg, i) = Whole(all)
  BY <1>1, <1>3 DEF Reads
<1>5. CASE ~all.ok \/ Len(all.name) > 255
  BY <1>4, <1>5 DEF Whole, Bad, Named
<1>6. CASE ~(~all.ok \/ Len(all.name) > 255)
  <2>1. all.name \in Seq(Byte) /\ Len(all.name) <= 255
    BY <1>6 DEF Named
  <2>2. PICK k \in Nat : k = all.used + 1
    BY DEF Named
  <2>3. Whole(all) = all \/ Whole(all) = [all EXCEPT !.used = k]
    BY <2>2, <1>6 DEF Whole
  <2>4. [all EXCEPT !.used = k] \in Named /\ [all EXCEPT !.used = k].name = all.name
    BY DEF Named
  <2> QED
    BY <2>1, <2>3, <2>4, <1>4
<1> QED
  BY <1>5, <1>6

-----------------------------------------------------------------------------
(* What the answers of a message give                                      *)

\* Behind the name of the record at idx; its data, and the next record.
Fix(msg, idx) == idx + qname2host(msg, idx).used
RdLen(msg, idx) == Short(msg, Fix(msg, idx) + 8)
Rd(msg, idx) == Bytes(msg, Fix(msg, idx) + 10, RdLen(msg, idx))
After(msg, idx) == Fix(msg, idx) + 10 + RdLen(msg, idx)
TypeAt(msg, idx) == Short(msg, Fix(msg, idx))
OwnAt(msg, fqdn, idx) == IsOwn(qname2host(msg, idx).name, fqdn)
Alias(msg, idx) == qname2host(msg, Fix(msg, idx) + 10)

\* The record is one that the loop does not go beyond.
Stops(msg, fqdn, idx) ==
  \/ idx >= Len(msg) \/ ~qname2host(msg, idx).ok \/ Fix(msg, idx) + 10 >= Len(msg)
  \/ After(msg, idx) > Len(msg) \/ RdLen(msg, idx) = 0
  \/ Short(msg, Fix(msg, idx) + 2) # ClassIN
  \/ TypeAt(msg, idx) = TypeA /\ OwnAt(msg, fqdn, idx) /\ RdLen(msg, idx) # 4
  \/ TypeAt(msg, idx) = TypeAAAA /\ OwnAt(msg, fqdn, idx) /\ RdLen(msg, idx) # 16
  \/ TypeAt(msg, idx) = TypeCNAME /\ (~Alias(msg, idx).ok \/ Alias(msg, idx).name = <<>>)

\* What another record adds.
Given(msg, fqdn, idx) ==
  IF TypeAt(msg, idx) = TypeA /\ OwnAt(msg, fqdn, idx) THEN {Address(Rd(msg, idx))}
  ELSE IF TypeAt(msg, idx) = TypeAAAA /\ OwnAt(msg, fqdn, idx) THEN {Text(Rd(msg, idx))}
  ELSE IF TypeAt(msg, idx) = TypeCNAME THEN {Text(host2qname(Alias(msg, idx).name))}
  ELSE {}

LEMMA ShortIs ==
  ASSUME NEW s \in Seq(Byte), NEW i \in Nat
  PROVE  Short(s, i) \in Nat
<1>1. At(s, i) \in Nat /\ At(s, i + 1) \in Nat
  BY AtNat, SMTT(30)
<1> QED
  BY <1>1 DEF Short

\* The loop goes on behind the record, with addresses and texts of bytes.
LEMMA RecordIs ==
  ASSUME NEW msg \in Seq(Byte), NEW fqdn, NEW idx \in Nat, ~Stops(msg, fqdn, idx)
  PROVE  /\ After(msg, idx) \in Nat /\ After(msg, idx) > idx /\ idx < Len(msg)
         /\ Given(msg, fqdn, idx) \subseteq IPs
<1>1. PICK L \in Nat : L = Len(msg)
  OBVIOUS
<1>2. idx < L /\ idx \in 0 .. Len(msg)
  BY <1>1 DEF Stops
<1>3. PICK fix \in Nat : fix = Fix(msg, idx) /\ fix >= idx
  <2>1. PICK n \in Named : n = qname2host(msg, idx)
    BY <1>2, NameIs
  <2> QED
    BY <2>1 DEF Fix, Named
<1>4. PICK k \in Nat : k = RdLen(msg, idx)
  BY <1>3, ShortIs DEF RdLen
<1>5. After(msg, idx) = fix + 10 + k /\ fix + 10 + k <= L
  BY <1>1, <1>3, <1>4 DEF Stops, After
<1>6. Rd(msg, idx) \in Seq(Byte)
  <2>1. Bytes(msg, fix + 10, k) \in Seq(Byte)
    BY <1>1, <1>5, BytesIs
  <2> QED
    BY <2>1, <1>3, <1>4 DEF Rd
<1>7. host2qname(Alias(msg, idx).name) \in Seq(Byte)
  <2>1. fix + 10 \in 0 .. Len(msg)
    BY <1>1, <1>5
  <2>2. PICK n \in Named : n = Alias(msg, idx) /\ Len(n.name) <= 255
    BY <2>1, <1>3, NameIs DEF Alias
  <2>3. n.name \in Seq(Byte)
    BY DEF Named
  <2> QED
    BY <2>2, <2>3, QueryIs
<1>8. Given(msg, fqdn, idx) \subseteq IPs
  BY <1>6, <1>7 DEF Given, Address, Text, IPs
<1> QED
  BY <1>1, <1>2, <1>3, <1>5, <1>8

LEMMA AnswersIs ==
  ASSUME NEW msg \in Seq(Byte), NEW fqdn
  PROVE  \A idx \in Nat :
           /\ Answers(msg, fqdn, idx) \subseteq IPs
           /\ Answers(msg, fqdn, idx) =
                IF Stops(msg, fqdn, idx) THEN {}
                ELSE Given(msg, fqdn, idx) \cup Answers(msg, fqdn, After(msg, idx))
<1>1. PICK L \in Nat : L = Len(msg)
  OBVIOUS
<1> DEFINE V == SUBSET IPs
           m == [idx \in Nat |-> IF idx < L THEN L - idx ELSE 0]
           B == {idx \in Nat : Stops(msg, fqdn, idx)}
           v == [idx \in Nat |-> {}]
           next == [idx \in Nat |-> IF idx \in B THEN idx ELSE After(msg, idx)]
           g == [idx \in Nat |-> [u \in V |-> IF idx \in B THEN u
                                              ELSE Given(msg, fqdn, idx) \cup u]]
           body(f, idx) ==
             LET name == qname2host(msg, idx)
                 fix == idx + name.used
                 type == Short(msg, fix)
                 rdlen == Short(msg, fix + 8)
                 rd == Bytes(msg, fix + 10, rdlen)
             IN
             IF idx >= Len(msg) \/ ~name.ok \/ fix + 10 >= Len(msg) THEN {}
             ELSE IF \/ fix + 10 + rdlen > Len(msg) \/ rdlen = 0
                     \/ Short(msg, fix + 2) # ClassIN
               THEN {}
             ELSE IF type = TypeA /\ IsOwn(name.name, fqdn)
               THEN IF rdlen # 4 THEN {}
                    ELSE {Address(rd)} \cup f[fix + 10 + rdlen]
             ELSE IF type = TypeAAAA /\ IsOwn(name.name, fqdn)
               THEN IF rdlen # 16 THEN {}
                    ELSE {Text(rd)} \cup f[fix + 10 + rdlen]
             ELSE IF type = TypeCNAME
               THEN LET cname == qname2host(msg, fix + 10) IN
                    IF ~cname.ok \/ cname.name = <<>> THEN {}
                    ELSE {Text(host2qname(cname.name))} \cup f[fix + 10 + rdlen]
             ELSE f[fix + 10 + rdlen]
           Right(f) == f = [idx \in Nat |-> body(f, idx)]
           from == CHOOSE f : Right(f)
<1>2. \A f, idx : body(f, idx) =
          IF Stops(msg, fqdn, idx) THEN {}
          ELSE Given(msg, fqdn, idx) \cup f[After(msg, idx)]
  <2> SUFFICES ASSUME NEW f, NEW idx
               PROVE  body(f, idx) = IF Stops(msg, fqdn, idx) THEN {}
                        ELSE Given(msg, fqdn, idx) \cup f[After(msg, idx)]
    OBVIOUS
  <2>1. PICK name, fix, type, rdlen :
          /\ name = qname2host(msg, idx) /\ fix = Fix(msg, idx)
          /\ type = TypeAt(msg, idx) /\ rdlen = RdLen(msg, idx)
    OBVIOUS
  <2>2. PICK rd, to, cname :
          rd = Rd(msg, idx) /\ to = After(msg, idx) /\ cname = Alias(msg, idx)
    OBVIOUS
  <2>6. PICK own \in BOOLEAN : own <=> OwnAt(msg, fqdn, idx)
    OBVIOUS
  <2>7. PICK bad \in BOOLEAN :
          bad <=> \/ idx >= Len(msg) \/ ~name.ok \/ fix + 10 >= Len(msg)
                  \/ to > Len(msg) \/ rdlen = 0 \/ Short(msg, fix + 2) # ClassIN
    OBVIOUS
  <2>3. body(f, idx) =
          IF bad THEN {}
          ELSE IF type = TypeA /\ own
            THEN IF rdlen # 4 THEN {} ELSE {Address(rd)} \cup f[to]
          ELSE IF type = TypeAAAA /\ own
            THEN IF rdlen # 16 THEN {} ELSE {Text(rd)} \cup f[to]
          ELSE IF type = TypeCNAME
            THEN IF ~cname.ok \/ cname.name = <<>> THEN {}
                 ELSE {Text(host2qname(cname.name))} \cup f[to]
          ELSE f[to]
    BY <2>1, <2>2, <2>6, <2>7 DEF Fix, RdLen, Rd, After, TypeAt, OwnAt, Alias
  <2>4. Stops(msg, fqdn, idx) <=>
          \/ bad
          \/ type = TypeA /\ own /\ rdlen # 4
          \/ type = TypeAAAA /\ own /\ rdlen # 16
          \/ type = TypeCNAME /\ (~cname.ok \/ cname.name = <<>>)
    BY <2>1, <2>2, <2>6, <2>7 DEF Stops
  <2>5. Given(msg, fqdn, idx) =
          IF type = TypeA /\ own THEN {Address(rd)}
          ELSE IF type = TypeAAAA /\ own THEN {Text(rd)}
          ELSE IF type = TypeCNAME THEN {Text(host2qname(cname.name))}
          ELSE {}
    BY <2>1, <2>2, <2>6 DEF Given
  <2> HIDE DEF body
  <2>8. TypeA # TypeAAAA /\ TypeA # TypeCNAME /\ TypeAAAA # TypeCNAME
    BY DEF TypeA, TypeAAAA, TypeCNAME
  <2>9. CASE type = TypeA /\ own
    BY <2>2, <2>3, <2>4, <2>5, <2>8, <2>9
  <2>10. CASE type = TypeAAAA /\ own
    BY <2>2, <2>3, <2>4, <2>5, <2>8, <2>10
  <2>11. CASE type = TypeCNAME
    BY <2>2, <2>3, <2>4, <2>5, <2>8, <2>11
  <2>12. CASE ~(type = TypeA /\ own) /\ ~(type = TypeAAAA /\ own) /\ type # TypeCNAME
    BY <2>2, <2>3, <2>4, <2>5, <2>12
  <2> QED
    BY <2>9, <2>10, <2>11, <2>12
<1>3. /\ m \in [Nat -> 0 .. L]
      /\ v \in [Nat -> V]
  OBVIOUS
<1>4. next \in [Nat -> Nat]
  BY RecordIs
<1>5. g \in [Nat -> [V -> V]]
  BY RecordIs
<1>6. \A idx \in Nat : idx \notin B => m[next[idx]] < m[idx]
  BY <1>1, RecordIs
<1>7. PICK f \in [Nat -> V] : Meets(f, Nat, B, v, next, g)
  <2> HIDE DEF V, m, B, v, next, g
  <2> QED
    BY <1>3, <1>4, <1>5, <1>6, Unrolled, Zenon
<1>8. ASSUME NEW idx \in Nat
      PROVE  f[idx] = IF Stops(msg, fqdn, idx) THEN {}
                      ELSE Given(msg, fqdn, idx) \cup f[After(msg, idx)]
  <2>1. CASE idx \in B
    BY <2>1, <1>7 DEF Meets
  <2>2. CASE idx \notin B
    <3>1. PICK to \in Nat : to = After(msg, idx)
      BY <2>2, RecordIs
    <3>2. f[idx] = g[idx][f[to]]
      BY <2>2, <3>1, <1>7 DEF Meets
    <3>3. f[to] \in V
      OBVIOUS
    <3> QED
      BY <2>2, <3>1, <3>2, <3>3
  <2> QED
    BY <2>1, <2>2
<1>9. Right(f)
  <2>1. \A idx \in Nat : f[idx] = body(f, idx)
    <3> HIDE DEF body
    <3> QED
      BY <1>2, <1>8
  <2> HIDE DEF body
  <2> QED
    BY <2>1
<1>10. Right(from)
  <2> HIDE DEF Right
  <2> QED
    BY <1>9
<1>11. \A idx : Answers(msg, fqdn, idx) = from[idx]
  BY DEF Answers
<1> HIDE DEF from
<1>12. ASSUME NEW idx \in Nat PROVE from[idx] = body(from, idx)
  BY <1>10
<1> HIDE DEF body, Right
<1>13. ASSUME NEW idx \in Nat
       PROVE  from[idx] = IF Stops(msg, fqdn, idx) THEN {}
                          ELSE Given(msg, fqdn, idx) \cup from[After(msg, idx)]
  BY <1>2, <1>12
<1>14. \A idx \in Nat : from[idx] \in V
  <2> DEFINE S == {idx \in Nat : from[idx] \in V}
  <2>1. ASSUME NEW idx \in Nat, \A k \in Nat : m[k] < m[idx] => k \in S
        PROVE  idx \in S
    <3>1. CASE idx \in B
      BY <3>1, <1>13
    <3>2. CASE idx \notin B
      <4>1. PICK to \in Nat : to = After(msg, idx)
        BY <3>2, RecordIs
      <4>2. m[to] < m[idx]
        BY <3>2, <4>1, <1>6
      <4>3. from[to] \in V
        BY <4>2, <2>1
      <4>4. Given(msg, fqdn, idx) \in V
        BY <3>2, RecordIs
      <4> QED
        BY <3>2, <4>1, <4>3, <4>4, <1>13
    <3> QED
      BY <3>1, <3>2
  <2>2. m \in [Nat -> Nat]
    BY <1>3
  <2>3. \A p \in Nat : (\A k \in Nat : m[k] < m[p] => k \in S) => p \in S
    BY <2>1
  <2> HIDE DEF S, m
  <2>4. \A p \in Nat : p \in S
    BY <2>2, <2>3, Descent, ZenonT(30)
  <2> QED
    BY <2>4 DEF S
<1> QED
  BY <1>11, <1>13, <1>14

-----------------------------------------------------------------------------
(* The message of a provider                                               *)

\* w is in the message at index i.
Holds(msg, i, w) ==
  i + Len(w) <= Len(msg) /\ \A j \in 0 .. Len(w) - 1 : At(msg, i + j) = At(w, j)

LEMMA HoldsJoin ==
  ASSUME NEW s \in Seq(Byte), NEW t \in Seq(Byte)
  PROVE  Holds(s \o t, 0, s) /\ Holds(s \o t, Len(s), t)
<1>1. PICK w \in Seq(Byte) : w = s \o t
  BY JoinIs
<1>2. PICK m \in Nat, n \in Nat : m = Len(s) /\ n = Len(t)
  OBVIOUS
<1>3. /\ Len(w) = m + n
      /\ \A i \in Nat : At(w, i) = IF i < m THEN At(s, i) ELSE At(t, i - m)
  BY <1>1, <1>2, JoinIs
<1>4. \A j \in 0 .. m - 1 : At(w, 0 + j) = At(s, j)
  BY <1>3
<1>5. \A j \in 0 .. n - 1 : At(w, m + j) = At(t, j)
  <2> SUFFICES ASSUME NEW j \in 0 .. n - 1 PROVE At(w, m + j) = At(t, j)
    OBVIOUS
  <2>1. PICK k \in Nat : k = m + j /\ ~(k < m) /\ k - m = j
    OBVIOUS
  <2> QED
    BY <2>1, <1>3
<1> QED
  BY <1>1, <1>2, <1>3, <1>4, <1>5 DEF Holds

LEMMA HoldsAt ==
  ASSUME NEW msg \in Seq(Byte), NEW i \in Nat, NEW w \in Seq(Byte), Holds(msg, i, w),
         NEW j \in Nat, j < Len(w)
  PROVE  At(msg, i + j) = At(w, j)
<1>1. j \in 0 .. Len(w) - 1
  OBVIOUS
<1> QED
  BY <1>1 DEF Holds

LEMMA HoldsEach ==
  ASSUME NEW msg \in Seq(Byte), NEW i \in Nat, NEW w \in Seq(Byte), Holds(msg, i, w)
  PROVE  \A j \in Nat : j < Len(w) => At(msg, i + j) = At(w, j)
BY HoldsAt

LEMMA HoldsIn ==
  ASSUME NEW msg \in Seq(Byte), NEW w \in Seq(Byte), NEW u \in Seq(Byte),
         NEW i \in Nat, NEW k \in Nat, Holds(msg, i, w), Holds(w, k, u)
  PROVE  Holds(msg, i + k, u)
<1>1. PICK l \in Nat, m \in Nat, n \in Nat : l = Len(msg) /\ m = Len(w) /\ n = Len(u)
  OBVIOUS
<1>2. i + m <= l /\ k + n <= m
  BY <1>1 DEF Holds
<1>3. ASSUME NEW j \in 0 .. n - 1
      PROVE  At(msg, i + k + j) = At(u, j)
  <2>1. PICK a \in 0 .. m - 1 : a = k + j /\ i + a = i + k + j
    BY <1>2
  <2>2. At(msg, i + a) = At(w, a) /\ At(w, k + j) = At(u, j)
    BY <1>1 DEF Holds
  <2> QED
    BY <2>1, <2>2
<1> QED
  BY <1>1, <1>2, <1>3 DEF Holds

LEMMA HoldsBytes ==
  ASSUME NEW msg \in Seq(Byte), NEW w \in Seq(Byte), NEW i \in Nat, Holds(msg, i, w)
  PROVE  Bytes(msg, i, Len(w)) = w
<1>1. PICK n \in Nat : n = Len(w)
  OBVIOUS
<1>2. i + n <= Len(msg) /\ \A j \in 0 .. n - 1 : At(msg, i + j) = At(w, j)
  BY <1>1 DEF Holds
<1>3. /\ Bytes(msg, i, n) \in Seq(Byte) /\ Len(Bytes(msg, i, n)) = n
      /\ \A j \in 0 .. n - 1 : At(Bytes(msg, i, n), j) = At(msg, i + j)
  BY <1>2, BytesIs
<1>4. PICK b \in Seq(Byte) : b = Bytes(msg, i, n)
  BY <1>3
<1>5. Len(b) = n /\ \A j \in 0 .. n - 1 : At(b, j) = At(w, j)
  BY <1>2, <1>3, <1>4
<1>6. b = w
  BY <1>1, <1>5, SameBytes
<1> QED
  BY <1>1, <1>4, <1>6

\* Every name has a place behind lengths of a byte, in the DNS or not.
LEMMA SpelledBytes ==
  ASSUME NEW h \in Seq(Byte), Len(h) <= 254
  PROVE  Spelled(h) \in Seq(Byte) /\ Len(Spelled(h)) = Len(h) + 2
<1>1. PICK n \in Nat : n = Len(h) /\ n <= 254
  OBVIOUS
<1> DEFINE byte(k) == IF k = n + 2 THEN 0
                      ELSE IF k - 1 \in Cuts(h) THEN LabelEnd(h, k) - k
                      ELSE h[k - 1]
<1>2. Spelled(h) = [k \in 1 .. n + 2 |-> byte(k)]
  BY <1>1 DEF Spelled
<1>3. ASSUME NEW k \in 1 .. n + 2 PROVE byte(k) \in Byte
  <2>1. CASE k = n + 2
    BY <2>1 DEF Byte
  <2>2. CASE k # n + 2 /\ k - 1 \in Cuts(h)
    <3>1. k \in 1 .. Len(h) + 1
      BY <2>2, <1>1
    <3>2. LabelEnd(h, k) \in k .. Len(h) + 1
      BY <3>1, LabelEndIs
    <3>3. PICK e \in k .. n + 1 : e = LabelEnd(h, k)
      BY <3>2, <1>1
    <3>4. e - k \in 0 .. 255
      BY <1>1
    <3> QED
      BY <2>2, <3>3, <3>4 DEF Byte
  <2>3. CASE k # n + 2 /\ k - 1 \notin Cuts(h)
    <3>1. k - 1 \in 1 .. n
      BY <2>3 DEF Cuts
    <3>2. h[k - 1] \in Byte
      BY <3>1, <1>1
    <3> QED
      BY <3>2, <2>3
  <2> QED
    BY <2>1, <2>2, <2>3
<1> HIDE DEF byte
<1> QED
  BY <1>1, <1>2, <1>3

-----------------------------------------------------------------------------
(* Its records                                                             *)

GoodRecord == [owner : Seq(Byte), name : Seq(Byte), type : Byte, rd : Seq(Byte)]

\* Between the name of a record and its data.
Fixed(r) == <<0, r.type, 0, ClassIN, 0, 0, 0, 60>>
Length(r) == <<Len(r.rd) \div 256, Len(r.rd) % 256>>

LEMMA WireBytes ==
  ASSUME NEW r \in GoodRecord, Len(r.rd) <= 1000
  PROVE  /\ Wire(r) \in Seq(Byte) /\ Len(Wire(r)) = Len(r.name) + 10 + Len(r.rd)
         /\ Holds(Wire(r), 0, r.name)
         /\ Holds(Wire(r), Len(r.name), Fixed(r))
         /\ Holds(Wire(r), Len(r.name) + 8, Length(r))
         /\ Holds(Wire(r), Len(r.name) + 10, r.rd)
<1>1. PICK a \in Seq(Byte), d \in Seq(Byte), t \in Byte, m \in Nat, n \in Nat :
        a = r.name /\ d = r.rd /\ t = r.type /\ m = Len(a) /\ n = Len(d) /\ n <= 1000
  BY DEF GoodRecord
<1>2. PICK b \in Seq(Byte) : b = Fixed(r) /\ Len(b) = 8
  <2>1. <<0, t, 0, 1, 0, 0, 0, 60>> \in Seq(Byte)
    BY DEF Byte
  <2> QED
    BY <2>1, <1>1 DEF Fixed, ClassIN
<1>3. PICK c \in Seq(Byte) : c = Length(r) /\ Len(c) = 2
  <2>1. n \div 256 \in 0 .. 255 /\ n % 256 \in 0 .. 255
    BY <1>1, HalvesIs, ZenonT(30)
  <2>2. <<n \div 256, n % 256>> \in Seq(Byte)
    BY <2>1 DEF Byte
  <2> QED
    BY <2>2, <1>1, ZenonT(30) DEF Length
<1>4. PICK ab \in Seq(Byte) : ab = a \o b /\ Len(ab) = m + 8
  <2>1. a \o b \in Seq(Byte) /\ Len(a \o b) = Len(a) + Len(b)
    BY JoinIs
  <2> QED
    BY <2>1, <1>1, <1>2
<1>5. Holds(ab, 0, a) /\ Holds(ab, m, b)
  BY <1>1, <1>4, HoldsJoin
<1>6. PICK abc \in Seq(Byte) : abc = ab \o c /\ Len(abc) = m + 10
  <2>1. PICK u \in Seq(Byte) : u = ab \o c /\ Len(u) = Len(ab) + Len(c)
    BY JoinIs
  <2>2. Len(u) = m + 10
    BY <2>1, <1>3, <1>4
  <2> QED
    BY <2>1, <2>2
<1>7. Holds(abc, 0, ab) /\ Holds(abc, m + 8, c)
  BY <1>4, <1>6, HoldsJoin
<1>8. PICK w \in Seq(Byte) : w = abc \o d /\ Len(w) = m + 10 + n
  <2>1. abc \o d \in Seq(Byte) /\ Len(abc \o d) = Len(abc) + Len(d)
    BY JoinIs
  <2> QED
    BY <2>1, <1>1, <1>6
<1>9. Holds(w, 0, abc) /\ Holds(w, m + 10, d)
  BY <1>6, <1>8, HoldsJoin
<1>10. Holds(w, 0, ab) /\ Holds(w, m + 8, c)
  <2>1. 0 + 0 = 0 /\ 0 + (m + 8) = m + 8 /\ m + 8 \in Nat
    OBVIOUS
  <2>2. Holds(w, 0 + 0, ab) /\ Holds(w, 0 + (m + 8), c)
    BY <2>1, <1>7, <1>9, HoldsIn
  <2> QED
    BY <2>1, <2>2
<1>11. Holds(w, 0, a) /\ Holds(w, m, b)
  <2>1. 0 + 0 = 0 /\ 0 + m = m
    OBVIOUS
  <2>2. Holds(w, 0 + 0, a) /\ Holds(w, 0 + m, b)
    BY <2>1, <1>5, <1>10, HoldsIn
  <2> QED
    BY <2>1, <2>2
<1>12. w = Wire(r)
  BY <1>1, <1>2, <1>3, <1>4, <1>6, <1>8 DEF Wire, Fixed, Length
<1> QED
  BY <1>1, <1>2, <1>3, <1>8, <1>9, <1>10, <1>11, <1>12

\* The record r is in the message at index i.
Stands(msg, i, r) ==
  /\ i + Len(r.name) + 10 + Len(r.rd) <= Len(msg)
  /\ Holds(msg, i, r.name)
  /\ Short(msg, i + Len(r.name)) = r.type
  /\ Short(msg, i + Len(r.name) + 2) = ClassIN
  /\ Short(msg, i + Len(r.name) + 8) = Len(r.rd)
  /\ Holds(msg, i + Len(r.name) + 10, r.rd)

LEMMA StandsIs ==
  ASSUME NEW r \in GoodRecord, Len(r.rd) <= 1000, NEW msg \in Seq(Byte), NEW i \in Nat,
         Holds(msg, i, Wire(r))
  PROVE  Stands(msg, i, r)
<1>1. PICK m \in Nat, n \in Nat, t \in 0 .. 255 :
        m = Len(r.name) /\ n = Len(r.rd) /\ n <= 1000 /\ t = r.type
  BY DEF GoodRecord, Byte
<1>2. PICK w \in Seq(Byte) : w = Wire(r) /\ Len(w) = m + 10 + n
  BY <1>1, WireBytes, ZenonT(30)
<1>3. r.name \in Seq(Byte) /\ r.rd \in Seq(Byte)
  BY DEF GoodRecord
<1>4. Fixed(r) \in Seq(Byte) /\ Len(Fixed(r)) = 8
  <2>1. <<0, t, 0, 1, 0, 0, 0, 60>> \in Seq(Byte)
    BY DEF Byte
  <2> QED
    BY <2>1, <1>1 DEF Fixed, ClassIN
<1>5. Length(r) \in Seq(Byte) /\ Len(Length(r)) = 2
  <2>1. n \div 256 \in 0 .. 255 /\ n % 256 \in 0 .. 255
    BY <1>1, HalvesIs, ZenonT(30)
  <2>2. <<n \div 256, n % 256>> \in Seq(Byte)
    BY <2>1 DEF Byte
  <2> QED
    BY <2>2, <1>1 DEF Length
<1>6. i + (m + 10 + n) <= Len(msg)
  BY <1>2 DEF Holds
<1>7. /\ Holds(msg, i + 0, r.name)
      /\ Holds(msg, i + m, Fixed(r))
      /\ Holds(msg, i + (m + 8), Length(r))
      /\ Holds(msg, i + (m + 10), r.rd)
  <2>1. m + 8 \in Nat /\ m + 10 \in Nat
    OBVIOUS
  <2>2. Holds(w, 0, r.name) /\ Holds(w, m, Fixed(r)) /\ Holds(w, m + 8, Length(r))
        /\ Holds(w, m + 10, r.rd)
    BY <1>1, <1>2, WireBytes
  <2>3. Holds(msg, i, w)
    BY <1>2
  <2> QED
    BY <2>1, <2>2, <2>3, <1>3, <1>4, <1>5, HoldsIn
<1>8. /\ At(msg, i + m) = 0 /\ At(msg, i + m + 1) = t
      /\ At(msg, i + m + 2) = 0 /\ At(msg, i + m + 3) = 1
  <2>0. PICK k \in Nat, f \in Seq(Byte) : k = i + m /\ f = Fixed(r)
    BY <1>4
  <2>4. Holds(msg, k, f)
    BY <2>0, <1>7
  <2>6. Len(f) = 8
    BY <2>0, <1>4
  <2>5. \A j \in Nat : j < 8 => At(msg, k + j) = At(f, j)
    <3>1. \A j \in Nat : j < Len(f) => At(msg, k + j) = At(f, j)
      BY <2>4, HoldsEach
    <3> QED
      BY <2>6, <3>1
  <2>1. \A j \in Nat : j < 8 => At(msg, i + m + j) = At(Fixed(r), j)
    BY <2>0, <2>5
  <2>2. /\ At(Fixed(r), 0) = 0 /\ At(Fixed(r), 1) = t
        /\ At(Fixed(r), 2) = 0 /\ At(Fixed(r), 3) = 1
    BY <1>1 DEF Fixed, At, ClassIN
  <2>3. i + m + 0 = i + m
    OBVIOUS
  <2> QED
    BY <2>1, <2>2, <2>3
<1>9. At(msg, i + m + 8) = n \div 256 /\ At(msg, i + m + 8 + 1) = n % 256
  <2>0. PICK k \in Nat, f \in Seq(Byte) : k = i + (m + 8) /\ f = Length(r)
    BY <1>5
  <2>4. Holds(msg, k, f)
    BY <2>0, <1>7
  <2>6. Len(f) = 2
    BY <2>0, <1>5
  <2>5. \A j \in Nat : j < 2 => At(msg, k + j) = At(f, j)
    <3>1. \A j \in Nat : j < Len(f) => At(msg, k + j) = At(f, j)
      BY <2>4, HoldsEach
    <3> QED
      BY <2>6, <3>1
  <2>1. \A j \in Nat : j < 2 => At(msg, i + (m + 8) + j) = At(Length(r), j)
    BY <2>0, <2>5
  <2>2. At(Length(r), 0) = n \div 256 /\ At(Length(r), 1) = n % 256
    BY <1>1 DEF Length, At
  <2>3. i + (m + 8) + 0 = i + m + 8 /\ i + (m + 8) + 1 = i + m + 8 + 1
    OBVIOUS
  <2> QED
    BY <2>1, <2>2, <2>3
<1>10. Short(msg, i + m) = t /\ Short(msg, i + m + 2) = 1
  <2>1. i + m + 2 + 1 = i + m + 3
    OBVIOUS
  <2> QED
    BY <2>1, <1>8 DEF Short
<1>11. Short(msg, i + m + 8) = n
  <2>1. (n \div 256) * 256 + (n % 256) = n
    BY <1>1, HalvesIs, ZenonT(30)
  <2> QED
    BY <2>1, <1>9 DEF Short
<1>12. /\ i + 0 = i /\ i + (m + 10) = i + m + 10 /\ i + (m + 10 + n) = i + m + 10 + n
  OBVIOUS
<1> QED
  BY <1>1, <1>6, <1>7, <1>10, <1>11, <1>12, ZenonT(30) DEF Stands, ClassIN

Good == {r \in GoodRecord : Len(r.rd) <= 1000}

LEMMA WireOf ==
  ASSUME NEW r \in Good
  PROVE  Wire(r) \in Seq(Byte) /\ Len(Wire(r)) = Len(r.name) + 10 + Len(r.rd)
<1>1. r \in GoodRecord /\ Len(r.rd) <= 1000
  BY DEF Good
<1> QED
  BY <1>1, WireBytes, Zenon

LEMMA PointerIs ==
  ASSUME NEW i \in Nat, i <= 1000
  PROVE  /\ Pointer(i) \in Seq(Byte) /\ Len(Pointer(i)) = 2
         /\ At(Pointer(i), 0) = 192 + i \div 256
         /\ At(Pointer(i), 1) = i % 256
<1>1. PICK k \in 0 .. 3 : k = i \div 256
  OBVIOUS
<1>2. PICK r \in 0 .. 255 : r = i % 256
  OBVIOUS
<1>3. PICK b : b = 192 + k
  OBVIOUS
<1>4. <<b, r>> \in Seq(Byte)
  BY <1>3 DEF Byte
<1>5. Pointer(i) = <<b, r>>
  BY <1>1, <1>2, <1>3 DEF Pointer
<1> QED
  BY <1>1, <1>2, <1>3, <1>4, <1>5 DEF At

LEMMA IPIs ==
  ASSUME NEW n \in Nat
  PROVE  IP(n) \in Seq(Byte) /\ Len(IP(n)) = 4
<1>1. PICK r \in 0 .. 255 : r = n % 256
  OBVIOUS
<1>2. <<10, 0, 0, r>> \in Seq(Byte)
  BY DEF Byte
<1> QED
  BY <1>1, <1>2 DEF IP

LEMMA UpperIs ==
  ASSUME NEW s \in Seq(Byte)
  PROVE  Upper(s) \in Seq(Byte) /\ Len(Upper(s)) = Len(s)
<1>1. PICK n \in Nat : n = Len(s) /\ DOMAIN s = 1 .. n
  OBVIOUS
<1>2. ASSUME NEW i \in 1 .. n
      PROVE  (IF s[i] \in 97 .. 122 THEN s[i] - 32 ELSE s[i]) \in Byte
  <2>1. s[i] \in 0 .. 255
    BY <1>1 DEF Byte
  <2> QED
    BY <2>1 DEF Byte
<1> DEFINE up(i) == IF s[i] \in 97 .. 122 THEN s[i] - 32 ELSE s[i]
<1>3. Upper(s) = [i \in 1 .. n |-> up(i)]
  BY <1>1 DEF Upper
<1> HIDE DEF up
<1> QED
  BY <1>1, <1>2, <1>3 DEF up

LEMMA OtherIs == Other \in Seq(Byte) /\ Len(Other) = 2
BY DEF Other, Byte

LEMMA AnswerIs ==
  ASSUME NEW h \in Seq(Byte), Len(h) <= 254
  PROVE  Answer(h) = Len(h) + 18 /\ Answer(h) \in Nat /\ Answer(h) <= 272
BY SpelledBytes DEF Answer, Question

LEMMA FillerIs ==
  ASSUME NEW h \in Seq(Byte), Len(h) <= 254
  PROVE  Filler(h) \in Good
<1>1. PICK a \in Nat : a = Answer(h)
  BY AnswerIs
<1>2. PICK k \in Int : k = Far - (a + 12) /\ k <= 268
  BY DEF Far
<1>3. PICK s \in Seq(Byte) : s = [i \in 1 .. k |-> 120]
  <2>1. PICK m \in Nat : 1 .. k = 1 .. m
    <3>1. CASE k >= 0
      BY <3>1
    <3>2. CASE k < 0
      <4>1. 1 .. k = 1 .. 0
        BY <3>2
      <4> QED
        BY <4>1
    <3> QED
      BY <3>1, <3>2
  <2>2. 120 \in Byte
    BY DEF Byte
  <2>3. [i \in 1 .. m |-> 120] \in Seq(Byte)
    BY <2>2
  <2> QED
    BY <2>1, <2>3
<1>4. Len(s) <= 268
  <2>1. DOMAIN s = 1 .. Len(s) /\ Len(s) \in Nat
    OBVIOUS
  <2>2. DOMAIN s = 1 .. k
    BY <1>3
  <2>3. PICK m \in Nat : m = Len(s) /\ 1 .. m = 1 .. k
    BY <2>1, <2>2
  <2>4. m <= 268
    <3>1. CASE m = 0
      BY <3>1
    <3>2. CASE m # 0
      <4>1. m \in 1 .. k
        BY <2>3, <3>2
      <4> QED
        BY <4>1, <1>2
    <3> QED
      BY <3>1, <3>2
  <2> QED
    BY <2>3, <2>4
<1>5. PICK o \in Seq(Byte) : o = Spelled(Other)
  BY OtherIs, SpelledBytes
<1>6. Len(o) = 4
  <2>1. PICK z \in Seq(Byte) : z = Other /\ Len(z) = 2
    BY OtherIs
  <2>2. Len(z) <= 254
    BY <2>1
  <2>3. Len(Spelled(z)) = Len(z) + 2
    BY <2>2, SpelledBytes, Zenon
  <2> QED
    BY <1>5, <2>1, <2>3
<1>7. PICK rd \in Seq(Byte) : rd = s \o o
  BY JoinIs
<1>8. Len(rd) = Len(s) + Len(o)
  BY <1>7, JoinIs
<1>9. Len(rd) <= 1000
  BY <1>4, <1>6, <1>8
<1>10. Filler(h) = [owner |-> h, name |-> Pointer(Question), type |-> TXT, rd |-> rd]
  BY <1>1, <1>2, <1>3, <1>5, <1>7 DEF Filler, Record
<1>11. Pointer(Question) \in Seq(Byte)
  BY PointerIs DEF Question
<1>12. TXT \in Byte
  BY DEF TXT, Byte
<1> QED
  BY <1>9, <1>10, <1>11, <1>12 DEF Good, GoodRecord

\* The records of each kind of answer.
OwnRecord(h, n) == Own(h, IP(n))
Chained(h, n) == Record(h, Pointer(Answer(h)), TypeA, IP(n + 1))
InCapitals(h, n) == Record(h, Upper(Spelled(h)), TypeA, IP(n))
Additional == Record(<<>>, Root, OPT, <<>>)
OfOther(rd) == Record(Other, Spelled(Other), TypeA, rd)
Named5(h) == Record(h, Pointer(Question), TypeCNAME, Spelled(Other))
Sixteen == [i \in 1 .. 16 |-> 1]
Address6(h) == Record(h, Pointer(Question), TypeAAAA, Sixteen)
Beyond == Record(Other, Pointer(Far), TypeA, IP(9))
Torn(h) == Own(h, <<10, 0>>)

LEMMA RecordsOf ==
  ASSUME NEW h, NEW n
  PROVE  /\ Records(h, "one", n) = <<OwnRecord(h, n)>>
         /\ Records(h, "refused", n) = <<OwnRecord(h, n)>>
         /\ Records(h, "chain", n) = <<OwnRecord(h, n), Chained(h, n)>>
         /\ Records(h, "spelled", n) = <<InCapitals(h, n)>>
         /\ Records(h, "edns", n) = <<OwnRecord(h, n), Additional>>
         /\ Records(h, "other", n) = <<OfOther(IP(9)), OwnRecord(h, n)>>
         /\ Records(h, "alias", n) = <<Named5(h), OfOther(IP(n))>>
         /\ Records(h, "ipv6", n) = <<Address6(h)>>
         /\ Records(h, "far", n) = <<Filler(h), Beyond>>
         /\ Records(h, "torn", n) = <<OwnRecord(h, n), Torn(h)>>
         /\ Records(h, "none", n) = <<>>
BY DEF Records, OwnRecord, Chained, InCapitals, Additional, OfOther, Named5, Sixteen,
       Address6, Beyond, Torn

Data == {s \in Seq(Byte) : Len(s) <= 1000}

LEMMA GoodIs ==
  ASSUME NEW owner \in Seq(Byte), NEW name \in Seq(Byte), NEW type \in Byte, NEW rd \in Data
  PROVE  Record(owner, name, type, rd) \in Good
BY DEF Record, Good, GoodRecord, Data

LEMMA RecordsGood ==
  ASSUME NEW h \in Seq(Byte), Len(h) <= 254, NEW n \in Nat
  PROVE  /\ OwnRecord(h, n) \in Good /\ Chained(h, n) \in Good /\ InCapitals(h, n) \in Good
         /\ Additional \in Good /\ OfOther(IP(9)) \in Good /\ OfOther(IP(n)) \in Good
         /\ Named5(h) \in Good /\ Address6(h) \in Good /\ Filler(h) \in Good
         /\ Beyond \in Good /\ Torn(h) \in Good
<1>1. TypeA \in Byte /\ TypeAAAA \in Byte /\ TypeCNAME \in Byte /\ OPT \in Byte
  BY DEF TypeA, TypeAAAA, TypeCNAME, OPT, Byte
<1>2. Pointer(Question) \in Seq(Byte) /\ Pointer(Far) \in Seq(Byte)
  BY PointerIs, SMTT(30) DEF Question, Far
<1>3. Pointer(Answer(h)) \in Seq(Byte)
  <2>1. PICK a \in Nat : a = Answer(h) /\ a <= 1000
    BY AnswerIs
  <2>2. Pointer(a) \in Seq(Byte)
    BY <2>1, PointerIs
  <2> QED
    BY <2>1, <2>2
<1>4. ASSUME NEW i \in Nat PROVE IP(i) \in Data
  <2>1. PICK a \in Seq(Byte) : a = IP(i)
    BY IPIs
  <2>2. Len(a) = 4
    BY <2>1, IPIs
  <2>3. Len(a) <= 1000
    BY <2>2
  <2>4. a \in Data
    BY <2>3 DEF Data
  <2> QED
    BY <2>1, <2>4
<1>5. Other \in Seq(Byte) /\ Spelled(Other) \in Seq(Byte) /\ Spelled(Other) \in Data
  <2>1. PICK z \in Seq(Byte) : z = Other /\ Len(z) = 2
    BY OtherIs
  <2>2. Len(z) <= 254
    BY <2>1
  <2>3. Spelled(z) \in Seq(Byte) /\ Len(Spelled(z)) = Len(z) + 2
    BY <2>2, SpelledBytes, Zenon
  <2>4. Len(Spelled(z)) <= 1000
    BY <2>1, <2>3
  <2> QED
    BY <2>1, <2>3, <2>4 DEF Data
<1>6. Upper(Spelled(h)) \in Seq(Byte)
  BY SpelledBytes, UpperIs
<1>7. <<>> \in Seq(Byte) /\ <<>> \in Data /\ Root \in Seq(Byte)
  BY DEF Root, Byte, Data
<1>8. Sixteen \in Data
  BY DEF Sixteen, Byte, Data
<1>9. <<10, 0>> \in Data
  BY DEF Byte, Data
<1>10. n + 1 \in Nat /\ 9 \in Nat
  OBVIOUS
<1>20. IP(n) \in Data /\ IP(n + 1) \in Data /\ IP(9) \in Data
  BY <1>4, <1>10
<1>11. OwnRecord(h, n) \in Good
  BY <1>1, <1>2, <1>20, GoodIs, Zenon DEF OwnRecord, Own
<1>12. Chained(h, n) \in Good
  BY <1>1, <1>3, <1>20, GoodIs, Zenon DEF Chained
<1>13. InCapitals(h, n) \in Good
  BY <1>1, <1>20, <1>6, GoodIs, Zenon DEF InCapitals
<1>14. Additional \in Good
  BY <1>1, <1>7, GoodIs, Zenon DEF Additional
<1>15. OfOther(IP(9)) \in Good /\ OfOther(IP(n)) \in Good
  BY <1>1, <1>20, <1>5, GoodIs, Zenon DEF OfOther
<1>16. Named5(h) \in Good
  BY <1>1, <1>2, <1>5, GoodIs, Zenon DEF Named5
<1>17. Address6(h) \in Good
  BY <1>1, <1>2, <1>8, GoodIs, Zenon DEF Address6
<1>18. Beyond \in Good
  BY <1>1, <1>2, <1>20, <1>5, GoodIs, Zenon DEF Beyond
<1>19. Torn(h) \in Good
  BY <1>1, <1>2, <1>9, GoodIs, Zenon DEF Torn, Own
<1> QED
  BY <1>11, <1>12, <1>13, <1>14, <1>15, <1>16, <1>17, <1>18, <1>19, FillerIs

-----------------------------------------------------------------------------
(* The whole message                                                       *)

LEMMA FlattenIs ==
  ASSUME NEW a \in Seq(Byte), NEW b \in Seq(Byte)
  PROVE  FlattenSeq(<<>>) = <<>> /\ FlattenSeq(<<a>>) = a /\ FlattenSeq(<<a, b>>) = a \o b
<1>1. FlattenSeq(<<>>) = <<>>
  BY DEF FlattenSeq
<1>2. FlattenSeq(<<a>>) = a
  <2> DEFINE s == <<a>>
             Right(f) == f = [i \in 1 .. Len(s) |-> IF i = 1 THEN s[i] ELSE f[i - 1] \o s[i]]
             flatten == CHOOSE f : Right(f)
  <2>1. Right([i \in 1 .. 1 |-> a])
    OBVIOUS
  <2>2. Right(flatten)
    <3> HIDE DEF Right
    <3> QED
      BY <2>1
  <2>3. FlattenSeq(s) = flatten[Len(s)]
    BY DEF FlattenSeq
  <2> HIDE DEF flatten
  <2>4. flatten[1] = a
    BY <2>2
  <2> QED
    BY <2>3, <2>4
<1>3. FlattenSeq(<<a, b>>) = a \o b
  <2> DEFINE s == <<a, b>>
             Right(f) == f = [i \in 1 .. Len(s) |-> IF i = 1 THEN s[i] ELSE f[i - 1] \o s[i]]
             flatten == CHOOSE f : Right(f)
  <2>1. Right([i \in 1 .. 2 |-> IF i = 1 THEN a ELSE a \o b])
    OBVIOUS
  <2>2. Right(flatten)
    <3> HIDE DEF Right
    <3> QED
      BY <2>1
  <2>3. FlattenSeq(s) = flatten[Len(s)]
    BY DEF FlattenSeq
  <2> HIDE DEF flatten
  <2>4. flatten[1] = a
    BY <2>2
  <2>5. flatten[2] = flatten[1] \o b
    <3>1. 2 \in 1 .. Len(s) /\ 2 # 1 /\ 2 - 1 = 1 /\ s[2] = b
      OBVIOUS
    <3>2. \A i \in 1 .. Len(s) : flatten[i] = IF i = 1 THEN s[i] ELSE flatten[i - 1] \o s[i]
      BY <2>2
    <3> HIDE DEF s
    <3>3. flatten[2] = flatten[2 - 1] \o s[2]
      BY <3>1, <3>2
    <3> QED
      BY <3>1, <3>3
  <2>6. Len(s) = 2
    OBVIOUS
  <2> HIDE DEF s
  <2>7. FlattenSeq(s) = a \o b
    BY <2>3, <2>4, <2>5, <2>6
  <2> QED
    BY <2>7 DEF s
<1> QED
  BY <1>1, <1>2, <1>3

\* The records of a message, one behind the other.
Wires(rs) == FlattenSeq([i \in DOMAIN rs |-> Wire(rs[i])])

LEMMA WiresIs ==
  ASSUME NEW r \in Good, NEW s \in Good
  PROVE  Wires(<<>>) = <<>> /\ Wires(<<r>>) = Wire(r) /\ Wires(<<r, s>>) = Wire(r) \o Wire(s)
<1>1. PICK a \in Seq(Byte) : a = Wire(r)
  BY WireOf
<1>2. PICK b \in Seq(Byte) : b = Wire(s)
  BY WireOf
<1>3. [i \in DOMAIN <<>> |-> Wire(<<>>[i])] = <<>>
  OBVIOUS
<1>4. [i \in DOMAIN <<r>> |-> Wire(<<r>>[i])] = <<a>>
  BY <1>1
<1>5. [i \in DOMAIN <<r, s>> |-> Wire(<<r, s>>[i])] = <<a, b>>
  BY <1>1, <1>2
<1> QED
  BY <1>1, <1>2, <1>3, <1>4, <1>5, FlattenIs, ZenonT(30) DEF Wires

\* The message of a provider to the query of h.
Reply(h, k, n) == Message(Query(h), h, k, n)

LEMMA WiresBytes ==
  ASSUME NEW h \in Seq(Byte), Len(h) <= 254, NEW k \in Kinds, NEW n \in Nat
  PROVE  /\ Wires(Records(h, k, n)) \in Seq(Byte)
         /\ Len(Records(h, k, n)) \in Byte
<1> DEFINE Fits(rs) == Wires(rs) \in Seq(Byte) /\ Len(rs) \in Byte
<1>0. 0 \in Byte /\ 1 \in Byte /\ 2 \in Byte
  BY DEF Byte
<1>1. \A r \in Good : Wire(r) \in Seq(Byte)
  BY WireOf
<1>2. ASSUME NEW r \in Good
      PROVE  Fits(<<r>>)
  <2>1. Wires(<<r>>) = Wire(r)
    BY WiresIs
  <2> QED
    BY <2>1, <1>0, <1>1
<1>3. ASSUME NEW r \in Good, NEW s \in Good
      PROVE  Fits(<<r, s>>)
  <2>1. Wires(<<r, s>>) = Wire(r) \o Wire(s)
    BY WiresIs
  <2>2. Wire(r) \o Wire(s) \in Seq(Byte)
    BY <1>1, JoinIs
  <2> QED
    BY <2>1, <2>2, <1>0
<1>4. Fits(<<>>)
  <2>1. Wires(<<>>) = <<>>
    BY WiresIs, RecordsGood
  <2>2. <<>> \in Seq(Byte) /\ Len(<<>>) = 0
    OBVIOUS
  <2> QED
    BY <2>1, <2>2, <1>0
<1> HIDE DEF Fits
<1>5. /\ Fits(Records(h, "one", n)) /\ Fits(Records(h, "refused", n))
      /\ Fits(Records(h, "spelled", n)) /\ Fits(Records(h, "ipv6", n))
  BY <1>2, RecordsOf, RecordsGood
<1>6. /\ Fits(Records(h, "chain", n)) /\ Fits(Records(h, "edns", n))
      /\ Fits(Records(h, "other", n)) /\ Fits(Records(h, "alias", n))
      /\ Fits(Records(h, "far", n)) /\ Fits(Records(h, "torn", n))
  BY <1>3, RecordsOf, RecordsGood
<1>7. Fits(Records(h, "none", n))
  BY <1>4, RecordsOf
<1>8. Fits(Records(h, k, n))
  BY <1>5, <1>6, <1>7 DEF Kinds
<1> QED
  BY <1>8 DEF Fits

LEMMA QuestionIs ==
  ASSUME NEW h \in Seq(Byte), Len(h) <= 254
  PROVE  \E q \in Seq(Byte) :
           /\ q = Bytes(Query(h), Question, Len(Query(h)) - Question)
           /\ Len(q) = Len(host2qname(h)) + 4
           /\ Holds(q, 0, host2qname(h))
<1>1. PICK w \in Seq(Byte) : w = host2qname(h)
  BY QueryIs
<1>2. PICK a \in Seq(Byte) : a = Header(<<0, 0>>)
  BY HeaderIs
<1>3. Len(a) = 12
  BY <1>2, HeaderIs
<1>4. PICK e \in Seq(Byte) : e = <<0, TypeA, 0, ClassIN>>
  <2>1. <<0, TypeA, 0, ClassIN>> \in Seq(Byte)
    BY DEF TypeA, ClassIN, Byte
  <2> QED
    BY <2>1
<1>5. Len(e) = 4
  BY <1>4
<1>6. PICK aw \in Seq(Byte) : aw = a \o w
  BY JoinIs
<1>7. Len(aw) = Len(a) + Len(w) /\ Holds(aw, Len(a), w)
  BY <1>6, JoinIs, HoldsJoin
<1>8. PICK y \in Seq(Byte) : y = aw \o e
  BY JoinIs
<1>9. Len(y) = Len(aw) + Len(e) /\ Holds(y, 0, aw)
  BY <1>8, JoinIs, HoldsJoin
<1>10. PICK m \in Nat : m = Len(w)
  OBVIOUS
<1>11. Len(y) = 12 + m + 4
  BY <1>3, <1>5, <1>7, <1>9, <1>10
<1>12. Holds(y, 12, w)
  <2>1. Holds(y, 0 + 12, w)
    BY <1>3, <1>7, <1>9, HoldsIn
  <2> QED
    BY <2>1
<1>13. y = Query(h)
  BY <1>1, <1>2, <1>4, <1>6, <1>8 DEF Query
<1>14. 12 + (m + 4) <= Len(y) /\ m + 4 \in Nat
  BY <1>11
<1>15. PICK q \in Seq(Byte) : q = Bytes(y, 12, m + 4)
  BY <1>14, BytesIs
<1>16. /\ Len(q) = m + 4
       /\ \A j \in 0 .. m + 4 - 1 : At(q, j) = At(y, 12 + j)
  BY <1>14, <1>15, BytesIs
<1>17. Holds(q, 0, w)
  <2>1. 0 + Len(w) <= Len(q)
    BY <1>10, <1>16
  <2>2. ASSUME NEW j \in 0 .. Len(w) - 1 PROVE At(q, 0 + j) = At(w, j)
    <3>1. j \in Nat /\ j < Len(w) /\ j \in 0 .. m + 4 - 1 /\ 0 + j = j
      BY <1>10
    <3>2. At(y, 12 + j) = At(w, j)
      BY <3>1, <1>12, HoldsAt
    <3> QED
      BY <3>1, <3>2, <1>16
  <2> QED
    BY <2>1, <2>2 DEF Holds
<1>18. Len(y) - Question = m + 4 /\ Question = 12
  BY <1>11 DEF Question
<1>19. q = Bytes(Query(h), Question, Len(Query(h)) - Question)
  BY <1>13, <1>15, <1>18
<1> QED
  BY <1>1, <1>10, <1>16, <1>17, <1>19

\* The question of the query and the records stand behind the header.
LEMMA ReplyIs ==
  ASSUME NEW h \in Seq(Byte), Len(h) <= 254, NEW k \in Kinds, NEW n \in Nat
  PROVE  \E msg \in Seq(Byte), tail \in Seq(Byte) :
           /\ msg = Reply(h, k, n) /\ tail = Wires(Records(h, k, n))
           /\ Len(msg) = 16 + Len(host2qname(h)) + Len(tail)
           /\ At(msg, 2) = 129 /\ At(msg, 3) = IF k = "refused" THEN 133 ELSE 128
           /\ Holds(msg, 12, host2qname(h))
           /\ Holds(msg, 16 + Len(host2qname(h)), tail)
<1>1. PICK w \in Seq(Byte) : w = host2qname(h)
  BY QueryIs
<1>2. PICK q \in Seq(Byte) : /\ q = Bytes(Query(h), Question, Len(Query(h)) - Question)
                             /\ Len(q) = Len(w) + 4
                             /\ Holds(q, 0, w)
  BY <1>1, QuestionIs
<1>3. PICK tail \in Seq(Byte) : tail = Wires(Records(h, k, n))
  BY WiresBytes
<1>4. PICK x \in Byte : x = IF k = "refused" THEN 133 ELSE 128
  BY DEF Byte
<1>5. PICK y \in Byte : y = Len(Records(h, k, n))
  BY WiresBytes
<1>6. PICK a \in Seq(Byte) : a = <<0, 0, 129, x>>
  <2>1. 0 \in Byte /\ 129 \in Byte
    BY DEF Byte
  <2>2. <<0, 0, 129, x>> \in Seq(Byte)
    BY <2>1
  <2> QED
    BY <2>2
<1>7. Len(a) = 4 /\ At(a, 2) = 129 /\ At(a, 3) = x
  BY <1>6 DEF At
<1>8. PICK b \in Seq(Byte) : b = <<0, 1, 0, y, 0, 0, 0, 0>>
  <2>1. 0 \in Byte /\ 1 \in Byte
    BY DEF Byte
  <2>2. <<0, 1, 0, y, 0, 0, 0, 0>> \in Seq(Byte)
    BY <2>1
  <2> QED
    BY <2>2
<1>9. Len(b) = 8
  BY <1>8
<1>10. PICK ab \in Seq(Byte) : ab = a \o b
  BY JoinIs
<1>11. Len(ab) = 12 /\ Holds(ab, 0, a)
  <2>1. Len(ab) = Len(a) + Len(b) /\ Holds(ab, 0, a)
    BY <1>10, JoinIs, HoldsJoin
  <2> QED
    BY <2>1, <1>7, <1>9
<1>12. PICK abq \in Seq(Byte) : abq = ab \o q
  BY JoinIs
<1>13. PICK m \in Nat : m = Len(w)
  OBVIOUS
<1>14. Len(abq) = Len(ab) + Len(q) /\ Holds(abq, 0, ab) /\ Holds(abq, Len(ab), q)
  BY <1>12, JoinIs, HoldsJoin
<1>15. Len(abq) = 16 + m /\ Holds(abq, 12, q)
  BY <1>2, <1>11, <1>13, <1>14
<1>16. PICK msg \in Seq(Byte) : msg = abq \o tail
  BY JoinIs
<1>17. Len(msg) = Len(abq) + Len(tail) /\ Holds(msg, 0, abq) /\ Holds(msg, Len(abq), tail)
  BY <1>16, JoinIs, HoldsJoin
<1>18. msg = Reply(h, k, n)
  BY <1>2, <1>3, <1>4, <1>5, <1>6, <1>8, <1>10, <1>12, <1>16 DEF Reply, Message, Wires
<1>19. Holds(msg, 12, w)
  <2>1. 0 + 12 = 12 /\ 12 + 0 = 12 /\ 12 \in Nat /\ 0 \in Nat
    OBVIOUS
  <2>2. Holds(msg, 0 + 12, q)
    BY <2>1, <1>15, <1>17, HoldsIn
  <2>3. Holds(msg, 12, q)
    BY <2>1, <2>2
  <2>4. Holds(msg, 12 + 0, w)
    BY <2>1, <2>3, <1>2, HoldsIn
  <2> QED
    BY <2>1, <2>4
<1>20. Holds(msg, 0, a)
  <2>1. 0 + 0 = 0 /\ 0 \in Nat
    OBVIOUS
  <2>2. Holds(msg, 0 + 0, ab)
    BY <2>1, <1>14, <1>17, HoldsIn
  <2>3. Holds(msg, 0, ab)
    BY <2>1, <2>2
  <2>4. Holds(msg, 0 + 0, a)
    BY <2>1, <2>3, <1>11, HoldsIn
  <2> QED
    BY <2>1, <2>4
<1>21. At(msg, 2) = 129 /\ At(msg, 3) = x
  <2>2. 0 \in Nat /\ 2 \in Nat /\ 2 < Len(a) /\ 3 \in Nat /\ 3 < Len(a)
    BY <1>7
  <2>1. At(msg, 0 + 2) = At(a, 2) /\ At(msg, 0 + 3) = At(a, 3)
    BY <2>2, <1>20, HoldsAt
  <2> QED
    BY <2>1, <1>7
<1>22. Len(msg) = 16 + m + Len(tail) /\ Holds(msg, 16 + m, tail)
  BY <1>15, <1>17
<1> QED
  BY <1>1, <1>3, <1>4, <1>13, <1>18, <1>19, <1>21, <1>22

\* What is parsed of any message are addresses and texts.
LEMMA ParsedType ==
  ASSUME NEW h, NEW msg \in Seq(Byte)
  PROVE  parse_rfc8484(h, msg) \subseteq IPs
<1>1. CASE Len(msg) < 12 + 5
  BY <1>1 DEF parse_rfc8484
<1>2. CASE ~(Len(msg) < 12 + 5)
  <2>1. Question \in 0 .. Len(msg)
    BY <1>2 DEF Question
  <2>2. PICK q \in Named : q = qname2host(msg, Question)
    BY <2>1, NameIs
  <2>3. PICK at \in Nat : at = Question + q.used + 4
    BY DEF Named, Question
  <2>4. Answers(msg, lcs(q.name), at) \subseteq IPs
    BY AnswersIs
  <2> QED
    BY <2>2, <2>3, <2>4 DEF parse_rfc8484
<1> QED
  BY <1>1, <1>2

-----------------------------------------------------------------------------
(* The steps of a resolution                                               *)

\* What a provider contributes to the addresses.
Result(p) ==
  IF valid_name(host) /\ head[p] = "length"
  THEN parse_rfc8484(host, Reply(host, kind[p], p))
  ELSE {}

\* The providers before this one have contributed, and no other.
Collected ==
  /\ pc \in {"handshake", "ask", "head", "body"} => provider \in P
  /\ pc = "body" => head[provider] = "length"
  /\ ips = UNION {Result(p) : p \in 1 .. provider - 1}
  /\ pc = "done" => /\ provider = Providers + 1
                    /\ \A i \in ips : i.type = "A"
                    /\ el = {i.bytes : i \in ips}

IInv == TypeOK /\ Asked /\ Collected

LEMMA ResultType ==
  ASSUME TypeOK, NEW p \in P
  PROVE  Result(p) \subseteq IPs
<1>1. CASE ~(valid_name(host) /\ head[p] = "length")
  BY <1>1 DEF Result
<1>2. CASE valid_name(host) /\ head[p] = "length"
  <2>1. host \in Seq(Byte) /\ kind[p] \in Kinds /\ p \in Nat
    BY DohAssumption DEF TypeOK, P
  <2>2. Len(host) <= 254
    BY <1>2, <2>1, ValidShort
  <2>3. Reply(host, kind[p], p) \in Seq(Byte)
    BY <2>1, <2>2, ReplyIs
  <2>4. parse_rfc8484(host, Reply(host, kind[p], p)) \subseteq IPs
    BY <2>3, ParsedType
  <2> QED
    BY <1>2, <2>4 DEF Result
<1> QED
  BY <1>1, <1>2

\* What is parsed of the body is the contribution of the provider.
LEMMA AnswerIsResult ==
  ASSUME Asked, pc \in {"head", "body"}, head[provider] = "length"
  PROVE  parse_rfc8484(host, Message(Decoded(asked), host, kind[provider], provider))
           = Result(provider)
<1>1. valid_name(host) /\ asked = make_query(host, <<0, 0>>) /\ host \in Seq(Byte)
  BY DohAssumption DEF Asked
<1>2. Len(host) <= 255
  BY <1>1, ValidShort
<1>3. Decoded(asked) = Query(host)
  BY <1>1, <1>2, QueryIs
<1> QED
  BY <1>1, <1>3 DEF Result, Reply

\* get returns.
LEMMA OverIs ==
  ASSUME IInv, provider \in P, NEW answers, answers = Result(provider), Over(answers),
         UNCHANGED <<choices, el>>, asked' \in Seq(0 .. 63)
  PROVE  IInv'
<1>1. provider \in Nat /\ provider' = provider + 1 /\ provider' \in 1 .. Providers + 1
  BY DohAssumption DEF Over, P
<1>2. \A p : Result(p)' = Result(p)
  BY DEF Result, choices
<1>3. ips' = ips \cup Result(provider)
  BY DEF Over
<1>4. ips' = UNION {Result(p)' : p \in 1 .. provider' - 1}
  <2>1. 1 .. provider' - 1 = (1 .. provider - 1) \cup {provider}
    BY <1>1 DEF P
  <2>2. ips = UNION {Result(p) : p \in 1 .. provider - 1}
    BY DEF IInv, Collected
  <2> QED
    BY <2>1, <2>2, <1>2, <1>3
<1>5. ips' \subseteq IPs
  BY <1>3, ResultType DEF IInv, TypeOK
<1>6. pc' = "connect" /\ cli' = 0 /\ 0 \in 0 .. Parts - 1
  BY DohAssumption DEF Over
<1>7. Asked'
  BY <1>6 DEF IInv, Asked, choices
<1>8. TypeOK'
  BY <1>1, <1>5, <1>6 DEF IInv, TypeOK, choices
<1>9. Collected'
  BY <1>4, <1>6 DEF Collected
<1> QED
  BY <1>7, <1>8, <1>9 DEF IInv

LEMMA IInvInit == Init => IInv
<1> SUFFICES ASSUME Init PROVE IInv
  OBVIOUS
<1>1. provider \in 1 .. Providers + 1 /\ 1 .. provider - 1 = {} /\ cli \in 0 .. Parts - 1
  BY DohAssumption DEF Init
<1>2. TypeOK
  BY <1>1 DEF Init, TypeOK
<1>3. Collected
  BY <1>1 DEF Init, Collected
<1> QED
  BY <1>2, <1>3, AskedInit DEF IInv

\* The result of a provider does not change.
LEMMA ResultSame ==
  ASSUME UNCHANGED choices
  PROVE  \A p : Result(p)' = Result(p)
BY DEF Result, choices

LEMMA IInvStep == IInv /\ [Next]_vars => IInv'
<1> SUFFICES ASSUME IInv, [Next]_vars PROVE IInv'
  OBVIOUS
<1>0. TypeOK /\ Asked /\ Collected
  BY DEF IInv
<1>1. Asked'
  BY <1>0, AskedStep
<1>2. CASE Finish
  <2>1. UNCHANGED choices /\ UNCHANGED <<provider, asked, cli, ips>>
        /\ pc = "connect" /\ provider > Providers
    BY <1>2 DEF Finish
  <2>2. \/ (\A i \in ips : i.type = "A") /\ pc' = "done" /\ el' = {i.bytes : i \in ips}
        \/ pc' = "thrown" /\ el' = el
    BY <1>2 DEF Finish
  <2>3. provider = Providers + 1
    BY <2>1, <1>0, DohAssumption DEF TypeOK
  <2>4. pc' = "done" => el' \subseteq Seq(Byte)
    BY <2>2, <1>0 DEF TypeOK, IPs
  <2>5. TypeOK'
    BY <2>1, <2>2, <2>4, <1>0 DEF TypeOK, choices
  <2>6. Collected'
    BY <2>1, <2>2, <2>3, <1>0, ResultSame DEF Collected
  <2> QED
    BY <1>1, <2>5, <2>6 DEF IInv
<1>3. CASE Connect \/ Handshake
  <2>1. TypeOK'
    BY <1>0, <1>3 DEF Connect, Handshake, TypeOK, choices
  <2>2. provider' = provider /\ provider \in P
    BY <1>0, <1>3, DohAssumption DEF Connect, Handshake, Collected, TypeOK, P
  <2>3. Collected'
    BY <1>0, <1>3, <2>2, ResultSame DEF Connect, Handshake, Collected
  <2> QED
    BY <1>1, <2>1, <2>3 DEF IInv
<1>4. CASE ConnectFail
  <2>1. TypeOK'
    BY <1>0, <1>4 DEF ConnectFail, TypeOK, choices
  <2>3. Collected'
    BY <1>0, <1>4, ResultSame DEF ConnectFail, Collected
  <2> QED
    BY <1>1, <2>1, <2>3 DEF IInv
<1>5. CASE Ask
  <2>1. provider \in P /\ UNCHANGED choices /\ el' = el /\ pc = "ask"
    BY <1>0, <1>5 DEF Ask, Collected
  <2>2. CASE valid_name(host)
    <3>1. /\ asked' = make_query(host, <<0, 0>>) /\ pc' = "head"
          /\ UNCHANGED <<provider, cli, ips>>
      BY <1>5, <2>2 DEF Ask
    <3>2. host \in Seq(Byte)
      BY <1>0, DohAssumption DEF TypeOK
    <3>3. Len(host) <= 255
      BY <2>2, <3>2, ValidShort
    <3>4. asked' \in Seq(0 .. 63)
      BY <3>1, <3>2, <3>3, QueryIs
    <3>5. TypeOK'
      BY <1>0, <2>1, <3>1, <3>4 DEF TypeOK, choices
    <3>6. Collected'
      BY <1>0, <2>1, <3>1, ResultSame DEF Collected
    <3> QED
      BY <1>1, <3>5, <3>6 DEF IInv
  <2>3. CASE ~valid_name(host)
    <3>1. Over({}) /\ asked' = asked
      BY <1>5, <2>3 DEF Ask
    <3>2. Result(provider) = {}
      BY <2>3 DEF Result
    <3>3. asked' \in Seq(0 .. 63)
      BY <1>0, <3>1 DEF TypeOK
    <3> QED
      BY <2>1, <3>1, <3>2, <3>3, OverIs
  <2> QED
    BY <2>2, <2>3
<1>6. ASSUME NEW n \in 0 .. Parts, ReadHead(n) PROVE IInv'
  <2>1. /\ provider \in P /\ pc = "head" /\ UNCHANGED <<choices, el>> /\ asked' = asked
        /\ UNCHANGED choices /\ el' = el
    BY <1>0, <1>6 DEF ReadHead, Collected
  <2>2. asked' \in Seq(0 .. 63)
    BY <1>0, <2>1 DEF TypeOK
  <2>3. CASE head[provider] = "length" /\ n = Parts
    <3>1. Over(parse_rfc8484(host, Message(Decoded(asked), host, kind[provider], provider)))
      BY <1>6, <2>3 DEF ReadHead, Got
    <3> QED
      BY <1>0, <2>1, <2>2, <2>3, <3>1, AnswerIsResult, OverIs
  <2>4. CASE head[provider] = "length" /\ n # Parts
    <3>1. pc' = "body" /\ cli' = n /\ UNCHANGED <<provider, ips>>
      BY <1>6, <2>4 DEF ReadHead, Got
    <3>2. n \in 0 .. Parts - 1
      BY <2>4, DohAssumption
    <3>3. TypeOK'
      BY <1>0, <2>1, <2>2, <3>1, <3>2 DEF TypeOK, choices
    <3>4. head'[provider'] = "length"
      BY <2>1, <2>4, <3>1 DEF choices
    <3>5. Collected'
      BY <1>0, <2>1, <3>1, <3>4, ResultSame DEF Collected
    <3> QED
      BY <1>1, <3>3, <3>5 DEF IInv
  <2>5. CASE head[provider] # "length"
    <3>1. Over({})
      BY <1>6, <2>5 DEF ReadHead
    <3>2. Result(provider) = {}
      BY <2>5 DEF Result
    <3> QED
      BY <2>1, <2>2, <3>1, <3>2, OverIs
  <2> QED
    BY <2>3, <2>4, <2>5
<1>7. ASSUME NEW n \in 0 .. Parts, ReadBody(n) PROVE IInv'
  <2>1. /\ provider \in P /\ pc = "body" /\ UNCHANGED <<choices, el>> /\ asked' = asked
        /\ UNCHANGED choices /\ el' = el /\ head[provider] = "length"
    BY <1>0, <1>7 DEF ReadBody, Collected
  <2>2. asked' \in Seq(0 .. 63)
    BY <1>0, <2>1 DEF TypeOK
  <2>3. CASE cli + n = Parts
    <3>1. Over(parse_rfc8484(host, Message(Decoded(asked), host, kind[provider], provider)))
      BY <1>7, <2>3 DEF ReadBody, Got
    <3> QED
      BY <1>0, <2>1, <2>2, <3>1, AnswerIsResult, OverIs
  <2>4. CASE cli + n # Parts
    <3>1. pc' = "body" /\ cli' = cli + n /\ UNCHANGED <<provider, ips>>
      BY <1>7, <2>4 DEF ReadBody, Got
    <3>2. cli + n \in 0 .. Parts - 1
      <4>1. cli + n <= Parts
        BY <1>7 DEF ReadBody
      <4>2. cli \in 0 .. Parts - 1
        BY <1>0 DEF TypeOK
      <4> QED
        BY <2>4, <4>1, <4>2, DohAssumption
    <3>3. TypeOK'
      BY <1>0, <2>1, <2>2, <3>1, <3>2 DEF TypeOK, choices
    <3>4. head'[provider'] = "length"
      BY <2>1, <3>1 DEF choices
    <3>5. Collected'
      BY <1>0, <2>1, <3>1, <3>4, ResultSame DEF Collected
    <3> QED
      BY <1>1, <3>3, <3>5 DEF IInv
  <2> QED
    BY <2>3, <2>4
<1>8. CASE UNCHANGED vars
  <2>1. UNCHANGED choices /\ UNCHANGED <<host, kind, head, cut, provider, pc, asked, cli, ips, el>>
    BY <1>8 DEF vars, choices
  <2>2. TypeOK'
    BY <1>0, <2>1 DEF TypeOK
  <2>3. Collected'
    BY <1>0, <2>1, ResultSame DEF Collected
  <2> QED
    BY <1>1, <2>2, <2>3 DEF IInv
<1> QED
  BY <1>2, <1>3, <1>4, <1>5, <1>6, <1>7, <1>8 DEF Next

LEMMA Invariance == Spec => []IInv
BY IInvInit, IInvStep, PTL DEF Spec

\* TypeOK of module Doh.
THEOREM TypeCorrect == Spec => []TypeOK
<1>1. IInv => TypeOK
  BY DEF IInv
<1> QED
  BY <1>1, Invariance, PTL

-----------------------------------------------------------------------------
(* One step of the reading of a name                                       *)

\* A label and its dot, before the rest.
Labelled(w, label, rest) ==
  /\ Len(w) = Len(label) + 1 + Len(rest)
  /\ \A j \in Nat : j < Len(label) => At(w, j) = At(label, j)
  /\ At(w, Len(label)) = DOT
  /\ \A j \in Nat : At(w, Len(label) + 1 + j) = At(rest, j)

LEMMA LabelledIs ==
  ASSUME NEW label \in Seq(Byte), NEW rest \in Seq(Byte)
  PROVE  /\ label \o <<DOT>> \o rest \in Seq(Byte)
         /\ Labelled(label \o <<DOT>> \o rest, label, rest)
<1>1. PICK dot \in Seq(Byte) : dot = <<DOT>>
  <2>1. <<DOT>> \in Seq(Byte)
    BY DEF DOT, Byte
  <2> QED
    BY <2>1
<1>2. Len(dot) = 1 /\ At(dot, 0) = DOT
  BY <1>1 DEF At
<1>3. PICK n \in Nat : n = Len(label)
  OBVIOUS
<1>4. PICK front \in Seq(Byte) : front = label \o dot
  BY JoinIs
<1>5. /\ Len(front) = n + 1
      /\ \A i \in Nat : At(front, i) = IF i < n THEN At(label, i) ELSE At(dot, i - n)
  <2>1. /\ Len(front) = Len(label) + Len(dot)
        /\ \A i \in Nat : At(front, i) = IF i < Len(label) THEN At(label, i)
                                         ELSE At(dot, i - Len(label))
    BY <1>4, JoinIs
  <2> QED
    BY <2>1, <1>2, <1>3
<1>6. PICK w \in Seq(Byte) : w = front \o rest
  BY JoinIs
<1>7. /\ Len(w) = n + 1 + Len(rest)
      /\ \A i \in Nat : At(w, i) = IF i < n + 1 THEN At(front, i) ELSE At(rest, i - (n + 1))
  <2>1. /\ Len(w) = Len(front) + Len(rest)
        /\ \A i \in Nat : At(w, i) = IF i < Len(front) THEN At(front, i)
                                     ELSE At(rest, i - Len(front))
    BY <1>6, JoinIs
  <2> QED
    BY <2>1, <1>5
<1>8. \A j \in Nat : j < n => At(w, j) = At(label, j)
  <2> SUFFICES ASSUME NEW j \in Nat, j < n PROVE At(w, j) = At(label, j)
    OBVIOUS
  <2>1. j < n + 1
    OBVIOUS
  <2> QED
    BY <2>1, <1>5, <1>7
<1>9. At(w, n) = DOT
  <2>1. n < n + 1 /\ ~(n < n) /\ n - n = 0
    OBVIOUS
  <2>2. At(w, n) = At(front, n) /\ At(front, n) = At(dot, n - n)
    BY <2>1, <1>5, <1>7
  <2> QED
    BY <2>1, <2>2, <1>2
<1>10. \A j \in Nat : At(w, n + 1 + j) = At(rest, j)
  <2> SUFFICES ASSUME NEW j \in Nat PROVE At(w, n + 1 + j) = At(rest, j)
    OBVIOUS
  <2>1. PICK i \in Nat : i = n + 1 + j
    OBVIOUS
  <2>2. ~(i < n + 1) /\ i - (n + 1) = j
    BY <2>1
  <2> QED
    BY <2>1, <2>2, <1>7
<1>11. w = label \o <<DOT>> \o rest
  BY <1>1, <1>4, <1>6
<1>12. Labelled(w, label, rest)
  BY <1>3, <1>7, <1>8, <1>9, <1>10 DEF Labelled
<1> QED
  BY <1>11, <1>12

\* What a label of n bytes at index i adds to the rest.
LabelAdds(msg, i, d, n, r, rest) ==
  /\ r.ok = rest.ok
  /\ r.used = rest.used + IF d = 0 THEN n + 1 ELSE 0
  /\ Len(r.name) = n + 1 + Len(rest.name)
  /\ \A j \in Nat : j < n => At(r.name, j) = At(msg, i + 1 + j)
  /\ At(r.name, n) = DOT
  /\ \A j \in Nat : At(r.name, n + 1 + j) = At(rest.name, j)

\* A label that is all in the message.
LEMMA LabelRead ==
  ASSUME NEW msg \in Seq(Byte), NEW f \in [Places(msg) -> Named], Reads(f, msg),
         NEW i \in Nat, NEW d \in 0 .. 10, NEW n \in 1 .. 63,
         At(msg, i) = n, n + i + 1 <= Len(msg)
  PROVE  /\ f[<<i, d>>] \in Named /\ f[<<i + n + 1, d>>] \in Named
         /\ LabelAdds(msg, i, d, n, f[<<i, d>>], f[<<i + n + 1, d>>])
<1>1. PICK L \in Nat : L = Len(msg) /\ n + i + 1 <= L
  OBVIOUS
<1>2. i \in 0 .. Len(msg) /\ i + n + 1 \in 0 .. Len(msg)
  BY <1>1
<1>3. ~IsPointer(msg, i) /\ IsLabel(msg, i) /\ ~Ends(msg, i, d)
  BY <1>1 DEF IsPointer, IsLabel, Ends, dns_max_label
<1>4. Follow(msg, i, d) = <<i + n + 1, d>>
  BY <1>3 DEF Follow
<1>5. <<i, d>> \in Places(msg) /\ <<i + n + 1, d>> \in Places(msg)
  BY <1>2 DEF Places
<1>6. PICK rest \in Named : rest = f[<<i + n + 1, d>>]
  BY <1>5
<1>7. PICK r \in Named : r = f[<<i, d>>]
  BY <1>5
<1>8. r = Before(msg, i, d, rest)
  BY <1>2, <1>3, <1>4, <1>6, <1>7 DEF Reads
<1>9. PICK label \in Seq(Byte) : label = Bytes(msg, i + 1, n)
  BY <1>1, BytesIs
<1>10. Len(label) = n /\ \A j \in 0 .. n - 1 : At(label, j) = At(msg, i + 1 + j)
  BY <1>1, <1>9, BytesIs
<1>11. PICK tail \in Seq(Byte) : tail = rest.name
  BY DEF Named
<1>12. PICK k \in Nat : k = IF d = 0 THEN n + 1 ELSE 0
  OBVIOUS
<1>13. r = [ok |-> rest.ok, name |-> label \o <<DOT>> \o tail, used |-> rest.used + k]
  BY <1>3, <1>8, <1>9, <1>11, <1>12 DEF Before
<1>14. r.ok = rest.ok /\ r.name = label \o <<DOT>> \o tail /\ r.used = rest.used + k
  BY <1>13
<1>15. Labelled(r.name, label, tail)
  BY <1>14, LabelledIs
<1>16. /\ Len(r.name) = n + 1 + Len(tail)
       /\ At(r.name, n) = DOT
       /\ \A j \in Nat : At(r.name, n + 1 + j) = At(tail, j)
  BY <1>10, <1>15 DEF Labelled
<1>17. \A j \in Nat : j < n => At(r.name, j) = At(msg, i + 1 + j)
  <2> SUFFICES ASSUME NEW j \in Nat, j < n PROVE At(r.name, j) = At(msg, i + 1 + j)
    OBVIOUS
  <2>1. j \in 0 .. n - 1 /\ j < Len(label)
    BY <1>10
  <2>2. At(r.name, j) = At(label, j)
    BY <2>1, <1>15 DEF Labelled
  <2> QED
    BY <2>1, <2>2, <1>10
<1> QED
  <2>1. LabelAdds(msg, i, d, n, r, rest)
    BY <1>11, <1>12, <1>14, <1>16, <1>17 DEF LabelAdds
  <2> QED
    BY <2>1, <1>6, <1>7

\* What a pointer at depth d adds to the rest.
PointerAdds(d, r, rest) ==
  r.ok = rest.ok /\ r.name = rest.name /\ r.used = rest.used + Used(d)

\* A pointer whose second byte is a place of the message.
LEMMA PointerRead ==
  ASSUME NEW msg \in Seq(Byte), NEW f \in [Places(msg) -> Named], Reads(f, msg),
         NEW i \in Nat, NEW d \in 0 .. 9, At(msg, i) > 63, i + 1 < Len(msg),
         NEW p \in Nat, At(msg, i + 1) = p, p < Len(msg)
  PROVE  /\ f[<<i, d>>] \in Named /\ f[<<p, d + 1>>] \in Named
         /\ PointerAdds(d, f[<<i, d>>], f[<<p, d + 1>>])
<1>1. PICK L \in Nat : L = Len(msg) /\ i + 1 < L /\ p < L
  OBVIOUS
<1>2. i \in 0 .. Len(msg) /\ p \in 0 .. Len(msg) /\ d \in 0 .. 10 /\ d + 1 \in 0 .. 10
  BY <1>1
<1>3. PICK a \in Nat : a = At(msg, i) /\ a > 63
  BY AtNat
<1>4. IsPointer(msg, i) /\ ~IsLabel(msg, i) /\ a # 0 /\ d # 10
  BY <1>3 DEF IsPointer, IsLabel, dns_max_label
<1>5. ~Ends(msg, i, d)
  BY <1>1, <1>3, <1>4 DEF Ends
<1>6. Follow(msg, i, d) = <<p, d + 1>>
  BY <1>4 DEF Follow
<1>7. <<i, d>> \in Places(msg) /\ <<p, d + 1>> \in Places(msg)
  BY <1>2 DEF Places
<1>8. PICK rest \in Named : rest = f[<<p, d + 1>>]
  BY <1>7
<1>9. PICK r \in Named : r = f[<<i, d>>]
  BY <1>7
<1>10. r = Before(msg, i, d, rest)
  BY <1>2, <1>5, <1>6, <1>8, <1>9 DEF Reads
<1>11. r = [rest EXCEPT !.used = @ + Used(d)]
  BY <1>4, <1>10 DEF Before
<1>12. r.ok = rest.ok /\ r.name = rest.name /\ r.used = rest.used + Used(d)
  BY <1>11 DEF Named
<1>13. PointerAdds(d, r, rest)
  BY <1>12 DEF PointerAdds
<1> QED
  BY <1>8, <1>9, <1>13

-----------------------------------------------------------------------------
(* A name that is spelled in a message                                     *)

Dotted(h) == h \o <<DOT>>

LEMMA DottedIs ==
  ASSUME NEW h \in Seq(Byte)
  PROVE  /\ Dotted(h) \in Seq(Byte) /\ Len(Dotted(h)) = Len(h) + 1
         /\ \A j \in Nat : j < Len(h) => At(Dotted(h), j) = h[j + 1]
         /\ At(Dotted(h), Len(h)) = DOT
<1>1. PICK dot \in Seq(Byte) : dot = <<DOT>>
  <2>1. <<DOT>> \in Seq(Byte)
    BY DEF DOT, Byte
  <2> QED
    BY <2>1
<1>2. Len(dot) = 1 /\ At(dot, 0) = DOT
  BY <1>1 DEF At
<1>3. PICK n \in Nat : n = Len(h)
  OBVIOUS
<1>4. PICK z \in Seq(Byte) : z = h \o dot
  BY JoinIs
<1>5. /\ Len(z) = Len(h) + Len(dot)
      /\ \A i \in Nat : At(z, i) = IF i < Len(h) THEN At(h, i) ELSE At(dot, i - Len(h))
  BY <1>4, JoinIs
<1>6. /\ Len(z) = n + 1
      /\ \A i \in Nat : At(z, i) = IF i < n THEN At(h, i) ELSE At(dot, i - n)
  BY <1>2, <1>3, <1>5
<1>7. \A j \in Nat : j < n => At(z, j) = h[j + 1]
  BY <1>3, <1>6 DEF At
<1>8. At(z, n) = DOT
  <2>1. ~(n < n) /\ n - n = 0
    OBVIOUS
  <2>2. At(z, n) = At(dot, n - n)
    BY <2>1, <1>6
  <2> QED
    BY <2>1, <2>2, <1>2
<1>9. z = Dotted(h)
  BY <1>1, <1>4 DEF Dotted
<1> QED
  BY <1>3, <1>6, <1>7, <1>8, <1>9

\* What is read from place c of the name z on.
ReadFrom(r, z, c, d) ==
  /\ r.ok
  /\ Len(r.name) = Len(z) - c
  /\ \A j \in Nat : c + j < Len(z) => At(r.name, j) = At(z, c + j)
  /\ r.used = IF d = 0 THEN Len(z) - c ELSE 0

\* One label more.
LEMMA CutRead ==
  ASSUME NEW msg \in Seq(Byte), NEW f \in [Places(msg) -> Named], Reads(f, msg),
         NEW h \in Seq(Byte), InDns(h), NEW b \in Nat, Holds(msg, b, Spelled(h)),
         NEW d \in 0 .. 10, NEW c \in Cuts(h),
         \A e \in Cuts(h) \cup {Len(h) + 1} :
           e > c => ReadFrom(f[<<b + e, d>>], Dotted(h), e, d)
  PROVE  ReadFrom(f[<<b + c, d>>], Dotted(h), c, d)
<1>1. PICK n \in 1 .. 63 :
           /\ c \in Nat /\ c + n <= Len(h)
           /\ c + n < Len(h) => c + n + 1 \in Cuts(h)
           /\ At(Spelled(h), c) = n
           /\ \A j \in 1 .. n : At(Spelled(h), c + j) = h[c + j]
  BY CutIs
<1>2. PICK N \in Nat : N = Len(h) /\ c \in Nat /\ c + n <= N
  BY <1>1
<1>3. PICK w \in Seq(Byte) : w = Spelled(h) /\ Len(w) = N + 2
  BY <1>2, SpelledIs
<1>4. Holds(msg, b, w)
  BY <1>3
<1>5. PICK L \in Nat : L = Len(msg) /\ b + N + 2 <= L
  BY <1>3, <1>4 DEF Holds
<1>6. PICK i \in Nat : i = b + c
  BY <1>1
<1>7. \A j \in Nat : c + j <= N => At(msg, i + j) = At(w, c + j)
  <2> SUFFICES ASSUME NEW j \in Nat, c + j <= N PROVE At(msg, i + j) = At(w, c + j)
    OBVIOUS
  <2>1. PICK k \in Nat : k = c + j /\ k < Len(w)
    BY <1>1, <1>3
  <2>2. At(msg, b + k) = At(w, k)
    BY <2>1, <1>4, HoldsAt
  <2>3. b + k = i + j
    BY <2>1, <1>1, <1>6
  <2> QED
    BY <2>1, <2>2, <2>3
<1>8. At(msg, i) = n /\ n + i + 1 <= Len(msg)
  <2>1. At(msg, b + c) = At(w, c)
    <3>1. c < Len(w)
      BY <1>2, <1>3
    <3> QED
      BY <3>1, <1>2, <1>4, HoldsAt
  <2>2. At(w, c) = n
    BY <1>1, <1>3
  <2>3. At(msg, i) = n
    BY <2>1, <2>2, <1>6
  <2>4. n + i + 1 <= L
    BY <1>1, <1>2, <1>5, <1>6
  <2> QED
    BY <2>3, <2>4, <1>5
<1>9. PICK e \in Nat : e = c + n + 1 /\ e > c /\ b + e = i + n + 1 /\ e <= N + 1
  BY <1>2, <1>6
<1>10. e \in Cuts(h) \cup {Len(h) + 1}
  BY <1>1, <1>2, <1>9
<1>11. PICK r \in Named, rest \in Named :
           /\ r = f[<<i, d>>] /\ rest = f[<<i + n + 1, d>>]
           /\ LabelAdds(msg, i, d, n, r, rest)
  BY <1>8, LabelRead
<1>12. PICK z \in Seq(Byte) : z = Dotted(h) /\ Len(z) = N + 1
  BY <1>2, DottedIs
<1>13. ReadFrom(rest, z, e, d)
  BY <1>9, <1>10, <1>11, <1>12
<1>14. /\ rest.ok /\ Len(rest.name) = N + 1 - e
       /\ rest.used = IF d = 0 THEN N + 1 - e ELSE 0
       /\ \A j \in Nat : e + j < N + 1 => At(rest.name, j) = At(z, e + j)
  BY <1>12, <1>13 DEF ReadFrom
<1>15. r.ok /\ Len(r.name) = N + 1 - c
  <2>1. r.ok = rest.ok /\ Len(r.name) = n + 1 + Len(rest.name)
    BY <1>11 DEF LabelAdds
  <2> QED
    BY <2>1, <1>2, <1>9, <1>14
<1>16. r.used = IF d = 0 THEN N + 1 - c ELSE 0
  <2>1. r.used = rest.used + IF d = 0 THEN n + 1 ELSE 0
    BY <1>11 DEF LabelAdds
  <2> QED
    BY <2>1, <1>2, <1>9, <1>14
<1>17. \A j \in Nat : c + j < N + 1 => At(r.name, j) = At(z, c + j)
  <2> SUFFICES ASSUME NEW j \in Nat, c + j < N + 1 PROVE At(r.name, j) = At(z, c + j)
    OBVIOUS
  <2>1. CASE j < n
    <3>1. PICK q \in Nat : q = c + j /\ q < N /\ q < Len(h)
      BY <2>1, <1>1, <1>2
    <3>2. At(z, q) = h[q + 1]
      BY <3>1, <1>12, DottedIs
    <3>3. PICK p \in 1 .. n : p = 1 + j
      BY <2>1
    <3>4. c + p = q + 1 /\ c + p <= N /\ i + 1 + j = i + p /\ p \in Nat
      BY <3>1, <3>3, <1>2, <1>6
    <3>5. At(w, c + p) = h[c + p]
      BY <1>1, <1>3
    <3>6. At(msg, i + p) = At(w, c + p)
      BY <3>4, <1>7
    <3>7. At(r.name, j) = At(msg, i + 1 + j)
      BY <2>1, <1>11 DEF LabelAdds
    <3> QED
      BY <3>1, <3>2, <3>4, <3>5, <3>6, <3>7
  <2>2. CASE j = n
    <3>1. PICK q \in Nat : q = c + n /\ q <= N
      BY <1>1, <1>2
    <3>2. At(z, q) = DOT
      <4>1. CASE q < N
        <5>1. q + 1 \in Cuts(h) /\ q + 1 # 0
          BY <3>1, <4>1, <1>1, <1>2
        <5>2. h[q + 1] = DOT
          BY <5>1 DEF Cuts
        <5> QED
          BY <4>1, <5>2, <1>2, <1>12, DottedIs
      <4>2. CASE q = N
        BY <4>2, <1>2, <1>12, DottedIs
      <4> QED
        BY <3>1, <4>1, <4>2
    <3>3. At(r.name, n) = DOT
      BY <1>11 DEF LabelAdds
    <3> QED
      BY <2>2, <3>1, <3>2, <3>3
  <2>3. CASE j > n
    <3>1. PICK k \in Nat : k = j - (n + 1)
      BY <2>3
    <3>2. j = n + 1 + k /\ c + j = e + k /\ e + k < N + 1
      BY <3>1, <1>2, <1>9
    <3>3. At(r.name, n + 1 + k) = At(rest.name, k)
      BY <1>11 DEF LabelAdds
    <3>4. At(rest.name, k) = At(z, e + k)
      BY <3>2, <1>14
    <3> QED
      BY <3>2, <3>3, <3>4
  <2> QED
    BY <2>1, <2>2, <2>3
<1>18. ReadFrom(r, z, c, d)
  <2>1. Len(z) - c = N + 1 - c
    BY <1>2, <1>12
  <2>2. \A j \in Nat : c + j < Len(z) => At(r.name, j) = At(z, c + j)
    BY <1>12, <1>17
  <2> QED
    BY <2>1, <2>2, <1>15, <1>16 DEF ReadFrom
<1> QED
  BY <1>6, <1>11, <1>12, <1>18

\* The name of h is what is read at index i, with k bytes.
HasName(f, i, d, h, k) ==
  f[<<i, d>>] \in Named /\ f[<<i, d>>].ok /\ f[<<i, d>>].name = Dotted(h) /\ f[<<i, d>>].used = k

\* All of the name, at any depth.
LEMMA NameRead ==
  ASSUME NEW msg \in Seq(Byte), NEW f \in [Places(msg) -> Named], Reads(f, msg),
         NEW h \in Seq(Byte), InDns(h), NEW b \in Nat, Holds(msg, b, Spelled(h)),
         NEW d \in 0 .. 10, NEW k, k = IF d = 0 THEN Len(h) + 1 ELSE 0
  PROVE  HasName(f, b, d, h, k)
<1>1. PICK N \in Nat : N = Len(h)
  OBVIOUS
<1>2. PICK w \in Seq(Byte) : w = Spelled(h) /\ Len(w) = N + 2 /\ At(w, N + 1) = 0
  BY <1>1, SpelledIs
<1>3. Holds(msg, b, w)
  BY <1>2
<1>4. PICK L \in Nat : L = Len(msg) /\ b + N + 2 <= L
  BY <1>2, <1>3 DEF Holds
<1>5. PICK z \in Seq(Byte) : z = Dotted(h) /\ Len(z) = N + 1
  BY <1>1, DottedIs
<1>6. ReadFrom(f[<<b + (N + 1), d>>], z, N + 1, d)
  <2>1. PICK i \in Nat : i = b + (N + 1) /\ i \in 0 .. Len(msg)
    BY <1>4
  <2>2. At(msg, i) = 0
    <3>1. PICK c \in Nat : c = N + 1 /\ c < Len(w)
      BY <1>2
    <3>2. c < Len(w)
      BY <3>1
    <3>3. At(msg, b + c) = At(w, c)
      BY <3>2, <1>3, HoldsAt
    <3> QED
      BY <2>1, <3>1, <3>3, <1>2
  <2>3. Ends(msg, i, d) /\ End(msg, i) = [ok |-> TRUE, name |-> <<>>, used |-> 0]
    BY <2>2 DEF Ends, End
  <2>4. f[<<i, d>>] = [ok |-> TRUE, name |-> <<>>, used |-> 0]
    BY <2>1, <2>3 DEF Reads
  <2>5. PICK r : r = [ok |-> TRUE, name |-> <<>>, used |-> 0]
    OBVIOUS
  <2>6. r.ok /\ Len(r.name) = 0 /\ r.used = 0
    BY <2>5
  <2>7. Len(z) - (N + 1) = 0 /\ \A j \in Nat : ~(N + 1 + j < Len(z))
    BY <1>5
  <2>8. ReadFrom(r, z, N + 1, d)
    BY <2>6, <2>7 DEF ReadFrom
  <2> QED
    BY <2>1, <2>4, <2>5, <2>8
<1> DEFINE X == Cuts(h) \cup {N + 1}
           S == {c \in X : ReadFrom(f[<<b + c, d>>], z, c, d)}
<1>7. \A c \in X : c \in 0 .. N + 1
  BY <1>1 DEF Cuts
<1>8. PICK m \in [X -> Nat] : m = [c \in X |-> N + 1 - c]
  <2>1. \A c \in X : N + 1 - c \in Nat
    BY <1>7
  <2> QED
    BY <2>1
<1>9. \A x \in X : (\A y \in X : m[y] < m[x] => y \in S) => x \in S
  <2> SUFFICES ASSUME NEW x \in X, \A y \in X : m[y] < m[x] => y \in S PROVE x \in S
    OBVIOUS
  <2>1. CASE x = N + 1
    BY <2>1, <1>6
  <2>2. CASE x \in Cuts(h)
    <3>1. \A e \in X : e > x => ReadFrom(f[<<b + e, d>>], z, e, d)
      <4> SUFFICES ASSUME NEW e \in X, e > x PROVE ReadFrom(f[<<b + e, d>>], z, e, d)
        OBVIOUS
      <4>1. e \in 0 .. N + 1 /\ x \in 0 .. N + 1
        BY <1>7
      <4>2. m[e] = N + 1 - e /\ m[x] = N + 1 - x
        BY <1>8
      <4>3. e \in S
        BY <4>1, <4>2
      <4> QED
        BY <4>3
    <3>2. \A e \in Cuts(h) \cup {Len(h) + 1} : e > x => ReadFrom(f[<<b + e, d>>], Dotted(h), e, d)
      BY <3>1, <1>1, <1>5
    <3>3. ReadFrom(f[<<b + x, d>>], Dotted(h), x, d)
      BY <2>2, <3>2, CutRead
    <3> QED
      BY <3>3, <1>5
  <2> QED
    BY <2>1, <2>2
<1>10. \A x \in X : x \in S
  <2> HIDE DEF X, S
  <2> QED
    BY <1>9, Descent
<1>11. 0 \in X /\ b + 0 = b
  BY DEF Cuts
<1>12. b \in 0 .. Len(msg)
  BY <1>4
<1>13. PICK r \in Named : r = f[<<b, d>>]
  BY <1>12 DEF Places
<1>14. ReadFrom(r, z, 0, d)
  BY <1>10, <1>11, <1>13
<1>15. /\ r.ok /\ Len(r.name) = Len(z)
       /\ \A j \in Nat : j < Len(z) => At(r.name, j) = At(z, j)
       /\ r.used = IF d = 0 THEN N + 1 ELSE 0
  BY <1>5, <1>14 DEF ReadFrom
<1>16. PICK t \in Seq(Byte) : t = r.name
  BY DEF Named
<1>17. t = z
  <2>1. Len(t) = Len(z) /\ \A i \in 0 .. Len(t) - 1 : At(t, i) = At(z, i)
    BY <1>15, <1>16
  <2> QED
    BY <2>1, SameBytes
<1>18. r.used = k
  BY <1>1, <1>15
<1> QED
  BY <1>5, <1>13, <1>15, <1>16, <1>17, <1>18 DEF HasName

LEMMA NameTop ==
  ASSUME NEW msg \in Seq(Byte), NEW f \in [Places(msg) -> Named], Reads(f, msg),
         NEW h \in Seq(Byte), InDns(h), NEW b \in Nat, Holds(msg, b, Spelled(h))
  PROVE  HasName(f, b, 0, h, Len(h) + 1)
<1>1. PICK d \in 0 .. 10 : d = 0
  OBVIOUS
<1>2. PICK k : k = Len(h) + 1
  OBVIOUS
<1>3. k = IF d = 0 THEN Len(h) + 1 ELSE 0
  BY <1>1, <1>2
<1>4. HasName(f, b, d, h, k)
  BY <1>3, NameRead
<1> QED
  BY <1>1, <1>2, <1>4

LEMMA NameDeep ==
  ASSUME NEW msg \in Seq(Byte), NEW f \in [Places(msg) -> Named], Reads(f, msg),
         NEW h \in Seq(Byte), InDns(h), NEW b \in Nat, Holds(msg, b, Spelled(h)),
         NEW d \in 1 .. 10
  PROVE  HasName(f, b, d, h, 0)
<1>1. PICK k : k = 0
  OBVIOUS
<1>2. d \in 0 .. 10 /\ k = IF d = 0 THEN Len(h) + 1 ELSE 0
  BY <1>1
<1>3. HasName(f, b, d, h, k)
  BY <1>2, NameRead
<1> QED
  BY <1>1, <1>3

\* At index i is a pointer to place p of the message.
PointsTo(msg, i, p) ==
  At(msg, i) > 63 /\ i + 1 < Len(msg) /\ At(msg, i + 1) = p /\ p < Len(msg)

LEMMA NameBehind ==
  ASSUME NEW msg \in Seq(Byte), NEW f \in [Places(msg) -> Named], Reads(f, msg),
         NEW h \in Seq(Byte), NEW i \in Nat, NEW p \in Nat, PointsTo(msg, i, p),
         NEW d \in 0 .. 9, NEW e \in 1 .. 10, e = d + 1, HasName(f, p, e, h, 0)
  PROVE  HasName(f, i, d, h, Used(d))
<1>1. /\ f[<<i, d>>] \in Named /\ f[<<p, d + 1>>] \in Named
      /\ PointerAdds(d, f[<<i, d>>], f[<<p, d + 1>>])
  <2>1. At(msg, i) > 63 /\ i + 1 < Len(msg) /\ At(msg, i + 1) = p /\ p < Len(msg)
    BY DEF PointsTo
  <2> QED
    BY <2>1, PointerRead
<1>2. PICK r \in Named, rest \in Named : r = f[<<i, d>>] /\ rest = f[<<p, e>>]
  BY <1>1
<1>3. r.ok = rest.ok /\ r.name = rest.name /\ r.used = rest.used + Used(d)
  BY <1>1, <1>2 DEF PointerAdds
<1>4. rest.ok /\ rest.name = Dotted(h) /\ rest.used = 0
  BY <1>2 DEF HasName
<1>5. PICK u \in Nat : u = Used(d)
  BY DEF Used
<1>6. r.used = u
  BY <1>3, <1>4, <1>5
<1> QED
  BY <1>2, <1>3, <1>4, <1>5, <1>6 DEF HasName

\* The name of the host is read at index i, where it takes k bytes.
IsName(msg, i, h, k) ==
  /\ qname2host(msg, i).ok
  /\ qname2host(msg, i).name = Dotted(h)
  /\ qname2host(msg, i).used = k

\* The byte that is added to what a name takes.
LEMMA WholeIs ==
  ASSUME NEW h \in Seq(Byte), Len(h) <= 254, NEW r \in Named, r.ok, r.name = Dotted(h)
  PROVE  Whole(r).ok /\ Whole(r).name = Dotted(h) /\ Whole(r).used = r.used + 1
<1>1. PICK z \in Seq(Byte) : z = Dotted(h) /\ Len(z) = Len(h) + 1
  BY DottedIs
<1>2. Len(z) <= 255 /\ Len(z) # 0
  BY <1>1
<1>3. z # <<>>
  BY <1>2
<1>4. ~(Len(r.name) > 255) /\ r.name # <<>>
  BY <1>1, <1>2, <1>3
<1>5. Whole(r) = [r EXCEPT !.used = @ + 1]
  BY <1>4 DEF Whole
<1> QED
  BY <1>5 DEF Named

\* The name itself.
LEMMA NameSpelled ==
  ASSUME NEW msg \in Seq(Byte), NEW h \in Seq(Byte), InDns(h), Len(h) <= 254,
         NEW i \in Nat, Holds(msg, i, Spelled(h))
  PROVE  i \in 0 .. Len(msg) /\ IsName(msg, i, h, Len(h) + 2)
<1>1. PICK f \in [Places(msg) -> Named] : Reads(f, msg)
  BY ReadIs
<1>2. PICK r \in Named : r = f[<<i, 0>>] /\ r.ok /\ r.name = Dotted(h)
                          /\ r.used = Len(h) + 1
  BY <1>1, NameTop DEF HasName
<1>3. i \in 0 .. Len(msg)
  <2>1. PICK w \in Seq(Byte) : w = Spelled(h)
    BY SpelledIs
  <2> QED
    BY <2>1 DEF Holds
<1>4. qname2host(msg, i) = Whole(r)
  BY <1>1, <1>2, <1>3 DEF Reads
<1>5. Whole(r).ok /\ Whole(r).name = Dotted(h) /\ Whole(r).used = r.used + 1
  BY <1>2, WholeIs
<1>6. Whole(r).used = Len(h) + 2
  BY <1>2, <1>5
<1> QED
  BY <1>3, <1>4, <1>5, <1>6 DEF IsName

\* A pointer to the name.
LEMMA NamePointed ==
  ASSUME NEW msg \in Seq(Byte), NEW h \in Seq(Byte), InDns(h), Len(h) <= 254,
         NEW i \in Nat, NEW p \in Nat, PointsTo(msg, i, p), Holds(msg, p, Spelled(h))
  PROVE  IsName(msg, i, h, 2)
<1>1. PICK f \in [Places(msg) -> Named] : Reads(f, msg)
  BY ReadIs
<1>2. PICK d \in 0 .. 9, e \in 1 .. 10 : d = 0 /\ e = d + 1
  OBVIOUS
<1>3. PICK r \in Named : r = f[<<i, 0>>] /\ r.ok /\ r.name = Dotted(h) /\ r.used = 1
  <2>1. HasName(f, p, e, h, 0)
    BY <1>1, NameDeep
  <2>2. HasName(f, i, d, h, Used(d))
    BY <1>1, <1>2, <2>1, NameBehind
  <2>3. Used(d) = 1
    BY <1>2 DEF Used
  <2>4. HasName(f, i, 0, h, 1)
    BY <1>2, <2>2, <2>3
  <2> QED
    BY <2>4 DEF HasName
<1>4. i \in 0 .. Len(msg)
  BY DEF PointsTo
<1>5. qname2host(msg, i) = Whole(r)
  BY <1>1, <1>3, <1>4 DEF Reads
<1>6. Whole(r).ok /\ Whole(r).name = Dotted(h) /\ Whole(r).used = r.used + 1
  BY <1>3, WholeIs
<1>7. Whole(r).used = 2
  BY <1>3, <1>6
<1> QED
  BY <1>5, <1>6, <1>7 DEF IsName

\* A pointer to a pointer to the name.
LEMMA NameChained ==
  ASSUME NEW msg \in Seq(Byte), NEW h \in Seq(Byte), InDns(h), Len(h) <= 254,
         NEW i \in Nat, NEW p \in Nat, NEW q \in Nat,
         PointsTo(msg, i, p), PointsTo(msg, p, q), Holds(msg, q, Spelled(h))
  PROVE  IsName(msg, i, h, 2)
<1>1. PICK f \in [Places(msg) -> Named] : Reads(f, msg)
  BY ReadIs
<1>2. PICK d \in 0 .. 9, e \in 1 .. 10 : d = 0 /\ e = d + 1
  OBVIOUS
<1>3. PICK g \in 1 .. 10 : g = e + 1 /\ e \in 0 .. 9 /\ Used(e) = 0
  BY <1>2 DEF Used
<1>4. PICK r \in Named : r = f[<<i, 0>>] /\ r.ok /\ r.name = Dotted(h) /\ r.used = 1
  <2>1. HasName(f, q, g, h, 0)
    BY <1>1, NameDeep
  <2>2. HasName(f, p, e, h, Used(e))
    BY <1>1, <1>3, <2>1, NameBehind
  <2>3. HasName(f, p, e, h, 0)
    BY <1>3, <2>2
  <2>4. HasName(f, i, d, h, Used(d))
    BY <1>1, <1>2, <2>3, NameBehind
  <2>5. Used(d) = 1
    BY <1>2 DEF Used
  <2>6. HasName(f, i, 0, h, 1)
    BY <1>2, <2>4, <2>5
  <2> QED
    BY <2>6 DEF HasName
<1>5. i \in 0 .. Len(msg)
  BY DEF PointsTo
<1>6. qname2host(msg, i) = Whole(r)
  BY <1>1, <1>4, <1>5 DEF Reads
<1>7. Whole(r).ok /\ Whole(r).name = Dotted(h) /\ Whole(r).used = r.used + 1
  BY <1>4, WholeIs
<1>8. Whole(r).used = 2
  BY <1>4, <1>7
<1> QED
  BY <1>6, <1>7, <1>8 DEF IsName

\* The root.
LEMMA RootRead ==
  ASSUME NEW msg \in Seq(Byte), NEW i \in 0 .. Len(msg), At(msg, i) = 0
  PROVE  qname2host(msg, i) = [ok |-> TRUE, name |-> <<>>, used |-> 0]
<1>1. PICK f \in [Places(msg) -> Named] : Reads(f, msg)
  BY ReadIs
<1>2. f[<<i, 0>>] = [ok |-> TRUE, name |-> <<>>, used |-> 0]
  <2>1. Ends(msg, i, 0) /\ End(msg, i) = [ok |-> TRUE, name |-> <<>>, used |-> 0]
    BY DEF Ends, End
  <2>2. PICK d \in 0 .. 10 : d = 0
    OBVIOUS
  <2>3. f[<<i, d>>] = IF Ends(msg, i, d) THEN End(msg, i)
                      ELSE Before(msg, i, d, f[Follow(msg, i, d)])
    BY <1>1 DEF Reads
  <2> QED
    BY <2>1, <2>2, <2>3
<1>3. PICK r : r = [ok |-> TRUE, name |-> <<>>, used |-> 0]
  OBVIOUS
<1>4. r.ok /\ r.name = <<>> /\ ~(Len(r.name) > 255)
  BY <1>3
<1>5. Whole(r) = r
  BY <1>4 DEF Whole
<1>6. qname2host(msg, i) = Whole(f[<<i, 0>>])
  BY <1>1 DEF Reads
<1> QED
  BY <1>2, <1>3, <1>5, <1>6

-----------------------------------------------------------------------------
(* Capitals                                                                *)

Low(b) == IF b \in 65 .. 90 THEN b + 32 ELSE b
High(b) == IF b \in 97 .. 122 THEN b - 32 ELSE b

LEMMA LowerIs ==
  ASSUME NEW s \in Seq(Byte)
  PROVE  /\ DOMAIN lcs(s) = 1 .. Len(s)
         /\ \A i \in 1 .. Len(s) : lcs(s)[i] = Low(s[i])
<1>1. DOMAIN s = 1 .. Len(s)
  OBVIOUS
<1> QED
  BY <1>1 DEF lcs, Low

\* Texts that are the same in small letters.
LEMMA SameLower ==
  ASSUME NEW s \in Seq(Byte), NEW t \in Seq(Byte)
  PROVE  lcs(s) = lcs(t) <=>
           Len(s) = Len(t) /\ \A i \in 1 .. Len(s) : Low(s[i]) = Low(t[i])
<1>1. ASSUME lcs(s) = lcs(t)
      PROVE  Len(s) = Len(t) /\ \A i \in 1 .. Len(s) : Low(s[i]) = Low(t[i])
  <2>1. 1 .. Len(s) = 1 .. Len(t)
    BY <1>1, LowerIs
  <2>2. Len(s) = Len(t)
    BY <2>1
  <2> QED
    BY <1>1, <2>2, LowerIs
<1>2. ASSUME Len(s) = Len(t), \A i \in 1 .. Len(s) : Low(s[i]) = Low(t[i])
      PROVE  lcs(s) = lcs(t)
  <2>1. DOMAIN s = 1 .. Len(s) /\ DOMAIN t = 1 .. Len(s)
    BY <1>2
  <2>2. lcs(s) = [i \in 1 .. Len(s) |-> Low(s[i])]
    BY <2>1 DEF lcs, Low
  <2>3. lcs(t) = [i \in 1 .. Len(s) |-> Low(t[i])]
    BY <2>1 DEF lcs, Low
  <2> QED
    BY <1>2, <2>2, <2>3
<1> QED
  BY <1>1, <1>2

\* The dot behind a name is no part of the comparison.
LEMMA DottedLower ==
  ASSUME NEW s \in Seq(Byte), NEW t \in Seq(Byte)
  PROVE  lcs(Dotted(s)) = lcs(Dotted(t)) <=> lcs(s) = lcs(t)
<1>1. PICK y \in Seq(Byte) : /\ y = Dotted(s) /\ Len(y) = Len(s) + 1
                             /\ \A j \in Nat : j < Len(s) => At(y, j) = s[j + 1]
                             /\ At(y, Len(s)) = DOT
  BY DottedIs
<1>2. PICK z \in Seq(Byte) : /\ z = Dotted(t) /\ Len(z) = Len(t) + 1
                             /\ \A j \in Nat : j < Len(t) => At(z, j) = t[j + 1]
                             /\ At(z, Len(t)) = DOT
  BY DottedIs
<1>3. PICK n \in Nat : n = Len(s)
  OBVIOUS
<1>4. (\A i \in 1 .. n : y[i] = s[i]) /\ y[n + 1] = DOT
  <2>1. ASSUME NEW i \in 1 .. n PROVE y[i] = s[i]
    <3>1. PICK j \in Nat : j = i - 1 /\ j < n /\ j + 1 = i
      OBVIOUS
    <3>2. At(y, j) = s[j + 1]
      BY <3>1, <1>1, <1>3
    <3>3. At(y, j) = y[j + 1]
      BY <3>1, <1>1, <1>3 DEF At
    <3> QED
      BY <3>1, <3>2, <3>3
  <2>2. At(y, n) = y[n + 1]
    BY <1>1, <1>3 DEF At
  <2> QED
    BY <2>1, <2>2, <1>1, <1>3
<1>5. ASSUME Len(t) = n
      PROVE  (\A i \in 1 .. n : z[i] = t[i]) /\ z[n + 1] = DOT
  <2>1. ASSUME NEW i \in 1 .. n PROVE z[i] = t[i]
    <3>1. PICK j \in Nat : j = i - 1 /\ j < n /\ j + 1 = i
      OBVIOUS
    <3>2. At(z, j) = t[j + 1]
      BY <3>1, <1>2, <1>5
    <3>3. At(z, j) = z[j + 1]
      BY <3>1, <1>2, <1>5 DEF At
    <3> QED
      BY <3>1, <3>2, <3>3
  <2>2. At(z, n) = z[n + 1]
    BY <1>2, <1>5 DEF At
  <2> QED
    BY <2>1, <2>2, <1>2, <1>5
<1>6. lcs(y) = lcs(z) <=>
        Len(y) = Len(z) /\ \A i \in 1 .. Len(y) : Low(y[i]) = Low(z[i])
  BY SameLower
<1>7. lcs(s) = lcs(t) <=>
        Len(s) = Len(t) /\ \A i \in 1 .. Len(s) : Low(s[i]) = Low(t[i])
  BY SameLower
<1>8. ASSUME lcs(s) = lcs(t) PROVE lcs(y) = lcs(z)
  <2>1. Len(t) = n /\ Len(y) = n + 1 /\ Len(z) = n + 1
    BY <1>1, <1>2, <1>3, <1>7, <1>8
  <2>2. ASSUME NEW i \in 1 .. n + 1 PROVE Low(y[i]) = Low(z[i])
    <3>1. CASE i = n + 1
      BY <3>1, <2>1, <1>4, <1>5
    <3>2. CASE i \in 1 .. n
      BY <3>2, <2>1, <1>3, <1>4, <1>5, <1>7, <1>8
    <3> QED
      BY <3>1, <3>2
  <2> QED
    BY <2>1, <2>2, <1>6
<1>9. ASSUME lcs(y) = lcs(z) PROVE lcs(s) = lcs(t)
  <2>1. Len(y) = Len(z) /\ \A i \in 1 .. Len(y) : Low(y[i]) = Low(z[i])
    BY <1>6, <1>9
  <2>2. Len(t) = n /\ Len(y) = n + 1
    BY <2>1, <1>1, <1>2, <1>3
  <2>3. ASSUME NEW i \in 1 .. n PROVE Low(s[i]) = Low(t[i])
    <3>1. i \in 1 .. Len(y)
      BY <2>2
    <3> QED
      BY <3>1, <2>1, <2>2, <1>4, <1>5
  <2> QED
    BY <2>2, <2>3, <1>3, <1>7
<1> QED
  BY <1>1, <1>2, <1>8, <1>9

\* A name in capitals: the same letters, with its dots in the same places.
LEMMA CapitalsAre ==
  ASSUME NEW h \in Seq(Byte)
  PROVE  /\ lcs(Upper(h)) = lcs(h)
         /\ \A i \in 1 .. Len(h) : /\ Upper(h)[i] = High(h[i])
                                   /\ Upper(h)[i] = DOT <=> h[i] = DOT
<1>1. PICK u \in Seq(Byte) : u = Upper(h) /\ Len(u) = Len(h)
  BY UpperIs
<1>2. DOMAIN h = 1 .. Len(h)
  OBVIOUS
<1>3. \A i \in 1 .. Len(h) : u[i] = High(h[i])
  BY <1>1, <1>2 DEF Upper, High
<1>4. ASSUME NEW b \in Byte PROVE Low(High(b)) = Low(b) /\ (High(b) = DOT <=> b = DOT)
  BY SMT DEF Low, High, DOT, Byte
<1>5. \A i \in 1 .. Len(h) : Low(u[i]) = Low(h[i]) /\ (u[i] = DOT <=> h[i] = DOT)
  BY <1>3, <1>4
<1>6. lcs(u) = lcs(h)
  BY <1>1, <1>5, SameLower
<1> QED
  BY <1>1, <1>3, <1>5, <1>6

LEMMA CapitalCuts ==
  ASSUME NEW h \in Seq(Byte), InDns(h)
  PROVE  /\ InDns(Upper(h)) /\ Spelled(Upper(h)) = Upper(Spelled(h))
<1>1. PICK u \in Seq(Byte) : u = Upper(h) /\ Len(u) = Len(h)
  BY UpperIs
<1>2. \A i \in 1 .. Len(h) : u[i] = High(h[i]) /\ (u[i] = DOT <=> h[i] = DOT)
  BY <1>1, CapitalsAre
<1>3. DOMAIN u = 1 .. Len(h) /\ DOMAIN h = 1 .. Len(h)
  BY <1>1
<1>4. Cuts(u) = Cuts(h)
  BY <1>2, <1>3 DEF Cuts
<1>5. ASSUME NEW c \in Cuts(h) PROVE LabelEnd(u, c + 1) = LabelEnd(h, c + 1)
  <2>1. c \in Nat
    BY DEF Cuts
  <2>2. {i \in c + 1 .. Len(u) : u[i] = DOT} = {i \in c + 1 .. Len(h) : h[i] = DOT}
    BY <2>1, <1>1, <1>2
  <2> QED
    BY <2>2, <1>1 DEF LabelEnd
<1>6. InDns(u)
  BY <1>4, <1>5 DEF InDns
<1>7. PICK w \in Seq(Byte) : w = Spelled(h) /\ Len(w) = Len(h) + 2
  BY SpelledIs
<1>8. PICK n \in Nat : n = Len(h)
  OBVIOUS
<1>9. DOMAIN w = 1 .. n + 2
  BY <1>7, <1>8
<1>10. Upper(w) = [k \in 1 .. n + 2 |-> High(w[k])]
  BY <1>9 DEF Upper, High
<1>11. ASSUME NEW k \in 1 .. n + 2
       PROVE  High(w[k]) = IF k = n + 2 THEN 0
                           ELSE IF k - 1 \in Cuts(u) THEN LabelEnd(u, k) - k
                           ELSE u[k - 1]
  <2>1. w[k] = IF k = n + 2 THEN 0
               ELSE IF k - 1 \in Cuts(h) THEN LabelEnd(h, k) - k
               ELSE h[k - 1]
    BY <1>7, <1>8 DEF Spelled
  <2>2. CASE k = n + 2
    BY <2>1, <2>2 DEF High
  <2>3. CASE k # n + 2 /\ k - 1 \in Cuts(h)
    <3>1. PICK c \in Cuts(h) : c = k - 1
      BY <2>3
    <3>2. c + 1 = k
      BY <3>1
    <3>3. LabelEnd(h, c + 1) - c - 1 \in 1 .. dns_max_label /\ c \in Nat
      BY DEF InDns, Cuts
    <3>4. PICK e \in Nat : e = LabelEnd(h, k) /\ e = LabelEnd(h, c + 1)
      <4>1. c + 1 \in 1 .. Len(h) + 1
        BY <3>1, <2>3, <1>8
      <4>2. LabelEnd(h, c + 1) \in Nat
        BY <4>1, LabelEndIs
      <4> QED
        BY <4>2, <3>2
    <3>5. LabelEnd(u, k) = e
      BY <3>2, <3>4, <1>5
    <3>6. PICK q \in 1 .. 63 : q = e - k
      <4>1. e - c - 1 \in 1 .. 63
        BY <3>3, <3>4 DEF dns_max_label
      <4> QED
        BY <4>1, <3>2, <3>3
    <3>7. High(q) = q
      BY DEF High
    <3> QED
      BY <2>1, <2>3, <3>4, <3>5, <3>6, <3>7, <1>4
  <2>4. CASE k # n + 2 /\ k - 1 \notin Cuts(h)
    <3>1. k - 1 # 0
      BY <2>4 DEF Cuts
    <3>2. k - 1 \in 1 .. n
      BY <2>4, <3>1
    <3> QED
      BY <2>1, <2>4, <3>2, <1>2, <1>4, <1>8
  <2> QED
    BY <2>2, <2>3, <2>4
<1>12. Spelled(u) = [k \in 1 .. n + 2 |->
                       IF k = n + 2 THEN 0
                       ELSE IF k - 1 \in Cuts(u) THEN LabelEnd(u, k) - k
                       ELSE u[k - 1]]
  BY <1>1, <1>8 DEF Spelled
<1>13. Spelled(u) = Upper(w)
  BY <1>10, <1>11, <1>12
<1> QED
  BY <1>1, <1>6, <1>7, <1>13

\* The name zz is one that the DNS can hold.
LEMMA OtherDns == InDns(Other)
<1>1. Len(Other) = 2 /\ DOMAIN Other = 1 .. 2 /\ Other[1] = 122 /\ Other[2] = 122
  BY DEF Other
<1>2. \A i \in 1 .. 2 : Other[i] # DOT
  BY <1>1 DEF DOT
<1>3. Cuts(Other) = {0}
  BY <1>1, <1>2 DEF Cuts
<1>4. LabelEnd(Other, 1) = 3
  <2>1. PICK h \in Seq(Byte) : h = Other /\ Len(h) = 2
    BY OtherIs
  <2>2. PICK p \in 1 .. Len(h) + 1 : p = 1
    BY <2>1
  <2>3. PICK e : e = LabelEnd(h, p)
    OBVIOUS
  <2>4. e \in p .. Len(h) + 1 /\ (e <= Len(h) => h[e] = DOT)
    BY <2>3, LabelEndIs
  <2>5. e \in 1 .. 3 /\ (e <= 2 => h[e] = DOT)
    BY <2>1, <2>2, <2>4
  <2>6. e = 3
    BY <2>1, <2>5, <1>2
  <2> QED
    BY <2>1, <2>2, <2>3, <2>6
<1>7. LabelEnd(Other, 0 + 1) - 0 - 1 \in 1 .. dns_max_label
  BY <1>4 DEF dns_max_label
<1> QED
  BY <1>3, <1>7 DEF InDns

-----------------------------------------------------------------------------
(* What a record gives                                                     *)

\* Where the parts of a record are found, once its name is read.
LEMMA StandsRead ==
  ASSUME NEW msg \in Seq(Byte), NEW i \in Nat, NEW r \in Good, Stands(msg, i, r),
         qname2host(msg, i).used = Len(r.name)
  PROVE  /\ Fix(msg, i) = i + Len(r.name)
         /\ RdLen(msg, i) = Len(r.rd)
         /\ TypeAt(msg, i) = r.type
         /\ Short(msg, Fix(msg, i) + 2) = ClassIN
         /\ Rd(msg, i) = r.rd
         /\ After(msg, i) = i + Len(r.name) + 10 + Len(r.rd)
         /\ After(msg, i) <= Len(msg) /\ i < Len(msg)
         /\ After(msg, i) = i + Len(Wire(r))
<1>1. PICK n \in Nat : n = Len(r.name)
  BY DEF Good, GoodRecord
<1>2. PICK rd \in Seq(Byte) : rd = r.rd
  BY DEF Good, GoodRecord
<1>3. PICK m \in Nat : m = Len(rd)
  OBVIOUS
<1>4. PICK fix \in Nat : fix = i + n
  OBVIOUS
<1>5. Fix(msg, i) = fix
  BY <1>1, <1>4 DEF Fix
<1>6. /\ fix + 10 + m <= Len(msg)
      /\ Short(msg, fix) = r.type
      /\ Short(msg, fix + 2) = ClassIN
      /\ Short(msg, fix + 8) = m
      /\ Holds(msg, fix + 10, rd)
  BY <1>1, <1>2, <1>3, <1>4 DEF Stands
<1>7. RdLen(msg, i) = m /\ TypeAt(msg, i) = r.type /\ Short(msg, Fix(msg, i) + 2) = ClassIN
  BY <1>5, <1>6 DEF RdLen, TypeAt
<1>8. Rd(msg, i) = rd
  <2>1. PICK k \in Nat : k = fix + 10
    OBVIOUS
  <2>2. Bytes(msg, k, Len(rd)) = rd
    BY <2>1, <1>6, HoldsBytes
  <2> QED
    BY <2>1, <2>2, <1>3, <1>5, <1>7 DEF Rd
<1>9. After(msg, i) = fix + 10 + m
  BY <1>5, <1>7 DEF After
<1>10. Len(Wire(r)) = n + 10 + m
  <2>1. r \in GoodRecord /\ Len(r.rd) <= 1000
    BY DEF Good
  <2>2. Len(Wire(r)) = Len(r.name) + 10 + Len(r.rd)
    BY <2>1, WireBytes
  <2> QED
    BY <2>2, <1>1, <1>2, <1>3
<1>11. After(msg, i) = i + Len(Wire(r))
  BY <1>4, <1>9, <1>10
<1>12. After(msg, i) <= Len(msg) /\ i < Len(msg)
  BY <1>4, <1>6, <1>9
<1> QED
  BY <1>1, <1>2, <1>3, <1>4, <1>5, <1>7, <1>8, <1>9, <1>11, <1>12

\* r stands at i and its name, o or a pointer to it, is read.
Clear(msg, i, r, o) ==
  /\ Stands(msg, i, r)
  /\ IsName(msg, i, o, Len(r.name))
  /\ r.rd # <<>>

\* Whether the record of o is one of h.
LEMMA ClearOwn ==
  ASSUME NEW msg \in Seq(Byte), NEW i \in Nat, NEW r \in Good, NEW o \in Seq(Byte),
         NEW h \in Seq(Byte), Clear(msg, i, r, o)
  PROVE  /\ OwnAt(msg, lcs(Dotted(h)), i) <=> lcs(o) = lcs(h)
         /\ qname2host(msg, i).ok
         /\ qname2host(msg, i).used = Len(r.name)
         /\ Fix(msg, i) + 10 < Len(msg) /\ RdLen(msg, i) # 0
<1>1. qname2host(msg, i).ok /\ qname2host(msg, i).used = Len(r.name)
  BY DEF Clear, IsName
<1>2. OwnAt(msg, lcs(Dotted(h)), i) <=> lcs(Dotted(o)) = lcs(Dotted(h))
  BY DEF Clear, IsName, OwnAt, IsOwn
<1>3. lcs(Dotted(o)) = lcs(Dotted(h)) <=> lcs(o) = lcs(h)
  BY DottedLower
<1>4. PICK rd \in Seq(Byte) : rd = r.rd /\ rd # <<>>
  BY DEF Clear, Good, GoodRecord
<1>5. PICK m \in Nat : m = Len(r.rd) /\ m # 0
  BY <1>4
<1>6. PICK n \in Nat : n = Len(r.name)
  BY DEF Good, GoodRecord
<1>7. /\ Fix(msg, i) = i + n /\ RdLen(msg, i) = m
      /\ After(msg, i) = i + n + 10 + m /\ After(msg, i) <= Len(msg)
  BY <1>1, <1>5, <1>6, StandsRead DEF Clear
<1>8. Fix(msg, i) + 10 < Len(msg) /\ RdLen(msg, i) # 0
  <2>1. PICK L \in Nat : L = Len(msg)
    OBVIOUS
  <2>2. m > 0 /\ i + n + 10 + m <= L
    <3>1. PICK a \in Nat : a = i + n + 10 + m
      OBVIOUS
    <3>2. a <= L
      BY <2>1, <3>1, <1>7
    <3>3. m # 0
      BY <1>5
    <3> QED
      BY <3>1, <3>2, <3>3
  <2>3. i + n + 10 < L
    BY <2>2
  <2> QED
    BY <2>1, <2>3, <1>5, <1>7
<1> QED
  BY <1>1, <1>2, <1>3, <1>8

\* What the record of o gives to a resolution of h.
Gives(h, r, o) ==
  IF r.type = TypeA /\ lcs(o) = lcs(h) THEN {Address(r.rd)}
  ELSE IF r.type = TypeAAAA /\ lcs(o) = lcs(h) THEN {Text(r.rd)}
  ELSE {}

\* A record that the loop goes beyond.
Passes(h, r, o) ==
  /\ r.type # TypeCNAME
  /\ r.type = TypeA /\ lcs(o) = lcs(h) => Len(r.rd) = 4
  /\ r.type = TypeAAAA /\ lcs(o) = lcs(h) => Len(r.rd) = 16

LEMMA RecordPasses ==
  ASSUME NEW msg \in Seq(Byte), NEW i \in Nat, NEW r \in Good, NEW o \in Seq(Byte),
         NEW h \in Seq(Byte), Clear(msg, i, r, o), Passes(h, r, o)
  PROVE  Answers(msg, lcs(Dotted(h)), i)
           = Gives(h, r, o) \cup Answers(msg, lcs(Dotted(h)), i + Len(Wire(r)))
<1>1. /\ OwnAt(msg, lcs(Dotted(h)), i) <=> lcs(o) = lcs(h)
      /\ qname2host(msg, i).ok
      /\ qname2host(msg, i).used = Len(r.name)
      /\ Fix(msg, i) + 10 < Len(msg) /\ RdLen(msg, i) # 0
  BY ClearOwn
<1>2. /\ RdLen(msg, i) = Len(r.rd)
      /\ TypeAt(msg, i) = r.type
      /\ Short(msg, Fix(msg, i) + 2) = ClassIN
      /\ Rd(msg, i) = r.rd
      /\ After(msg, i) <= Len(msg) /\ i < Len(msg)
      /\ After(msg, i) = i + Len(Wire(r))
  BY <1>1, StandsRead DEF Clear
<1>3. PICK fq : fq = lcs(Dotted(h))
  OBVIOUS
<1>4. ~Stops(msg, fq, i)
  <2>1. PICK L \in Nat : L = Len(msg)
    OBVIOUS
  <2>2. PICK a \in Nat : a = After(msg, i)
    <3>1. Len(Wire(r)) \in Nat
      BY WireOf
    <3> QED
      BY <3>1, <1>2
  <2>3. ~(i >= L) /\ ~(a > L)
    BY <2>1, <2>2, <1>2
  <2>4. PICK x \in Nat : x = Fix(msg, i)
    BY <1>1 DEF Fix, Good, GoodRecord
  <2>5. ~(x + 10 >= L)
    BY <2>1, <2>4, <1>1
  <2> QED
    BY <2>1, <2>2, <2>3, <2>4, <2>5, <1>1, <1>2, <1>3 DEF Stops, Passes
<1>5. Given(msg, fq, i) = Gives(h, r, o)
  BY <1>1, <1>2, <1>3 DEF Given, Gives, Passes
<1>6. Answers(msg, fq, i) = IF Stops(msg, fq, i) THEN {}
                            ELSE Given(msg, fq, i) \cup Answers(msg, fq, After(msg, i))
  BY AnswersIs
<1>7. Answers(msg, fq, i) = Gives(h, r, o) \cup Answers(msg, fq, i + Len(Wire(r)))
  BY <1>2, <1>4, <1>5, <1>6
<1> QED
  BY <1>3, <1>7

\* A record of the host whose address is not one of four bytes.
LEMMA RecordTorn ==
  ASSUME NEW msg \in Seq(Byte), NEW i \in Nat, NEW r \in Good, NEW o \in Seq(Byte),
         NEW h \in Seq(Byte), Clear(msg, i, r, o), r.type = TypeA, lcs(o) = lcs(h),
         Len(r.rd) # 4
  PROVE  Answers(msg, lcs(Dotted(h)), i) = {}
<1>1. OwnAt(msg, lcs(Dotted(h)), i) /\ qname2host(msg, i).used = Len(r.name)
  BY ClearOwn
<1>2. RdLen(msg, i) = Len(r.rd) /\ TypeAt(msg, i) = r.type
  BY <1>1, StandsRead DEF Clear
<1>3. PICK fq : fq = lcs(Dotted(h))
  OBVIOUS
<1>4. Stops(msg, fq, i)
  BY <1>1, <1>2, <1>3 DEF Stops
<1>5. Answers(msg, fq, i) = IF Stops(msg, fq, i) THEN {}
                            ELSE Given(msg, fq, i) \cup Answers(msg, fq, After(msg, i))
  BY AnswersIs
<1> QED
  BY <1>3, <1>4, <1>5

\* Nothing comes behind the message.
LEMMA NothingBehind ==
  ASSUME NEW msg \in Seq(Byte), NEW fq, NEW i \in Nat, i >= Len(msg)
  PROVE  Answers(msg, fq, i) = {}
<1>1. Stops(msg, fq, i)
  BY DEF Stops
<1>2. Answers(msg, fq, i) = IF Stops(msg, fq, i) THEN {}
                            ELSE Given(msg, fq, i) \cup Answers(msg, fq, After(msg, i))
  BY AnswersIs
<1> QED
  BY <1>1, <1>2

\* The name of the additional record is the root, which takes no byte for the
\* program: it reads the record one byte too early, and stops.
LEMMA RecordAdditional ==
  ASSUME NEW msg \in Seq(Byte), NEW i \in Nat, Holds(msg, i, Wire(Additional)),
         Len(msg) = i + Len(Wire(Additional)), NEW fq
  PROVE  Answers(msg, fq, i) = {}
<1>1. PICK w \in Seq(Byte) : w = Wire(Additional) /\ Len(w) = 11
  <2>1. PICK h \in Seq(Byte) : Len(h) <= 254
    <3>1. PICK h \in Seq(Byte) : h = Other /\ Len(h) = 2
      BY OtherIs
    <3>2. Len(h) <= 254
      BY <3>1
    <3> QED
      BY <3>2
  <2>2. Additional \in Good
    <3>1. 0 \in Nat
      OBVIOUS
    <3> QED
      BY <2>1, <3>1, RecordsGood
  <2>3. PICK r \in Good : r = Additional
    BY <2>2
  <2>4. Len(r.name) = 1 /\ Len(r.rd) = 0
    BY <2>3 DEF Additional, Record, Root
  <2>5. Wire(r) \in Seq(Byte) /\ Len(Wire(r)) = Len(r.name) + 10 + Len(r.rd)
    BY WireOf
  <2> QED
    BY <2>3, <2>4, <2>5
<1>2. At(w, 0) = 0 /\ At(w, 8) = 60 /\ At(w, 9) = 0
  <2>1. PICK h \in Seq(Byte) : Len(h) <= 254
    <3>1. PICK h \in Seq(Byte) : h = Other /\ Len(h) = 2
      BY OtherIs
    <3>2. Len(h) <= 254
      BY <3>1
    <3> QED
      BY <3>2
  <2>2. Additional \in Good
    <3>1. 0 \in Nat
      OBVIOUS
    <3> QED
      BY <2>1, <3>1, RecordsGood
  <2>3. PICK r \in GoodRecord : r = Additional /\ Len(r.rd) <= 1000
    BY <2>2 DEF Good
  <2>4. PICK k \in Nat : k = Len(r.name) /\ k = 1
    BY <2>3 DEF Additional, Record, Root
  <2>5. r.name = <<0>> /\ r.rd = <<>> /\ r.type = 41
    BY <2>3 DEF Additional, Record, Root, OPT
  <2>6. Holds(w, 0, r.name) /\ Holds(w, k, Fixed(r)) /\ Holds(w, k + 8, Length(r))
    BY <2>3, <2>4, <1>1, WireBytes, ZenonT(30)
  <2>7. At(w, 0 + 0) = At(r.name, 0) /\ At(r.name, 0) = 0
    BY <2>5, <2>6 DEF Holds, At
  <2>8. PICK fixed : fixed = Fixed(r) /\ Len(fixed) = 8 /\ fixed[8] = 60
    <3>1. PICK fixed : fixed = Fixed(r)
      OBVIOUS
    <3>2. fixed = <<0, 41, 0, ClassIN, 0, 0, 0, 60>>
      BY <3>1, <2>5 DEF Fixed
    <3> QED
      BY <3>1, <3>2
  <2>9. At(w, k + 7) = At(fixed, 7) /\ At(fixed, 7) = 60
    <3>1. At(w, k + 7) = At(fixed, 7)
      BY <2>6, <2>8 DEF Holds
    <3> QED
      BY <3>1, <2>8 DEF At
  <2>10. PICK length : length = Length(r) /\ Len(length) = 2 /\ length[1] = 0
    <3>1. PICK length : length = Length(r)
      OBVIOUS
    <3>2. PICK z \in Nat : z = Len(r.rd) /\ z = 0
      BY <2>5
    <3>3. length = <<z \div 256, z % 256>> /\ z \div 256 = 0
      BY <3>1, <3>2 DEF Length
    <3>4. Len(length) = 2 /\ length[1] = 0
      BY <3>3
    <3> QED
      BY <3>1, <3>4
  <2>11. At(w, k + 8 + 0) = At(length, 0) /\ At(length, 0) = 0
    <3>1. At(w, k + 8 + 0) = At(length, 0)
      BY <2>6, <2>10 DEF Holds
    <3> QED
      BY <3>1, <2>10 DEF At
  <2> QED
    BY <2>4, <2>7, <2>9, <2>11
<1>3. Holds(msg, i, w) /\ Len(msg) = i + 11
  BY <1>1
<1>4. At(msg, i) = 0
  <2>1. PICK k \in Nat : k = 0
    OBVIOUS
  <2>2. k < Len(w)
    BY <2>1, <1>1
  <2>3. At(msg, i + k) = At(w, k)
    BY <2>2, <1>3, HoldsAt
  <2> QED
    BY <2>1, <2>3, <1>2
<1>5. At(msg, i + 8) = 60 /\ At(msg, i + 9) = 0
  <2>1. PICK k \in Nat, m \in Nat : k = 8 /\ m = 9
    OBVIOUS
  <2>2. k < Len(w) /\ m < Len(w)
    BY <2>1, <1>1
  <2>3. At(msg, i + k) = At(w, k) /\ At(msg, i + m) = At(w, m)
    BY <2>2, <1>3, HoldsAt
  <2> QED
    BY <2>1, <2>3, <1>2
<1>6. qname2host(msg, i).used = 0
  <2>1. i \in 0 .. Len(msg)
    BY <1>3
  <2>2. qname2host(msg, i) = [ok |-> TRUE, name |-> <<>>, used |-> 0]
    BY <2>1, <1>4, RootRead
  <2> QED
    BY <2>2
<1>7. Fix(msg, i) = i
  BY <1>6 DEF Fix
<1>8. RdLen(msg, i) = 15360
  <2>1. i + 8 + 1 = i + 9
    OBVIOUS
  <2>2. Short(msg, i + 8) = 60 * 256 + 0
    BY <2>1, <1>5 DEF Short
  <2> QED
    BY <2>2, <1>7 DEF RdLen
<1>9. After(msg, i) > Len(msg)
  BY <1>3, <1>7, <1>8 DEF After
<1>10. Stops(msg, fq, i)
  BY <1>9 DEF Stops
<1>11. Answers(msg, fq, i) = IF Stops(msg, fq, i) THEN {}
                             ELSE Given(msg, fq, i) \cup Answers(msg, fq, After(msg, i))
  BY AnswersIs
<1> QED
  BY <1>10, <1>11

\* An alias that is read gives a text.
LEMMA RecordAlias ==
  ASSUME NEW msg \in Seq(Byte), NEW i \in Nat, NEW r \in Good, NEW o \in Seq(Byte),
         NEW h \in Seq(Byte), Clear(msg, i, r, o), r.type = TypeCNAME, r.rd = Spelled(Other)
  PROVE  Text(host2qname(Dotted(Other))) \in Answers(msg, lcs(Dotted(h)), i)
<1>1. /\ qname2host(msg, i).ok
      /\ qname2host(msg, i).used = Len(r.name)
      /\ Fix(msg, i) + 10 < Len(msg) /\ RdLen(msg, i) # 0
  BY ClearOwn
<1>2. /\ Fix(msg, i) = i + Len(r.name)
      /\ TypeAt(msg, i) = r.type
      /\ Short(msg, Fix(msg, i) + 2) = ClassIN
      /\ After(msg, i) <= Len(msg) /\ i < Len(msg)
      /\ After(msg, i) = i + Len(Wire(r))
  BY <1>1, StandsRead DEF Clear
<1>3. PICK fq : fq = lcs(Dotted(h))
  OBVIOUS
<1>4. PICK k \in Nat : k = i + Len(r.name) + 10 /\ k = Fix(msg, i) + 10
  BY <1>2 DEF Good, GoodRecord
<1>5. Holds(msg, k, Spelled(Other))
  BY <1>4 DEF Clear, Stands
<1>6. IsName(msg, k, Other, 4)
  <2>1. PICK h2 \in Seq(Byte) : h2 = Other /\ Len(h2) = 2
    BY OtherIs
  <2>2. Len(h2) <= 254 /\ InDns(h2) /\ Len(h2) + 2 = 4
    BY <2>1, OtherDns
  <2>3. IsName(msg, k, h2, Len(h2) + 2)
    BY <2>1, <2>2, <1>5, NameSpelled
  <2> QED
    BY <2>1, <2>2, <2>3
<1>7. Alias(msg, i) = qname2host(msg, k)
  BY <1>4 DEF Alias
<1>8. Alias(msg, i).ok /\ Alias(msg, i).name = Dotted(Other)
  BY <1>6, <1>7 DEF IsName
<1>9. Dotted(Other) # <<>>
  <2>1. PICK z \in Seq(Byte) : z = Dotted(Other) /\ Len(z) = Len(Other) + 1
    BY OtherIs, DottedIs
  <2>2. Len(z) = 3
    BY <2>1, OtherIs
  <2> QED
    BY <2>1, <2>2
<1>10. ~Stops(msg, fq, i)
  <2>1. PICK L \in Nat : L = Len(msg)
    OBVIOUS
  <2>2. PICK a \in Nat : a = After(msg, i)
    <3>1. Len(Wire(r)) \in Nat
      BY WireOf
    <3> QED
      BY <3>1, <1>2
  <2>3. ~(i >= L) /\ ~(a > L)
    BY <2>1, <2>2, <1>2
  <2>4. ~(k >= L)
    BY <2>1, <1>1, <1>4
  <2>5. TypeAt(msg, i) # TypeA /\ TypeAt(msg, i) # TypeAAAA
    BY <1>2 DEF TypeA, TypeAAAA, TypeCNAME
  <2> QED
    BY <2>1, <2>2, <2>3, <2>4, <2>5, <1>1, <1>2, <1>4, <1>8, <1>9 DEF Stops
<1>11. Given(msg, fq, i) = {Text(host2qname(Dotted(Other)))}
  <2>1. TypeAt(msg, i) = TypeCNAME /\ TypeAt(msg, i) # TypeA /\ TypeAt(msg, i) # TypeAAAA
    BY <1>2 DEF TypeA, TypeAAAA, TypeCNAME
  <2> QED
    BY <2>1, <1>8 DEF Given
<1>12. Answers(msg, fq, i) = IF Stops(msg, fq, i) THEN {}
                             ELSE Given(msg, fq, i) \cup Answers(msg, fq, After(msg, i))
  BY AnswersIs
<1> QED
  BY <1>3, <1>10, <1>11, <1>12

\* The record r stands at i behind a pointer to p.
LEMMA PointerStands ==
  ASSUME NEW msg \in Seq(Byte), NEW i \in Nat, NEW r \in Good, Stands(msg, i, r),
         NEW p \in 0 .. 255, r.name = Pointer(p), p < Len(msg)
  PROVE  PointsTo(msg, i, p) /\ Len(r.name) = 2
<1>1. PICK w \in Seq(Byte) : w = r.name /\ Len(w) = 2 /\ At(w, 0) = 192 /\ At(w, 1) = p
  <2>1. p \in Nat /\ p <= 1000 /\ p \div 256 = 0 /\ p % 256 = p
    OBVIOUS
  <2>2. /\ Pointer(p) \in Seq(Byte) /\ Len(Pointer(p)) = 2
        /\ At(Pointer(p), 0) = 192 + p \div 256 /\ At(Pointer(p), 1) = p % 256
    BY <2>1, PointerIs
  <2>3. At(Pointer(p), 0) = 192 /\ At(Pointer(p), 1) = p
    BY <2>1, <2>2
  <2> QED
    BY <2>2, <2>3
<1>2. Holds(msg, i, w)
  BY <1>1 DEF Stands
<1>3. PICK j \in Nat, k \in Nat : j = 0 /\ k = 1
  OBVIOUS
<1>4. j < Len(w) /\ k < Len(w)
  BY <1>1, <1>3
<1>5. At(msg, i + j) = At(w, j) /\ At(msg, i + k) = At(w, k)
  BY <1>2, <1>4, HoldsAt
<1>6. At(msg, i) = 192 /\ At(msg, i + 1) = p
  BY <1>1, <1>3, <1>5
<1>7. i + 1 < Len(msg)
  <2>1. PICK L \in Nat : L = Len(msg)
    OBVIOUS
  <2>2. i + 2 <= L
    BY <2>1, <1>1, <1>2 DEF Holds
  <2> QED
    BY <2>1, <2>2
<1> QED
  BY <1>1, <1>6, <1>7 DEF PointsTo

-----------------------------------------------------------------------------
(* What is parsed of a provider's message                                  *)

\* The message with the query's question and the records in it.
Framed(msg, tail, h) ==
  /\ Len(msg) = Answer(h) + Len(tail)
  /\ Holds(msg, Question, Spelled(h))
  /\ Holds(msg, Answer(h), tail)

LEMMA ParseIs ==
  ASSUME NEW h \in Seq(Byte), Len(h) <= 254, InDns(h), NEW k \in Kinds, NEW n \in Nat
  PROVE  \E msg \in Seq(Byte), tail \in Seq(Byte) :
           /\ tail = Wires(Records(h, k, n))
           /\ Framed(msg, tail, h)
           /\ parse_rfc8484(h, Reply(h, k, n)) =
                IF k = "refused" \/ tail = <<>> THEN {}
                ELSE Answers(msg, lcs(Dotted(h)), Answer(h))
<1>1. PICK msg \in Seq(Byte), tail \in Seq(Byte) :
           /\ msg = Reply(h, k, n) /\ tail = Wires(Records(h, k, n))
           /\ Len(msg) = 16 + Len(host2qname(h)) + Len(tail)
           /\ At(msg, 2) = 129 /\ At(msg, 3) = IF k = "refused" THEN 133 ELSE 128
           /\ Holds(msg, 12, host2qname(h))
           /\ Holds(msg, 16 + Len(host2qname(h)), tail)
  BY ReplyIs
<1>2. PICK N \in Nat : N = Len(h) /\ N <= 254
  OBVIOUS
<1>3. PICK w \in Seq(Byte) : w = Spelled(h) /\ w = host2qname(h) /\ Len(w) = N + 2
  <2>1. N <= 255 /\ Len(h) <= 255
    BY <1>2
  <2>2. host2qname(h) = Spelled(h)
    BY <2>1, QnameIs
  <2> QED
    BY <2>2, <1>2, SpelledIs
<1>4. PICK A \in Nat : A = Answer(h) /\ A = N + 18
  BY <1>2, AnswerIs
<1>5. PICK T \in Nat : T = Len(tail)
  OBVIOUS
<1>6. Len(msg) = A + T /\ Holds(msg, A, tail)
  <2>1. 16 + Len(w) = A
    BY <1>3, <1>4
  <2>2. Len(msg) = 16 + Len(w) + T /\ Holds(msg, 16 + Len(w), tail)
    BY <1>1, <1>3, <1>5
  <2> QED
    BY <2>1, <2>2
<1>7. Holds(msg, 12, w)
  BY <1>1, <1>3
<1>8. Framed(msg, tail, h)
  BY <1>3, <1>4, <1>5, <1>6, <1>7 DEF Framed, Question
<1>9. IsName(msg, 12, h, N + 2)
  <2>1. 12 \in Nat /\ Holds(msg, 12, Spelled(h))
    BY <1>3, <1>7
  <2>2. IsName(msg, 12, h, Len(h) + 2)
    BY <2>1, NameSpelled
  <2> QED
    BY <2>2, <1>2
<1>10. PICK q : /\ q = qname2host(msg, 12) /\ q.ok /\ q.name = Dotted(h) /\ q.used = N + 2
  BY <1>9 DEF IsName
<1>11. ~(Len(msg) < 12 + 5) /\ ~(q.used <= 0) /\ Question + q.used + 4 = A
  BY <1>4, <1>6, <1>10 DEF Question
<1>12. At(msg, 2) \div 128 = 1
  <2>1. 129 \div 128 = 1
    OBVIOUS
  <2> QED
    BY <2>1, <1>1
<1>13. At(msg, 3) % 16 # 0 <=> k = "refused"
  <2>1. 133 % 16 = 5 /\ 128 % 16 = 0
    OBVIOUS
  <2>2. CASE k = "refused"
    BY <2>1, <2>2, <1>1
  <2>3. CASE k # "refused"
    BY <2>1, <2>3, <1>1
  <2> QED
    BY <2>2, <2>3
<1>14. A >= Len(msg) <=> tail = <<>>
  <2>1. T = 0 <=> tail = <<>>
    BY <1>5
  <2> QED
    BY <2>1, <1>6
<1>15. lcs(h \o <<DOT>>) = lcs(q.name)
  BY <1>10 DEF Dotted
<1>16. parse_rfc8484(h, msg) = IF k = "refused" \/ tail = <<>> THEN {}
                               ELSE Answers(msg, lcs(Dotted(h)), A)
  <2>1. qname2host(msg, Question) = q
    BY <1>10 DEF Question
  <2>2. parse_rfc8484(h, msg) =
          IF \/ Len(msg) < 12 + 5 \/ At(msg, 2) \div 128 # 1 \/ At(msg, 3) % 16 # 0
             \/ q.used <= 0 \/ Question + q.used + 4 >= Len(msg)
             \/ lcs(h \o <<DOT>>) # lcs(q.name)
          THEN {}
          ELSE Answers(msg, lcs(q.name), Question + q.used + 4)
    BY <2>1 DEF parse_rfc8484
  <2>3. CASE k = "refused"
    BY <2>2, <2>3, <1>13
  <2>4. CASE k # "refused" /\ tail = <<>>
    BY <2>2, <2>4, <1>11, <1>14
  <2>5. CASE k # "refused" /\ tail # <<>>
    <3>1. ~(Question + q.used + 4 >= Len(msg))
      BY <2>5, <1>11, <1>14
    <3>2. parse_rfc8484(h, msg) = Answers(msg, lcs(q.name), Question + q.used + 4)
      BY <2>2, <2>5, <3>1, <1>11, <1>12, <1>13, <1>15
    <3> QED
      BY <2>5, <3>2, <1>10, <1>11
  <2> QED
    BY <2>3, <2>4, <2>5
<1> QED
  BY <1>1, <1>4, <1>8, <1>16

\* The addresses of h that one record tells.
Tells(h, r) ==
  IF lcs(r.owner) = lcs(h) /\ r.type = TypeA /\ Len(r.rd) = 4 THEN {r.rd} ELSE {}

LEMMA ToldOne ==
  ASSUME NEW h, NEW k, NEW n, k # "refused", NEW r, Records(h, k, n) = <<r>>
  PROVE  Addresses(h, k, n) = Tells(h, r)
<1>1. PICK rs : rs = Records(h, k, n)
  OBVIOUS
<1>2. DOMAIN rs = {1} /\ rs[1] = r
  BY <1>1
<1>3. Addresses(h, k, n) =
        {rs[i].rd : i \in {j \in DOMAIN rs : /\ lcs(rs[j].owner) = lcs(h)
                                             /\ rs[j].type = TypeA /\ Len(rs[j].rd) = 4}}
  BY <1>1 DEF Addresses
<1>4. CASE lcs(r.owner) = lcs(h) /\ r.type = TypeA /\ Len(r.rd) = 4
  BY <1>2, <1>3, <1>4 DEF Tells
<1>5. CASE ~(lcs(r.owner) = lcs(h) /\ r.type = TypeA /\ Len(r.rd) = 4)
  BY <1>2, <1>3, <1>5 DEF Tells
<1> QED
  BY <1>4, <1>5

LEMMA ToldTwo ==
  ASSUME NEW h, NEW k, NEW n, k # "refused", NEW r, NEW s, Records(h, k, n) = <<r, s>>
  PROVE  Addresses(h, k, n) = Tells(h, r) \cup Tells(h, s)
<1>1. PICK rs : rs = Records(h, k, n)
  OBVIOUS
<1>2. DOMAIN rs = {1, 2} /\ rs[1] = r /\ rs[2] = s
  BY <1>1
<1> DEFINE Mine(x) == lcs(x.owner) = lcs(h) /\ x.type = TypeA /\ Len(x.rd) = 4
<1>3. Addresses(h, k, n) = {rs[i].rd : i \in {j \in {1, 2} : Mine(rs[j])}}
  BY <1>1, <1>2 DEF Addresses
<1>4. Tells(h, r) = IF Mine(r) THEN {r.rd} ELSE {}
  BY DEF Tells
<1>5. Tells(h, s) = IF Mine(s) THEN {s.rd} ELSE {}
  BY DEF Tells
<1> HIDE DEF Mine
<1>6. CASE Mine(r) /\ Mine(s)
  BY <1>2, <1>3, <1>4, <1>5, <1>6
<1>7. CASE Mine(r) /\ ~Mine(s)
  BY <1>2, <1>3, <1>4, <1>5, <1>7
<1>8. CASE ~Mine(r) /\ Mine(s)
  BY <1>2, <1>3, <1>4, <1>5, <1>8
<1>9. CASE ~Mine(r) /\ ~Mine(s)
  BY <1>2, <1>3, <1>4, <1>5, <1>9
<1> QED
  BY <1>6, <1>7, <1>8, <1>9

-----------------------------------------------------------------------------
(* One record, and two                                                     *)

\* The name of the record is a pointer to the question.
LEMMA OwnClear ==
  ASSUME NEW h \in Seq(Byte), Len(h) <= 254, InDns(h), NEW msg \in Seq(Byte),
         Holds(msg, Question, Spelled(h)), NEW i \in Nat, NEW r \in Good,
         Stands(msg, i, r), r.name = Pointer(Question), r.rd # <<>>
  PROVE  PointsTo(msg, i, Question) /\ Clear(msg, i, r, h)
<1>1. PICK q \in 0 .. 255 : q = Question
  BY DEF Question
<1>2. q < Len(msg)
  <2>1. PICK w \in Seq(Byte) : w = Spelled(h) /\ Len(w) = Len(h) + 2
    BY SpelledIs
  <2>2. q + Len(w) <= Len(msg)
    BY <1>1, <2>1 DEF Holds
  <2> QED
    BY <2>1, <2>2
<1>3. PointsTo(msg, i, q) /\ Len(r.name) = 2
  BY <1>1, <1>2, PointerStands
<1>4. IsName(msg, i, h, 2)
  <2>1. q \in Nat
    BY <1>1
  <2>2. Holds(msg, q, Spelled(h))
    BY <1>1, Zenon
  <2> QED
    BY <2>1, <2>2, <1>3, NamePointed
<1> QED
  BY <1>1, <1>3, <1>4 DEF Clear

\* It is written out.
LEMMA SpelledClear ==
  ASSUME NEW o \in Seq(Byte), Len(o) <= 254, InDns(o), NEW msg \in Seq(Byte),
         NEW i \in Nat, NEW r \in Good, Stands(msg, i, r), r.name = Spelled(o), r.rd # <<>>
  PROVE  Clear(msg, i, r, o)
<1>1. Holds(msg, i, Spelled(o))
  BY DEF Stands
<1>2. IsName(msg, i, o, Len(o) + 2)
  BY <1>1, NameSpelled
<1>3. Len(r.name) = Len(o) + 2
  BY SpelledIs
<1> QED
  BY <1>2, <1>3 DEF Clear

\* It is a pointer to the name of another record, which points to the question.
LEMMA ChainClear ==
  ASSUME NEW h \in Seq(Byte), Len(h) <= 254, InDns(h), NEW msg \in Seq(Byte),
         Holds(msg, Question, Spelled(h)), NEW p \in 0 .. 255,
         PointsTo(msg, p, Question), p < Len(msg), NEW i \in Nat, NEW r \in Good,
         Stands(msg, i, r), r.name = Pointer(p), r.rd # <<>>
  PROVE  Clear(msg, i, r, h)
<1>1. PointsTo(msg, i, p) /\ Len(r.name) = 2
  BY PointerStands
<1>2. IsName(msg, i, h, 2)
  <2>1. Question \in Nat /\ p \in Nat
    BY DEF Question
  <2> QED
    BY <1>1, <2>1, NameChained
<1> QED
  BY <1>1, <1>2 DEF Clear

LEMMA WireLong ==
  ASSUME NEW r \in Good
  PROVE  Wire(r) \in Seq(Byte) /\ Len(Wire(r)) \in Nat /\ Len(Wire(r)) # 0
<1>1. r \in GoodRecord /\ Len(r.rd) <= 1000
  BY DEF Good
<1>2. PICK a \in Nat, b \in Nat : a = Len(r.name) /\ b = Len(r.rd)
  BY <1>1 DEF GoodRecord
<1>3. Wire(r) \in Seq(Byte) /\ Len(Wire(r)) = a + 10 + b
  BY <1>1, <1>2, WireBytes
<1> QED
  BY <1>3

\* The only record of a message.
LEMMA OneStands ==
  ASSUME NEW h \in Seq(Byte), Len(h) <= 254, InDns(h), NEW k \in Kinds, NEW n \in Nat,
         k # "refused", NEW r \in Good, Records(h, k, n) = <<r>>
  PROVE  \E msg \in Seq(Byte) :
           /\ Len(msg) = Answer(h) + Len(Wire(r))
           /\ Holds(msg, Question, Spelled(h))
           /\ Stands(msg, Answer(h), r)
           /\ parse_rfc8484(h, Reply(h, k, n)) = Answers(msg, lcs(Dotted(h)), Answer(h))
<1>1. PICK msg \in Seq(Byte), tail \in Seq(Byte) :
           /\ tail = Wires(Records(h, k, n))
           /\ Framed(msg, tail, h)
           /\ parse_rfc8484(h, Reply(h, k, n)) =
                IF k = "refused" \/ tail = <<>> THEN {}
                ELSE Answers(msg, lcs(Dotted(h)), Answer(h))
  BY ParseIs
<1>2. PICK g \in GoodRecord : g = r /\ Len(g.rd) <= 1000
  BY DEF Good
<1>3. tail = Wire(g)
  BY <1>1, <1>2, WiresIs
<1>4. tail # <<>>
  BY <1>2, <1>3, WireLong
<1>5. Answer(h) \in Nat
  BY AnswerIs
<1>6. Stands(msg, Answer(h), g)
  BY <1>1, <1>2, <1>3, <1>5, StandsIs DEF Framed
<1> QED
  BY <1>1, <1>2, <1>3, <1>4, <1>6 DEF Framed

\* Two records, the second at index i.
LEMMA TwoStand ==
  ASSUME NEW h \in Seq(Byte), Len(h) <= 254, InDns(h), NEW k \in Kinds, NEW n \in Nat,
         k # "refused", NEW r \in Good, NEW s \in Good, Records(h, k, n) = <<r, s>>
  PROVE  \E msg \in Seq(Byte), i \in Nat :
           /\ i = Answer(h) + Len(Wire(r))
           /\ Len(msg) = i + Len(Wire(s))
           /\ Holds(msg, Question, Spelled(h))
           /\ Stands(msg, Answer(h), r)
           /\ Stands(msg, i, s) /\ Holds(msg, i, Wire(s))
           /\ parse_rfc8484(h, Reply(h, k, n)) = Answers(msg, lcs(Dotted(h)), Answer(h))
<1>1. PICK msg \in Seq(Byte), tail \in Seq(Byte) :
           /\ tail = Wires(Records(h, k, n))
           /\ Framed(msg, tail, h)
           /\ parse_rfc8484(h, Reply(h, k, n)) =
                IF k = "refused" \/ tail = <<>> THEN {}
                ELSE Answers(msg, lcs(Dotted(h)), Answer(h))
  BY ParseIs
<1>2. PICK g \in GoodRecord : g = r /\ Len(g.rd) <= 1000
  BY DEF Good
<1>3. PICK l \in GoodRecord : l = s /\ Len(l.rd) <= 1000
  BY DEF Good
<1>4. PICK v \in Seq(Byte), w \in Seq(Byte) : v = Wire(g) /\ w = Wire(l)
  BY <1>2, <1>3, WireBytes, ZenonT(30)
<1>5. tail = v \o w
  BY <1>1, <1>2, <1>3, <1>4, WiresIs, ZenonT(30)
<1>6. PICK a \in Nat, b \in Nat, A \in Nat : a = Len(v) /\ b = Len(w) /\ A = Answer(h)
  BY AnswerIs
<1>7. Len(tail) = a + b
  BY <1>5, <1>6, JoinIs
<1>8. tail # <<>>
  <2>1. a # 0
    BY <1>2, <1>4, <1>6, WireLong
  <2>2. Len(tail) # 0
    BY <2>1, <1>7
  <2> QED
    BY <2>2
<1>9. PICK i \in Nat : i = A + a
  OBVIOUS
<1>10. Len(msg) = i + b /\ Holds(msg, A, tail)
  <2>1. Len(msg) = A + Len(tail) /\ Holds(msg, A, tail)
    BY <1>1, <1>6 DEF Framed
  <2>2. A + (a + b) = i + b
    BY <1>9
  <2> QED
    BY <2>1, <2>2, <1>7
<1>11. PICK z \in Nat : z = 0 /\ A + z = A
  OBVIOUS
<1>12. Holds(tail, z, v) /\ Holds(tail, a, w)
  BY <1>5, <1>6, <1>11, HoldsJoin
<1>13. Holds(msg, A + z, v) /\ Holds(msg, A + a, w)
  BY <1>10, <1>12, HoldsIn
<1>14. Holds(msg, A, v) /\ Holds(msg, i, w)
  BY <1>9, <1>11, <1>13
<1>15. Stands(msg, A, g) /\ Stands(msg, i, l)
  BY <1>2, <1>3, <1>4, <1>14, StandsIs
<1> QED
  BY <1>1, <1>2, <1>3, <1>4, <1>6, <1>8, <1>9, <1>10, <1>14, <1>15, ZenonT(30) DEF Framed

-----------------------------------------------------------------------------
(* Each kind of answer                                                     *)

Heard(h, k, n) == parse_rfc8484(h, Reply(h, k, n))
Exact(h, k, n) == Heard(h, k, n) = {Address(a) : a \in Addresses(h, k, n)}
Spoilt(h, k, n) == \E i \in Heard(h, k, n) : i.type # "A"

\* An address record, of the name o in some spelling.
IsAddress(r, o) == lcs(r.owner) = lcs(o) /\ r.type = TypeA /\ Len(r.rd) = 4

LEMMA AddressGives ==
  ASSUME NEW h, NEW r, NEW o, IsAddress(r, o)
  PROVE  /\ Passes(h, r, o) /\ r.rd # <<>>
         /\ Gives(h, r, o) = {Address(a) : a \in Tells(h, r)}
<1>1. lcs(r.owner) = lcs(o) /\ r.type = TypeA /\ Len(r.rd) = 4
  BY DEF IsAddress
<1>2. r.type # TypeCNAME /\ r.type # TypeAAAA
  BY <1>1 DEF TypeA, TypeCNAME, TypeAAAA
<1>3. r.rd # <<>>
  <2>1. Len(<<>>) = 0
    OBVIOUS
  <2> QED
    BY <1>1, <2>1
<1>4. Passes(h, r, o)
  BY <1>1, <1>2 DEF Passes
<1>5. CASE lcs(o) = lcs(h)
  <2>1. Gives(h, r, o) = {Address(r.rd)} /\ Tells(h, r) = {r.rd}
    BY <1>1, <1>5 DEF Gives, Tells
  <2> QED
    BY <2>1, <1>3, <1>4
<1>6. CASE lcs(o) # lcs(h)
  <2>1. Gives(h, r, o) = {} /\ Tells(h, r) = {}
    BY <1>1, <1>2, <1>6 DEF Gives, Tells
  <2> QED
    BY <2>1, <1>3, <1>4
<1> QED
  BY <1>5, <1>6

LEMMA OwnIs ==
  ASSUME NEW h, NEW n \in Nat
  PROVE  /\ IsAddress(OwnRecord(h, n), h) /\ OwnRecord(h, n).name = Pointer(Question)
         /\ Tells(h, OwnRecord(h, n)) = {IP(n)}
<1>1. PICK r : r = OwnRecord(h, n)
  OBVIOUS
<1>2. /\ r.owner = h /\ r.name = Pointer(Question) /\ r.type = TypeA /\ r.rd = IP(n)
  BY <1>1 DEF OwnRecord, Own, Record
<1>3. Len(r.rd) = 4
  BY <1>2, IPIs
<1> QED
  BY <1>1, <1>2, <1>3 DEF IsAddress, Tells

LEMMA ExactOne ==
  ASSUME NEW h \in Seq(Byte), Len(h) <= 254, InDns(h), NEW n \in Nat
  PROVE  Exact(h, "one", n)
<1>1. PICK r \in Good : r = OwnRecord(h, n)
  BY RecordsGood
<1>2. PICK k \in Kinds : k = "one" /\ k # "refused" /\ Records(h, k, n) = <<r>>
  BY <1>1, RecordsOf DEF Kinds
<1>3. PICK msg \in Seq(Byte) :
           /\ Len(msg) = Answer(h) + Len(Wire(r))
           /\ Holds(msg, Question, Spelled(h))
           /\ Stands(msg, Answer(h), r)
           /\ parse_rfc8484(h, Reply(h, k, n)) = Answers(msg, lcs(Dotted(h)), Answer(h))
  BY <1>2, OneStands
<1>4. PICK A \in Nat : A = Answer(h)
  BY AnswerIs
<1>5. /\ IsAddress(r, h) /\ r.name = Pointer(Question)
  BY <1>1, OwnIs
<1>6. /\ Passes(h, r, h) /\ r.rd # <<>>
      /\ Gives(h, r, h) = {Address(a) : a \in Tells(h, r)}
  BY <1>5, AddressGives
<1>7. Clear(msg, A, r, h)
  BY <1>3, <1>4, <1>5, <1>6, OwnClear
<1>8. Answers(msg, lcs(Dotted(h)), A)
        = Gives(h, r, h) \cup Answers(msg, lcs(Dotted(h)), A + Len(Wire(r)))
  BY <1>6, <1>7, RecordPasses
<1>9. Answers(msg, lcs(Dotted(h)), A + Len(Wire(r))) = {}
  <2>1. PICK i \in Nat : i = A + Len(Wire(r)) /\ i >= Len(msg)
    BY <1>3, <1>4, WireLong
  <2> QED
    BY <2>1, NothingBehind
<1>10. Addresses(h, k, n) = Tells(h, r)
  BY <1>2, ToldOne
<1> QED
  BY <1>2, <1>3, <1>4, <1>6, <1>8, <1>9, <1>10 DEF Exact, Heard

\* The owner is written out in capitals.
LEMMA ExactSpelled ==
  ASSUME NEW h \in Seq(Byte), Len(h) <= 254, InDns(h), NEW n \in Nat
  PROVE  Exact(h, "spelled", n)
<1>1. PICK r \in Good : r = InCapitals(h, n)
  BY RecordsGood
<1>2. PICK k \in Kinds : k = "spelled" /\ k # "refused" /\ Records(h, k, n) = <<r>>
  BY <1>1, RecordsOf DEF Kinds
<1>3. PICK msg \in Seq(Byte) :
           /\ Len(msg) = Answer(h) + Len(Wire(r))
           /\ Holds(msg, Question, Spelled(h))
           /\ Stands(msg, Answer(h), r)
           /\ parse_rfc8484(h, Reply(h, k, n)) = Answers(msg, lcs(Dotted(h)), Answer(h))
  BY <1>2, OneStands
<1>4. PICK A \in Nat : A = Answer(h)
  BY AnswerIs
<1>5. PICK o \in Seq(Byte) : /\ o = Upper(h) /\ Len(o) = Len(h) /\ InDns(o)
                             /\ Spelled(o) = Upper(Spelled(h)) /\ lcs(o) = lcs(h)
  BY UpperIs, CapitalsAre, CapitalCuts
<1>6. /\ IsAddress(r, o) /\ r.name = Spelled(o)
  <2>1. /\ r.owner = h /\ r.name = Upper(Spelled(h)) /\ r.type = TypeA /\ r.rd = IP(n)
    BY <1>1 DEF InCapitals, Record
  <2>2. Len(r.rd) = 4
    BY <2>1, IPIs
  <2> QED
    BY <2>1, <2>2, <1>5 DEF IsAddress
<1>7. /\ Passes(h, r, o) /\ r.rd # <<>>
      /\ Gives(h, r, o) = {Address(a) : a \in Tells(h, r)}
  BY <1>6, AddressGives
<1>8. Clear(msg, A, r, o)
  <2>1. Len(o) <= 254
    BY <1>5
  <2> QED
    BY <2>1, <1>3, <1>4, <1>5, <1>6, <1>7, SpelledClear
<1>9. Answers(msg, lcs(Dotted(h)), A)
        = Gives(h, r, o) \cup Answers(msg, lcs(Dotted(h)), A + Len(Wire(r)))
  BY <1>7, <1>8, RecordPasses
<1>10. Answers(msg, lcs(Dotted(h)), A + Len(Wire(r))) = {}
  <2>1. PICK i \in Nat : i = A + Len(Wire(r)) /\ i >= Len(msg)
    BY <1>3, <1>4, WireLong
  <2> QED
    BY <2>1, NothingBehind
<1>11. Addresses(h, k, n) = Tells(h, r)
  BY <1>2, ToldOne
<1> QED
  BY <1>2, <1>3, <1>4, <1>7, <1>9, <1>10, <1>11 DEF Exact, Heard

\* An address of sixteen bytes is passed on as a text.
LEMMA SpoiltSix ==
  ASSUME NEW h \in Seq(Byte), Len(h) <= 254, InDns(h), NEW n \in Nat
  PROVE  Spoilt(h, "ipv6", n)
<1>1. PICK r \in Good : r = Address6(h)
  BY RecordsGood
<1>2. PICK k \in Kinds : k = "ipv6" /\ k # "refused" /\ Records(h, k, n) = <<r>>
  BY <1>1, RecordsOf DEF Kinds
<1>3. PICK msg \in Seq(Byte) :
           /\ Holds(msg, Question, Spelled(h))
           /\ Stands(msg, Answer(h), r)
           /\ parse_rfc8484(h, Reply(h, k, n)) = Answers(msg, lcs(Dotted(h)), Answer(h))
  BY <1>2, OneStands
<1>4. PICK A \in Nat : A = Answer(h)
  BY AnswerIs
<1>5. /\ r.name = Pointer(Question) /\ r.type = TypeAAAA /\ Len(r.rd) = 16 /\ r.rd # <<>>
  <2>1. r.name = Pointer(Question) /\ r.type = TypeAAAA /\ r.rd = Sixteen
    BY <1>1 DEF Address6, Record
  <2>2. Len(Sixteen) = 16 /\ Sixteen # <<>>
    BY DEF Sixteen
  <2> QED
    BY <2>1, <2>2
<1>6. r.type # TypeA /\ r.type # TypeCNAME
  BY <1>5 DEF TypeA, TypeAAAA, TypeCNAME
<1>7. Passes(h, r, h) /\ Text(r.rd) \in Gives(h, r, h)
  BY <1>5, <1>6 DEF Passes, Gives
<1>8. Clear(msg, A, r, h)
  BY <1>3, <1>4, <1>5, OwnClear
<1>9. Answers(msg, lcs(Dotted(h)), A)
        = Gives(h, r, h) \cup Answers(msg, lcs(Dotted(h)), A + Len(Wire(r)))
  BY <1>7, <1>8, RecordPasses
<1>10. Text(r.rd) \in Heard(h, k, n)
  BY <1>3, <1>4, <1>7, <1>9 DEF Heard
<1>11. Text(r.rd).type # "A"
  BY DEF Text
<1> QED
  BY <1>2, <1>10, <1>11 DEF Spoilt

\* The same record twice would be one: a pointer to its name names it too.
LEMMA ExactChain ==
  ASSUME NEW h \in Seq(Byte), Len(h) <= 254, InDns(h), NEW n \in Nat, Answer(h) < 256
  PROVE  Exact(h, "chain", n)
<1>1. PICK r \in Good, s \in Good : r = OwnRecord(h, n) /\ s = Chained(h, n)
  BY RecordsGood
<1>2. PICK k \in Kinds : k = "chain" /\ k # "refused" /\ Records(h, k, n) = <<r, s>>
  BY <1>1, RecordsOf DEF Kinds
<1>3. PICK msg \in Seq(Byte), i \in Nat :
           /\ i = Answer(h) + Len(Wire(r))
           /\ Len(msg) = i + Len(Wire(s))
           /\ Holds(msg, Question, Spelled(h))
           /\ Stands(msg, Answer(h), r)
           /\ Stands(msg, i, s) /\ Holds(msg, i, Wire(s))
           /\ parse_rfc8484(h, Reply(h, k, n)) = Answers(msg, lcs(Dotted(h)), Answer(h))
  BY <1>2, TwoStand
<1>4. PICK A \in Nat : A = Answer(h)
  BY AnswerIs
<1>5. IsAddress(r, h) /\ r.name = Pointer(Question)
  BY <1>1, OwnIs
<1>6. IsAddress(s, h) /\ s.name = Pointer(A)
  <2>1. s.owner = h /\ s.name = Pointer(Answer(h)) /\ s.type = TypeA /\ s.rd = IP(n + 1)
    BY <1>1 DEF Chained, Record
  <2>2. Len(s.rd) = 4
    BY <2>1, IPIs
  <2> QED
    BY <2>1, <2>2, <1>4 DEF IsAddress
<1>7. /\ Passes(h, r, h) /\ r.rd # <<>>
      /\ Gives(h, r, h) = {Address(a) : a \in Tells(h, r)}
  BY <1>5, AddressGives
<1>8. /\ Passes(h, s, h) /\ s.rd # <<>>
      /\ Gives(h, s, h) = {Address(a) : a \in Tells(h, s)}
  BY <1>6, AddressGives
<1>9. PointsTo(msg, A, Question) /\ Clear(msg, A, r, h)
  BY <1>3, <1>4, <1>5, <1>7, OwnClear
<1>10. Clear(msg, i, s, h)
  <2>1. A \in 0 .. 255 /\ A < Len(msg)
    <3>1. PICK a \in Nat, b \in Nat : a = Len(Wire(r)) /\ b = Len(Wire(s)) /\ a # 0
      BY WireLong
    <3>2. i = A + a /\ Len(msg) = i + b
      BY <3>1, <1>3, <1>4
    <3>3. A < 256
      BY <1>4
    <3> QED
      BY <3>1, <3>2, <3>3
  <2> QED
    BY <2>1, <1>3, <1>6, <1>8, <1>9, ChainClear
<1>11. Answers(msg, lcs(Dotted(h)), A)
         = Gives(h, r, h) \cup Answers(msg, lcs(Dotted(h)), A + Len(Wire(r)))
  BY <1>7, <1>9, RecordPasses
<1>12. Answers(msg, lcs(Dotted(h)), i)
         = Gives(h, s, h) \cup Answers(msg, lcs(Dotted(h)), i + Len(Wire(s)))
  <2>1. Clear(msg, i, s, h) /\ Passes(h, s, h)
    BY <1>8, <1>10
  <2> QED
    BY <2>1, RecordPasses
<1>13. Answers(msg, lcs(Dotted(h)), i + Len(Wire(s))) = {}
  <2>1. PICK e \in Nat : e = i + Len(Wire(s)) /\ e >= Len(msg)
    BY <1>3, WireLong
  <2> QED
    BY <2>1, NothingBehind
<1>14. Addresses(h, k, n) = Tells(h, r) \cup Tells(h, s)
  BY <1>2, ToldTwo
<1>15. Heard(h, k, n) = Gives(h, r, h) \cup Gives(h, s, h)
  BY <1>3, <1>4, <1>11, <1>12, <1>13 DEF Heard
<1> QED
  BY <1>2, <1>7, <1>8, <1>14, <1>15 DEF Exact

\* The address of another name stands first.
LEMMA ExactOther ==
  ASSUME NEW h \in Seq(Byte), Len(h) <= 254, InDns(h), NEW n \in Nat
  PROVE  Exact(h, "other", n)
<1>1. PICK r \in Good, s \in Good : r = OfOther(IP(9)) /\ s = OwnRecord(h, n)
  BY RecordsGood
<1>2. PICK k \in Kinds : k = "other" /\ k # "refused" /\ Records(h, k, n) = <<r, s>>
  BY <1>1, RecordsOf DEF Kinds
<1>3. PICK msg \in Seq(Byte), i \in Nat :
           /\ i = Answer(h) + Len(Wire(r))
           /\ Len(msg) = i + Len(Wire(s))
           /\ Holds(msg, Question, Spelled(h))
           /\ Stands(msg, Answer(h), r)
           /\ Stands(msg, i, s) /\ Holds(msg, i, Wire(s))
           /\ parse_rfc8484(h, Reply(h, k, n)) = Answers(msg, lcs(Dotted(h)), Answer(h))
  BY <1>2, TwoStand
<1>4. PICK A \in Nat : A = Answer(h)
  BY AnswerIs
<1>5. PICK o \in Seq(Byte) : o = Other /\ Len(o) <= 254 /\ InDns(o)
  <2>1. PICK o \in Seq(Byte) : o = Other /\ Len(o) = 2
    BY OtherIs
  <2>2. Len(o) <= 254
    BY <2>1
  <2> QED
    BY <2>1, <2>2, OtherDns
<1>6. IsAddress(r, o) /\ r.name = Spelled(o)
  <2>1. r.owner = Other /\ r.name = Spelled(Other) /\ r.type = TypeA /\ r.rd = IP(9)
    BY <1>1 DEF OfOther, Record
  <2>2. Len(r.rd) = 4
    BY <2>1, IPIs
  <2> QED
    BY <2>1, <2>2, <1>5 DEF IsAddress
<1>7. IsAddress(s, h) /\ s.name = Pointer(Question)
  BY <1>1, OwnIs
<1>8. /\ Passes(h, r, o) /\ r.rd # <<>>
      /\ Gives(h, r, o) = {Address(a) : a \in Tells(h, r)}
  BY <1>6, AddressGives
<1>9. /\ Passes(h, s, h) /\ s.rd # <<>>
      /\ Gives(h, s, h) = {Address(a) : a \in Tells(h, s)}
  BY <1>7, AddressGives
<1>10. Clear(msg, A, r, o)
  BY <1>3, <1>4, <1>5, <1>6, <1>8, SpelledClear
<1>11. Clear(msg, i, s, h)
  BY <1>3, <1>7, <1>9, OwnClear
<1>12. Answers(msg, lcs(Dotted(h)), A)
         = Gives(h, r, o) \cup Answers(msg, lcs(Dotted(h)), A + Len(Wire(r)))
  <2>1. Clear(msg, A, r, o) /\ Passes(h, r, o)
    BY <1>8, <1>10
  <2> QED
    BY <2>1, RecordPasses
<1>13. Answers(msg, lcs(Dotted(h)), i)
         = Gives(h, s, h) \cup Answers(msg, lcs(Dotted(h)), i + Len(Wire(s)))
  BY <1>9, <1>11, RecordPasses
<1>14. Answers(msg, lcs(Dotted(h)), i + Len(Wire(s))) = {}
  <2>1. PICK e \in Nat : e = i + Len(Wire(s)) /\ e >= Len(msg)
    BY <1>3, WireLong
  <2> QED
    BY <2>1, NothingBehind
<1>15. Addresses(h, k, n) = Tells(h, r) \cup Tells(h, s)
  BY <1>2, ToldTwo
<1>16. Heard(h, k, n) = Gives(h, r, o) \cup Gives(h, s, h)
  BY <1>3, <1>4, <1>12, <1>13, <1>14 DEF Heard
<1> QED
  BY <1>2, <1>8, <1>9, <1>15, <1>16 DEF Exact

\* A record that the program cannot read stands behind.
LEMMA ExactEdns ==
  ASSUME NEW h \in Seq(Byte), Len(h) <= 254, InDns(h), NEW n \in Nat
  PROVE  Exact(h, "edns", n)
<1>1. PICK r \in Good, s \in Good : r = OwnRecord(h, n) /\ s = Additional
  BY RecordsGood
<1>2. PICK k \in Kinds : k = "edns" /\ k # "refused" /\ Records(h, k, n) = <<r, s>>
  BY <1>1, RecordsOf DEF Kinds
<1>3. PICK msg \in Seq(Byte), i \in Nat :
           /\ i = Answer(h) + Len(Wire(r))
           /\ Len(msg) = i + Len(Wire(s))
           /\ Holds(msg, Question, Spelled(h))
           /\ Stands(msg, Answer(h), r)
           /\ Stands(msg, i, s) /\ Holds(msg, i, Wire(s))
           /\ parse_rfc8484(h, Reply(h, k, n)) = Answers(msg, lcs(Dotted(h)), Answer(h))
  BY <1>2, TwoStand
<1>4. PICK A \in Nat : A = Answer(h)
  BY AnswerIs
<1>5. IsAddress(r, h) /\ r.name = Pointer(Question)
  BY <1>1, OwnIs
<1>6. /\ Passes(h, r, h) /\ r.rd # <<>>
      /\ Gives(h, r, h) = {Address(a) : a \in Tells(h, r)}
  BY <1>5, AddressGives
<1>7. Clear(msg, A, r, h)
  BY <1>3, <1>4, <1>5, <1>6, OwnClear
<1>8. Answers(msg, lcs(Dotted(h)), A)
        = Gives(h, r, h) \cup Answers(msg, lcs(Dotted(h)), A + Len(Wire(r)))
  BY <1>6, <1>7, RecordPasses
<1>9. Answers(msg, lcs(Dotted(h)), i) = {}
  BY <1>1, <1>3, RecordAdditional
<1>10. Tells(h, s) = {}
  BY <1>1 DEF Additional, Record, Tells, OPT, TypeA
<1>11. Addresses(h, k, n) = Tells(h, r) \cup Tells(h, s)
  BY <1>2, ToldTwo
<1>12. Heard(h, k, n) = Gives(h, r, h)
  BY <1>3, <1>4, <1>8, <1>9 DEF Heard
<1> QED
  BY <1>2, <1>6, <1>10, <1>11, <1>12 DEF Exact

\* The second address has too few bytes.
LEMMA ExactTorn ==
  ASSUME NEW h \in Seq(Byte), Len(h) <= 254, InDns(h), NEW n \in Nat
  PROVE  Exact(h, "torn", n)
<1>1. PICK r \in Good, s \in Good : r = OwnRecord(h, n) /\ s = Torn(h)
  BY RecordsGood
<1>2. PICK k \in Kinds : k = "torn" /\ k # "refused" /\ Records(h, k, n) = <<r, s>>
  BY <1>1, RecordsOf DEF Kinds
<1>3. PICK msg \in Seq(Byte), i \in Nat :
           /\ i = Answer(h) + Len(Wire(r))
           /\ Len(msg) = i + Len(Wire(s))
           /\ Holds(msg, Question, Spelled(h))
           /\ Stands(msg, Answer(h), r)
           /\ Stands(msg, i, s) /\ Holds(msg, i, Wire(s))
           /\ parse_rfc8484(h, Reply(h, k, n)) = Answers(msg, lcs(Dotted(h)), Answer(h))
  BY <1>2, TwoStand
<1>4. PICK A \in Nat : A = Answer(h)
  BY AnswerIs
<1>5. IsAddress(r, h) /\ r.name = Pointer(Question)
  BY <1>1, OwnIs
<1>6. /\ Passes(h, r, h) /\ r.rd # <<>>
      /\ Gives(h, r, h) = {Address(a) : a \in Tells(h, r)}
  BY <1>5, AddressGives
<1>7. Clear(msg, A, r, h)
  BY <1>3, <1>4, <1>5, <1>6, OwnClear
<1>8. Answers(msg, lcs(Dotted(h)), A)
        = Gives(h, r, h) \cup Answers(msg, lcs(Dotted(h)), A + Len(Wire(r)))
  BY <1>6, <1>7, RecordPasses
<1>9. s.name = Pointer(Question) /\ s.type = TypeA /\ Len(s.rd) # 4 /\ s.rd # <<>>
  <2>1. s.name = Pointer(Question) /\ s.type = TypeA /\ s.rd = <<10, 0>>
    BY <1>1 DEF Torn, Own, Record
  <2>2. Len(s.rd) = 2
    BY <2>1
  <2> QED
    BY <2>1, <2>2
<1>10. Clear(msg, i, s, h)
  BY <1>3, <1>9, OwnClear
<1>11. Answers(msg, lcs(Dotted(h)), i) = {}
  BY <1>9, <1>10, RecordTorn
<1>12. Tells(h, s) = {}
  BY <1>9 DEF Tells
<1>13. Addresses(h, k, n) = Tells(h, r) \cup Tells(h, s)
  BY <1>2, ToldTwo
<1>14. Heard(h, k, n) = Gives(h, r, h)
  BY <1>3, <1>4, <1>8, <1>11 DEF Heard
<1> QED
  BY <1>2, <1>6, <1>12, <1>13, <1>14 DEF Exact

\* The alias of the host is passed on as a text.
LEMMA SpoiltAlias ==
  ASSUME NEW h \in Seq(Byte), Len(h) <= 254, InDns(h), NEW n \in Nat
  PROVE  Spoilt(h, "alias", n)
<1>1. PICK r \in Good, s \in Good : r = Named5(h) /\ s = OfOther(IP(n))
  BY RecordsGood
<1>2. PICK k \in Kinds : k = "alias" /\ k # "refused" /\ Records(h, k, n) = <<r, s>>
  BY <1>1, RecordsOf DEF Kinds
<1>3. PICK msg \in Seq(Byte), i \in Nat :
           /\ i = Answer(h) + Len(Wire(r))
           /\ Len(msg) = i + Len(Wire(s))
           /\ Holds(msg, Question, Spelled(h))
           /\ Stands(msg, Answer(h), r)
           /\ Stands(msg, i, s) /\ Holds(msg, i, Wire(s))
           /\ parse_rfc8484(h, Reply(h, k, n)) = Answers(msg, lcs(Dotted(h)), Answer(h))
  BY <1>2, TwoStand
<1>4. PICK A \in Nat : A = Answer(h)
  BY AnswerIs
<1>5. /\ r.name = Pointer(Question) /\ r.type = TypeCNAME /\ r.rd = Spelled(Other)
  BY <1>1 DEF Named5, Record
<1>6. r.rd # <<>>
  <2>1. PICK w \in Seq(Byte) : w = Spelled(Other) /\ Len(w) = Len(Other) + 2
    BY OtherIs, OtherDns, SpelledIs
  <2>2. Len(w) = 4
    BY <2>1, OtherIs
  <2> QED
    BY <2>1, <2>2, <1>5
<1>7. Clear(msg, A, r, h)
  BY <1>3, <1>4, <1>5, <1>6, OwnClear
<1>8. Text(host2qname(Dotted(Other))) \in Answers(msg, lcs(Dotted(h)), A)
  BY <1>5, <1>7, RecordAlias
<1>9. Text(host2qname(Dotted(Other))) \in Heard(h, k, n)
  BY <1>3, <1>4, <1>8 DEF Heard
<1>10. Text(host2qname(Dotted(Other))).type # "A"
  BY DEF Text
<1> QED
  BY <1>2, <1>9, <1>10 DEF Spoilt

\* No answers, and an error.
LEMMA ExactNone ==
  ASSUME NEW h \in Seq(Byte), Len(h) <= 254, InDns(h), NEW n \in Nat
  PROVE  Exact(h, "none", n) /\ Exact(h, "refused", n)
<1>1. Exact(h, "none", n)
  <2>1. PICK k \in Kinds : k = "none" /\ k # "refused" /\ Records(h, k, n) = <<>>
    BY RecordsOf DEF Kinds
  <2>2. PICK msg \in Seq(Byte), tail \in Seq(Byte) :
             /\ tail = Wires(Records(h, k, n))
             /\ parse_rfc8484(h, Reply(h, k, n)) =
                  IF k = "refused" \/ tail = <<>> THEN {}
                  ELSE Answers(msg, lcs(Dotted(h)), Answer(h))
    BY ParseIs
  <2>3. tail = <<>>
    <3>1. PICK r \in Good : r = OwnRecord(h, n)
      BY RecordsGood
    <3>2. Wires(<<>>) = <<>>
      BY <3>1, WiresIs
    <3> QED
      BY <2>1, <2>2, <3>2
  <2>4. Heard(h, k, n) = {}
    BY <2>2, <2>3 DEF Heard
  <2>5. Addresses(h, k, n) = {}
    BY <2>1 DEF Addresses
  <2> QED
    BY <2>1, <2>4, <2>5 DEF Exact
<1>2. Exact(h, "refused", n)
  <2>1. PICK k \in Kinds : k = "refused"
    BY DEF Kinds
  <2>2. PICK msg \in Seq(Byte), tail \in Seq(Byte) :
             parse_rfc8484(h, Reply(h, k, n)) =
                  IF k = "refused" \/ tail = <<>> THEN {}
                  ELSE Answers(msg, lcs(Dotted(h)), Answer(h))
    BY ParseIs
  <2>3. Heard(h, k, n) = {}
    BY <2>1, <2>2 DEF Heard
  <2>4. Addresses(h, k, n) = {}
    BY <2>1 DEF Addresses
  <2> QED
    BY <2>1, <2>3, <2>4 DEF Exact
<1> QED
  BY <1>1, <1>2

\* A message within reach tells all and only what the provider says, or holds
\* something that no endpoint can be made of.
LEMMA WithinReach ==
  ASSUME NEW h \in Seq(Byte), Len(h) <= 254, InDns(h), NEW k \in Kinds, NEW n \in Nat,
         Near(h, k)
  PROVE  Exact(h, k, n) \/ Spoilt(h, k, n)
<1>1. k # "far" /\ (k = "chain" => Answer(h) < 256)
  BY DEF Near
<1>2. k \in {"one", "chain", "spelled", "edns", "other", "alias", "ipv6", "none",
             "refused", "torn"}
  BY <1>1 DEF Kinds
<1> QED
  BY <1>1, <1>2, ExactOne, ExactChain, ExactSpelled, ExactEdns, ExactOther, SpoiltAlias,
     SpoiltSix, ExactNone, ExactTorn

-----------------------------------------------------------------------------
(* A name that the DNS cannot hold                                         *)

\* What is read has no label of more than 63 bytes.
LEMMA ReadDot ==
  ASSUME NEW msg \in Seq(Byte), NEW f \in [Places(msg) -> Named], Reads(f, msg)
  PROVE  \A x \in Places(msg) :
           f[x].ok /\ f[x].name # <<>> => \E j \in 0 .. 63 : At(f[x].name, j) = DOT
<1> DEFINE S == {x \in Places(msg) :
                   f[x].ok /\ f[x].name # <<>> => \E j \in 0 .. 63 : At(f[x].name, j) = DOT}
<1>1. PICK L \in Nat : L = Len(msg)
  OBVIOUS
<1>2. PICK m \in [Places(msg) -> Nat] : m = [x \in Places(msg) |-> Left(L, x[1], x[2])]
  <2>1. ASSUME NEW x \in Places(msg) PROVE Left(L, x[1], x[2]) \in Nat
    <3>1. PICK i \in 0 .. L, d \in 0 .. 10 : i = x[1] /\ d = x[2]
      BY <1>1 DEF Places
    <3>2. Left(L, i, d) \in 0 .. 11 * L + 10
      BY LeftIs
    <3> QED
      BY <3>1, <3>2
  <2> QED
    BY <2>1
<1> HIDE DEF S
<1>3. \A x \in Places(msg) : (\A y \in Places(msg) : m[y] < m[x] => y \in S) => x \in S
  <2> SUFFICES ASSUME NEW x \in Places(msg), \A y \in Places(msg) : m[y] < m[x] => y \in S
               PROVE  x \in S
    OBVIOUS
  <2>1. PICK i \in 0 .. L, d \in 0 .. 10 : x = <<i, d>>
    BY <1>1 DEF Places
  <2>2. f[<<i, d>>] = IF Ends(msg, i, d) THEN End(msg, i)
                      ELSE Before(msg, i, d, f[Follow(msg, i, d)])
    BY <1>1 DEF Reads
  <2>3. CASE Ends(msg, i, d)
    <3>1. f[x] = End(msg, i)
      BY <2>1, <2>2, <2>3
    <3>2. f[x].name = <<>>
      BY <3>1 DEF End, Bad
    <3> QED
      BY <3>2 DEF S
  <2>4. CASE ~Ends(msg, i, d) /\ IsPointer(msg, i)
    <3>1. PICK y : y = Follow(msg, i, d)
      OBVIOUS
    <3>2. /\ y \in Places(msg)
          /\ \/ y[2] = d /\ y[1] > i
             \/ y[2] = d + 1
      BY <3>1, <2>4, <1>1, FollowIs
    <3>3. PICK j \in 0 .. L, e \in 0 .. 10 : y = <<j, e>>
      BY <3>2, <1>1 DEF Places
    <3>4. e = d + 1
      BY <3>1, <3>3, <2>4 DEF Follow
    <3>5. d < 10
      BY <3>4
    <3>6. Left(L, j, d + 1) < Left(L, i, d)
      BY <3>5, LeftIs
    <3>7. m[y] < m[x]
      <4>1. m[y] = Left(L, j, e) /\ m[x] = Left(L, i, d)
        BY <3>2, <3>3, <2>1, <1>2
      <4> QED
        BY <4>1, <3>4, <3>6
    <3>8. y \in S
      BY <3>2, <3>7
    <3>9. PICK rest \in Named : rest = f[y]
      BY <3>2
    <3>10. f[x] = Before(msg, i, d, rest)
      BY <3>1, <3>9, <2>1, <2>2, <2>4
    <3>11. f[x] = [rest EXCEPT !.used = @ + Used(d)]
      BY <3>10, <2>4 DEF Before
    <3>12. f[x].ok = rest.ok /\ f[x].name = rest.name
      BY <3>11 DEF Named
    <3> QED
      BY <3>8, <3>9, <3>12 DEF S
  <2>5. CASE ~Ends(msg, i, d) /\ ~IsPointer(msg, i)
    <3>1. At(msg, i) # 0 /\ ~(At(msg, i) + i + 1 > Len(msg))
      BY <2>5 DEF Ends, IsLabel
    <3>2. PICK n \in 1 .. 63 : n = At(msg, i)
      <4>1. PICK a \in Nat : a = At(msg, i)
        BY AtNat
      <4>2. a # 0 /\ ~(a > 63)
        BY <4>1, <3>1, <2>5 DEF IsPointer, dns_max_label
      <4>3. a \in 1 .. 63
        BY <4>2
      <4> QED
        BY <4>1, <4>3
    <3>3. i \in Nat /\ n + i + 1 <= Len(msg) /\ At(msg, i) = n
      BY <3>1, <3>2, <1>1
    <3>4. LabelAdds(msg, i, d, n, f[<<i, d>>], f[<<i + n + 1, d>>])
      BY <3>3, LabelRead
    <3>5. At(f[<<i, d>>].name, n) = DOT
      BY <3>4 DEF LabelAdds
    <3>6. n \in 0 .. 63
      OBVIOUS
    <3> QED
      BY <3>5, <3>6, <2>1 DEF S
  <2> QED
    BY <2>3, <2>4, <2>5
<1>4. \A x \in Places(msg) : x \in S
  BY <1>3, Descent
<1> QED
  BY <1>4 DEF S

\* What is read is the name from place c on, in small letters or capitals.
Matches(r, z, c) ==
  /\ r.ok
  /\ Len(r.name) = Len(z) - c
  /\ \A j \in Nat : c + j < Len(z) => Low(At(r.name, j)) = Low(At(z, c + j))

\* The label behind a cut is one that the DNS can hold.
Fits(h, c) == LabelEnd(h, c + 1) - c - 1 \in 1 .. dns_max_label

LEMMA LowDot ==
  ASSUME NEW b \in Byte, Low(b) = DOT
  PROVE  b = DOT
BY SMT DEF Low, DOT, Byte

\* The wire form of a host, from each of its places on.
Wired(g, h) ==
  /\ \A p \in 1 .. Len(h) + 2 : p > Len(h) => g[p] = <<0>>
  /\ \A p \in 1 .. Len(h) : g[p] = Glue(Size(h, p), SubSeq(h, p, p + Size(h, p) - 1),
                                        g[Further(h, p)])

\* What is behind the label at cut c is read as itself, too.
Passed(msg, f, h, g, c) ==
  \E e \in Cuts(h) \cup {Len(h) + 1}, k \in Nat :
    /\ e > c /\ \A x \in Cuts(h) : x > c => x >= e
    /\ Holds(msg, k, g[e + 1]) /\ Matches(f[<<k, 0>>], Dotted(h), e)

\* A label of the host that is read as itself fits.
LEMMA CutMatches ==
  ASSUME NEW msg \in Seq(Byte), NEW f \in [Places(msg) -> Named], Reads(f, msg),
         NEW h \in Seq(Byte), Len(h) <= 255,
         NEW g \in [1 .. Len(h) + 2 -> Seq(Byte)], Wired(g, h),
         NEW c \in Cuts(h), NEW i \in Nat, Holds(msg, i, g[c + 1]),
         Matches(f[<<i, 0>>], Dotted(h), c)
  PROVE  Fits(h, c) /\ Passed(msg, f, h, g, c)
<1>1. PICK N \in Nat : N = Len(h) /\ N <= 255
  OBVIOUS
<1>2. PICK z \in Seq(Byte) : /\ z = Dotted(h) /\ Len(z) = N + 1
                             /\ \A j \in Nat : j < N => At(z, j) = h[j + 1]
  BY <1>1, DottedIs
<1>3. c \in 0 .. N
  BY <1>1 DEF Cuts
<1>4. PICK L \in Nat : L = Len(msg)
  OBVIOUS
<1>5. PICK p \in 1 .. N + 1 : p = c + 1
  BY <1>3
<1>6. PICK w \in Seq(Byte) : w = g[p] /\ w = g[c + 1]
  BY <1>1, <1>5
<1>7. Holds(msg, i, w)
  BY <1>6
<1>8. PICK r : r = f[<<i, 0>>]
  OBVIOUS
<1>9. r.ok /\ Len(r.name) = N + 1 - c
      /\ \A j \in Nat : c + j < N + 1 => Low(At(r.name, j)) = Low(At(z, c + j))
  <2>1. r.ok /\ Len(r.name) = Len(z) - c
        /\ \A j \in Nat : c + j < Len(z) => Low(At(r.name, j)) = Low(At(z, c + j))
    BY <1>2, <1>8 DEF Matches
  <2> QED
    BY <2>1, <1>2, <1>3
<1>10. Len(w) # 0 => i + 1 <= L /\ At(msg, i) = At(w, 0)
  <2> SUFFICES ASSUME Len(w) # 0 PROVE i + 1 <= L /\ At(msg, i) = At(w, 0)
    OBVIOUS
  <2>1. PICK m \in Nat : m = Len(w) /\ m # 0
    OBVIOUS
  <2>2. i + m <= L
    BY <2>1, <1>4, <1>7 DEF Holds
  <2>3. PICK k \in Nat : k = 0
    OBVIOUS
  <2>4. k < Len(w)
    BY <2>1, <2>3
  <2>5. At(msg, i + k) = At(w, k)
    BY <2>4, <1>7, HoldsAt
  <2> QED
    BY <2>1, <2>2, <2>3, <2>5
<1>11. Len(w) # 0 => At(w, 0) # 0
  <2> SUFFICES ASSUME Len(w) # 0, At(w, 0) = 0 PROVE FALSE
    OBVIOUS
  <2>1. i \in 0 .. Len(msg) /\ At(msg, i) = 0
    BY <1>4, <1>10
  <2>2. Ends(msg, i, 0) /\ End(msg, i) = [ok |-> TRUE, name |-> <<>>, used |-> 0]
    BY <2>1 DEF Ends, End
  <2>3. PICK d \in 0 .. 10 : d = 0
    OBVIOUS
  <2>4. f[<<i, d>>] = IF Ends(msg, i, d) THEN End(msg, i)
                      ELSE Before(msg, i, d, f[Follow(msg, i, d)])
    BY <2>1 DEF Reads
  <2>5. r = [ok |-> TRUE, name |-> <<>>, used |-> 0]
    BY <2>2, <2>3, <2>4, <1>8
  <2>6. Len(r.name) = 0
    BY <2>5
  <2> QED
    BY <2>6, <1>3, <1>9
<1>12. p <= N
  <2> SUFFICES ASSUME p = N + 1 PROVE FALSE
    OBVIOUS
  <2>1. g[p] = <<0>>
    BY <1>1 DEF Wired
  <2>2. Len(w) = 1 /\ At(w, 0) = 0
    BY <2>1, <1>6 DEF At
  <2> QED
    BY <2>2, <1>11
<1>13. PICK n \in Nat : /\ n = Size(h, p) /\ p + n <= N + 1 /\ n <= 255
                        /\ Further(h, p) \in p + 1 .. N + 2
  <2>1. p \in 1 .. Len(h)
    BY <1>1, <1>12
  <2>2. /\ Size(h, p) \in 0 .. Len(h) /\ p + Size(h, p) <= Len(h) + 1
        /\ Further(h, p) \in p + 1 .. Len(h) + 2
    BY <2>1, SizeIs
  <2>3. PICK n \in Nat : n = Size(h, p) /\ n <= N
    BY <2>2, <1>1
  <2> QED
    BY <2>2, <2>3, <1>1
<1>14. PICK label \in Seq(Byte) : label = SubSeq(h, p, p + n - 1) /\ Len(label) = n
  <2>1. PICK j \in Nat : j = p - 1 /\ j + 1 = p /\ j + n = p + n - 1 /\ j + n <= Len(h)
    BY <1>1, <1>13, SMTT(30)
  <2>2. Bytes(h, j, n) \in Seq(Byte) /\ Len(Bytes(h, j, n)) = n
    BY <2>1, BytesIs
  <2>3. Bytes(h, j, n) = SubSeq(h, p, p + n - 1)
    BY <2>1 DEF Bytes
  <2> QED
    BY <2>2, <2>3
<1>15. PICK rest \in Seq(Byte) : rest = g[Further(h, p)]
  BY <1>1, <1>13
<1>16. w = Glue(n, label, rest)
  <2>1. p \in 1 .. Len(h)
    BY <1>1, <1>12
  <2>2. g[p] = Glue(Size(h, p), SubSeq(h, p, p + Size(h, p) - 1), g[Further(h, p)])
    BY <2>1 DEF Wired
  <2> QED
    BY <2>2, <1>6, <1>13, <1>14, <1>15
<1>17. Glued(w, n, label, rest)
  <2>1. n \in Byte
    <3>1. n <= 255
      BY <1>13
    <3> QED
      BY <3>1 DEF Byte
  <2> QED
    BY <2>1, <1>14, <1>16, GlueIs
<1>18. Len(w) = n + 1 + Len(rest) /\ Len(w) # 0 /\ At(w, 0) = n
       /\ \A j \in Nat : At(w, n + 1 + j) = At(rest, j)
  <2>1. Len(w) = n + 1 + Len(rest) /\ At(w, 0) = n
        /\ \A j \in Nat : At(w, n + 1 + j) = At(rest, j)
    BY <1>17 DEF Glued
  <2>2. PICK m \in Nat : m = Len(rest)
    OBVIOUS
  <2> QED
    BY <2>1, <2>2
<1>19. At(msg, i) = n /\ n # 0 /\ i + 1 <= L
  BY <1>10, <1>11, <1>18
<1>20. PICK e \in p .. N + 1 : /\ e = LabelEnd(h, p)
                               /\ e <= N => h[e] = DOT
                               /\ \A x \in p .. e - 1 : h[x] # DOT
  <2>1. p \in 1 .. Len(h) + 1
    BY <1>1
  <2> QED
    BY <2>1, <1>1, LabelEndIs
<1>21. IF e <= N /\ e - p > 63 THEN n = 63 ELSE n = e - p /\ Further(h, p) = e + 1
  BY <1>1, <1>13, <1>20 DEF Size, Further, Split, dns_max_label
<1>22. ASSUME NEW j \in Nat, c + j < e - 1, At(r.name, j) = DOT PROVE FALSE
  <2>1. PICK q \in Nat : q = c + j /\ q < N
    BY <1>3, <1>22
  <2>2. Low(DOT) = Low(At(z, q))
    BY <2>1, <1>9, <1>22
  <2>3. Low(DOT) = DOT
    BY DEF Low, DOT
  <2>4. At(z, q) \in Byte
    BY <2>1, AtIs
  <2>5. At(z, q) = DOT
    BY <2>2, <2>3, <2>4, LowDot
  <2>6. h[q + 1] = DOT
    BY <2>1, <2>5, <1>2
  <2>7. q + 1 \in p .. e - 1
    BY <2>1, <1>3, <1>5, <1>22
  <2> QED
    BY <2>6, <2>7, <1>20
<1>23. n <= 63
  <2> SUFFICES ASSUME n > 63 PROVE FALSE
    OBVIOUS
  <2>1. n = e - p /\ e = N + 1
    BY <1>21
  <2>2. <<i, 0>> \in Places(msg)
    BY <1>4, <1>19 DEF Places
  <2>3. r.name # <<>>
    <3>1. Len(r.name) # 0
      BY <1>3, <1>9
    <3>2. Len(<<>>) = 0
      OBVIOUS
    <3> QED
      BY <3>1, <3>2
  <2>4. PICK j \in 0 .. 63 : At(r.name, j) = DOT
    BY <2>2, <2>3, <1>8, <1>9, ReadDot
  <2>5. c + j < e - 1 /\ j \in Nat
    BY <2>1, <1>3, <1>5
  <2> QED
    BY <2>4, <2>5, <1>22
<1>24. PICK m \in 1 .. 63 : m = n
  <2>1. n # 0 /\ n <= 63
    BY <1>19, <1>23
  <2>2. n \in 1 .. 63
    BY <2>1
  <2> QED
    BY <2>2
<1>25. m + i + 1 <= Len(msg)
  <2>1. PICK t \in Nat : t = Len(rest)
    OBVIOUS
  <2>2. i + Len(w) <= Len(msg)
    BY <1>7 DEF Holds
  <2> QED
    BY <2>1, <2>2, <1>18, <1>24
<1>26. /\ f[<<i, 0>>] \in Named /\ f[<<i + m + 1, 0>>] \in Named
       /\ LabelAdds(msg, i, 0, m, f[<<i, 0>>], f[<<i + m + 1, 0>>])
  <2>1. PICK d \in 0 .. 10 : d = 0
    OBVIOUS
  <2>2. At(msg, i) = m
    BY <1>19, <1>24
  <2>3. /\ f[<<i, d>>] \in Named /\ f[<<i + m + 1, d>>] \in Named
        /\ LabelAdds(msg, i, d, m, f[<<i, d>>], f[<<i + m + 1, d>>])
    BY <2>2, <1>25, LabelRead
  <2> QED
    BY <2>1, <2>3
<1>27. PICK k \in Nat, s \in Named : k = i + m + 1 /\ s = f[<<k, 0>>]
  <2>1. PICK k \in Nat : k = i + m + 1
    OBVIOUS
  <2>2. f[<<k, 0>>] \in Named
    BY <2>1, <1>26
  <2> QED
    BY <2>1, <2>2
<1>28. /\ r.ok = s.ok /\ Len(r.name) = m + 1 + Len(s.name) /\ At(r.name, m) = DOT
       /\ \A j \in Nat : At(r.name, m + 1 + j) = At(s.name, j)
  BY <1>8, <1>26, <1>27 DEF LabelAdds
<1>29. ~(e <= N /\ e - p > 63)
  <2> SUFFICES ASSUME e <= N /\ e - p > 63 PROVE FALSE
    OBVIOUS
  <2>1. m = 63
    BY <1>21, <1>24
  <2>2. c + m < e - 1 /\ m \in Nat
    BY <2>1, <1>3, <1>5
  <2> QED
    BY <2>2, <1>22, <1>28
<1>30. m = e - p /\ Further(h, p) = e + 1 /\ e = c + m + 1
  BY <1>3, <1>5, <1>21, <1>24, <1>29
<1>31. Fits(h, c)
  <2>1. LabelEnd(h, c + 1) = e
    BY <1>5, <1>20
  <2>2. e - c - 1 \in 1 .. 63
    BY <1>3, <1>30
  <2> QED
    BY <2>1, <2>2 DEF Fits, dns_max_label
<1>32. e \in Cuts(h) \cup {Len(h) + 1}
  <2>1. CASE e <= N
    <3>1. DOMAIN h = 1 .. N
      BY <1>1
    <3>2. e \in DOMAIN h /\ h[e] = DOT
      BY <2>1, <3>1, <1>20
    <3> QED
      BY <3>2 DEF Cuts
  <2>2. CASE e = N + 1
    BY <2>2, <1>1
  <2> QED
    BY <2>1, <2>2
<1>33. e > c /\ \A x \in Cuts(h) : x > c => x >= e
  <2>1. e > c
    BY <1>3, <1>30
  <2> SUFFICES ASSUME NEW x \in Cuts(h), x > c, ~(x >= e) PROVE FALSE
    BY <2>1
  <2>2. x \in 0 .. N /\ (x # 0 => h[x] = DOT)
    BY <1>1 DEF Cuts
  <2>3. x # 0 /\ x \in p .. e - 1
    BY <2>2, <1>3, <1>5
  <2> QED
    BY <2>2, <2>3, <1>20
<1>34. Holds(msg, k, g[e + 1])
  <2>1. rest = g[e + 1]
    BY <1>15, <1>30
  <2>2. PICK a \in Nat : a = n + 1
    OBVIOUS
  <2>3. Holds(w, a, rest)
    <3>1. a + Len(rest) <= Len(w)
      <4>1. PICK t \in Nat : t = Len(rest)
        OBVIOUS
      <4> QED
        BY <4>1, <2>2, <1>18
    <3>2. \A j \in 0 .. Len(rest) - 1 : At(w, a + j) = At(rest, j)
      BY <2>2, <1>18
    <3> QED
      BY <3>1, <3>2 DEF Holds
  <2>4. Holds(msg, i + a, rest)
    BY <2>3, <1>7, HoldsIn
  <2>5. i + a = k
    <3>1. a = m + 1 /\ k = i + m + 1
      BY <2>2, <1>24, <1>27
    <3> QED
      BY <3>1
  <2> QED
    BY <2>1, <2>4, <2>5
<1>35. Matches(s, z, e)
  <2>1. s.ok
    BY <1>9, <1>28
  <2>2. Len(s.name) = Len(z) - e
    <3>1. PICK t \in Nat : t = Len(s.name)
      BY DEF Named
    <3>2. N + 1 - c = m + 1 + t
      BY <3>1, <1>9, <1>28
    <3>3. t = N + 1 - e
      BY <3>2, <1>3, <1>30
    <3> QED
      BY <3>1, <3>3, <1>2
  <2>3. ASSUME NEW j \in Nat, e + j < Len(z)
        PROVE  Low(At(s.name, j)) = Low(At(z, e + j))
    <3>1. PICK q \in Nat : q = m + 1 + j
      OBVIOUS
    <3>2. c + q = e + j /\ c + q < N + 1
      BY <3>1, <2>3, <1>2, <1>3, <1>30
    <3>3. Low(At(r.name, q)) = Low(At(z, c + q))
      BY <3>2, <1>9
    <3>4. At(r.name, q) = At(s.name, j)
      BY <3>1, <1>28
    <3> QED
      BY <3>2, <3>3, <3>4
  <2> QED
    BY <2>1, <2>2, <2>3 DEF Matches
<1> QED
  BY <1>2, <1>27, <1>31, <1>32, <1>33, <1>34, <1>35 DEF Passed

\* A host whose question is read as its own name is one the DNS can hold.
LEMMA MustFit ==
  ASSUME NEW msg \in Seq(Byte), NEW f \in [Places(msg) -> Named], Reads(f, msg),
         NEW h \in Seq(Byte), Len(h) <= 255, NEW b \in Nat,
         Holds(msg, b, host2qname(h)), Matches(f[<<b, 0>>], Dotted(h), 0)
  PROVE  InDns(h)
<1>1. PICK N \in Nat : N = Len(h) /\ N <= 255
  OBVIOUS
<1>2. PICK g \in [1 .. Len(h) + 2 -> Seq(Byte)] : host2qname(h) = g[1] /\ Wired(g, h)
  BY WireIs DEF Wired, Glue
<1> DEFINE X == Cuts(h) \cup {N + 1}
           S == {c \in X : \A i \in Nat :
                   Holds(msg, i, g[c + 1]) /\ Matches(f[<<i, 0>>], Dotted(h), c) =>
                     \A x \in Cuts(h) : x >= c => Fits(h, x)}
<1>3. \A c \in X : c \in 0 .. N + 1
  BY <1>1 DEF Cuts
<1>4. PICK m \in [X -> Nat] : m = [c \in X |-> N + 1 - c]
  <2>1. \A c \in X : N + 1 - c \in Nat
    BY <1>3
  <2> QED
    BY <2>1
<1>5. \A c \in Cuts(h) : 0 <= c /\ c <= N
  BY <1>1 DEF Cuts
<1> HIDE DEF S
<1>6. \A c \in X : (\A y \in X : m[y] < m[c] => y \in S) => c \in S
  <2> SUFFICES ASSUME NEW c \in X, \A y \in X : m[y] < m[c] => y \in S PROVE c \in S
    OBVIOUS
  <2>1. CASE c \in Cuts(h)
    <3> SUFFICES ASSUME NEW i \in Nat, Holds(msg, i, g[c + 1]),
                        Matches(f[<<i, 0>>], Dotted(h), c), NEW x \in Cuts(h), x >= c
                 PROVE  Fits(h, x)
      BY DEF S
    <3>1. Fits(h, c) /\ Passed(msg, f, h, g, c)
      BY <2>1, <1>2, CutMatches
    <3>2. PICK e \in X, k \in Nat :
               /\ e > c /\ \A y \in Cuts(h) : y > c => y >= e
               /\ Holds(msg, k, g[e + 1]) /\ Matches(f[<<k, 0>>], Dotted(h), e)
      BY <3>1, <1>1 DEF Passed
    <3>3. e \in 0 .. N + 1 /\ c \in 0 .. N + 1 /\ x \in 0 .. N + 1
      BY <1>3
    <3>4. m[e] = N + 1 - e /\ m[c] = N + 1 - c
      BY <1>4
    <3>5. e \in S
      <4>1. m[e] < m[c]
        BY <3>2, <3>3, <3>4
      <4> QED
        BY <4>1
    <3>6. CASE x = c
      BY <3>1, <3>6
    <3>7. CASE x > c
      <4>1. x >= e
        BY <3>2, <3>7
      <4> QED
        BY <4>1, <3>2, <3>5 DEF S
    <3> QED
      BY <3>3, <3>6, <3>7
  <2>2. CASE c = N + 1
    <3>1. \A x \in Cuts(h) : ~(x >= c)
      <4> SUFFICES ASSUME NEW x \in Cuts(h) PROVE ~(x >= c)
        OBVIOUS
      <4>1. x \in 0 .. N + 1
        BY <1>3
      <4>2. x <= N
        BY <1>5
      <4> QED
        BY <4>1, <4>2, <2>2
    <3> QED
      BY <3>1 DEF S
  <2> QED
    BY <2>1, <2>2
<1>7. \A c \in X : c \in S
  <2> HIDE DEF X
  <2> QED
    BY <1>4, <1>6, Descent
<1>8. 0 \in X /\ 0 + 1 = 1
  BY DEF Cuts
<1>9. \A x \in Cuts(h) : x >= 0 => Fits(h, x)
  <2>1. Holds(msg, b, g[0 + 1])
    BY <1>2, <1>8
  <2>2. 0 \in S
    BY <1>7, <1>8
  <2> QED
    BY <2>1, <2>2 DEF S
<1> QED
  BY <1>5, <1>9 DEF InDns, Fits

\* Whatever the name: a message tells only of a host whose question is read.
LEMMA HeardFits ==
  ASSUME NEW h \in Seq(Byte), Len(h) <= 254, NEW k \in Kinds, NEW n \in Nat,
         Heard(h, k, n) # {}
  PROVE  InDns(h)
<1>1. PICK msg \in Seq(Byte) : msg = Reply(h, k, n) /\ Holds(msg, 12, host2qname(h))
  BY ReplyIs
<1>2. PICK q : q = qname2host(msg, 12)
  OBVIOUS
<1>3. /\ ~(Len(msg) < 12 + 5) /\ ~(q.used <= 0) /\ lcs(Dotted(h)) = lcs(q.name)
  <2>1. parse_rfc8484(h, msg) # {}
    BY <1>1 DEF Heard
  <2> QED
    BY <2>1, <1>2 DEF parse_rfc8484, Question, Dotted
<1>4. PICK f \in [Places(msg) -> Named] : Reads(f, msg)
  BY ReadIs
<1>5. 12 \in 0 .. Len(msg)
  BY <1>3
<1>6. PICK r \in Named : r = f[<<12, 0>>]
  BY <1>5 DEF Places
<1>7. q = Whole(r)
  BY <1>2, <1>4, <1>5, <1>6 DEF Reads
<1>8. r.ok /\ q.name = r.name
  <2>1. CASE ~r.ok \/ Len(r.name) > 255
    <3>1. q = Bad
      BY <2>1, <1>7 DEF Whole
    <3>2. q.used = 0
      BY <3>1 DEF Bad
    <3> QED
      BY <3>2, <1>3
  <2>2. CASE ~(~r.ok \/ Len(r.name) > 255) /\ r.name = <<>>
    BY <2>2, <1>7 DEF Whole
  <2>3. CASE ~(~r.ok \/ Len(r.name) > 255) /\ r.name # <<>>
    <3>1. q = [r EXCEPT !.used = @ + 1]
      BY <2>3, <1>7 DEF Whole
    <3>2. q.name = r.name
      BY <3>1 DEF Named
    <3> QED
      BY <3>2, <2>3
  <2> QED
    BY <2>1, <2>2, <2>3
<1>9. PICK y \in Seq(Byte), z \in Seq(Byte) : y = r.name /\ z = Dotted(h)
  BY DottedIs DEF Named
<1>10. Len(y) = Len(z) /\ \A i \in 1 .. Len(y) : Low(y[i]) = Low(z[i])
  BY <1>3, <1>8, <1>9, SameLower
<1>11. Matches(r, z, 0)
  <2>1. Len(r.name) = Len(z) - 0
    BY <1>9, <1>10
  <2>2. ASSUME NEW j \in Nat, 0 + j < Len(z)
        PROVE  Low(At(r.name, j)) = Low(At(z, 0 + j))
    <3>1. PICK i \in 1 .. Len(y) : i = j + 1
      BY <2>2, <1>10
    <3>2. 0 + j = j /\ j < Len(y) /\ j < Len(z)
      BY <2>2, <1>10
    <3>3. At(y, j) = y[i] /\ At(z, j) = z[i]
      BY <3>1, <3>2 DEF At
    <3>4. Low(y[i]) = Low(z[i])
      BY <1>10
    <3> QED
      BY <3>2, <3>3, <3>4, <1>9
  <2> QED
    BY <2>1, <2>2, <1>8 DEF Matches
<1> QED
  <2>1. PICK b \in Nat : b = 12
    OBVIOUS
  <2>2. Holds(msg, b, host2qname(h)) /\ Matches(f[<<b, 0>>], Dotted(h), 0)
    BY <2>1, <1>1, <1>6, <1>9, <1>11
  <2>3. Len(h) <= 255
    OBVIOUS
  <2> QED
    BY <2>2, <2>3, <1>4, MustFit

-----------------------------------------------------------------------------
(* What a resolution returns                                               *)

\* A provider that has been asked, and the host it has been asked for.
LEMMA Told ==
  ASSUME IInv, pc = "done", NEW p \in P, Near(host, kind[p]), valid_name(host),
         head[p] = "length"
  PROVE  /\ InDns(host) => Result(p) = {Address(a) : a \in Says(p)}
         /\ ~InDns(host) => Result(p) = {}
         /\ Result(p) \subseteq ips
<1>1. host \in Seq(Byte) /\ Len(host) <= 254
  <2>1. host \in Seq(Byte)
    BY DohAssumption DEF IInv, TypeOK
  <2> QED
    BY <2>1, ValidShort
<1>2. kind[p] \in Kinds /\ p \in Nat
  BY DEF IInv, TypeOK, P
<1>3. Result(p) = Heard(host, kind[p], p)
  BY DEF Result, Heard
<1>4. Says(p) = Addresses(host, kind[p], p)
  BY DEF Says
<1>5. Result(p) \subseteq ips /\ \A i \in ips : i.type = "A"
  <2>1. provider = Providers + 1 /\ ips = UNION {Result(x) : x \in 1 .. provider - 1}
        /\ \A i \in ips : i.type = "A"
    BY DEF IInv, Collected
  <2>2. p \in 1 .. provider - 1
    BY <2>1, DohAssumption DEF P
  <2> QED
    BY <2>1, <2>2
<1>6. ASSUME InDns(host) PROVE Result(p) = {Address(a) : a \in Says(p)}
  <2>1. Exact(host, kind[p], p) \/ Spoilt(host, kind[p], p)
    BY <1>1, <1>2, <1>6, WithinReach
  <2>2. ~Spoilt(host, kind[p], p)
    BY <1>3, <1>5 DEF Spoilt
  <2> QED
    BY <2>1, <2>2, <1>3, <1>4 DEF Exact
<1>7. ASSUME ~InDns(host) PROVE Result(p) = {}
  BY <1>1, <1>2, <1>3, <1>7, HeardFits
<1> QED
  BY <1>5, <1>6, <1>7

LEMMA OwnOnly == IInv => OnlyOwn
<1> SUFFICES ASSUME IInv, pc = "done", \A p \in P : Near(host, kind[p])
             PROVE  el \subseteq UNION {Says(p) : p \in P}
  BY DEF OnlyOwn
<1>1. /\ provider = Providers + 1 /\ ips = UNION {Result(p) : p \in 1 .. provider - 1}
      /\ el = {i.bytes : i \in ips}
  BY DEF IInv, Collected
<1>2. 1 .. provider - 1 = P
  BY <1>1, DohAssumption DEF P
<1> SUFFICES ASSUME NEW a \in el PROVE \E p \in P : a \in Says(p)
  OBVIOUS
<1>3. PICK i \in ips : a = i.bytes
  BY <1>1
<1>4. PICK p \in P : i \in Result(p)
  BY <1>1, <1>2
<1>5. valid_name(host) /\ head[p] = "length"
  BY <1>4 DEF Result
<1>6. Result(p) = {Address(b) : b \in Says(p)}
  BY <1>4, <1>5, Told
<1>7. PICK b \in Says(p) : i = Address(b)
  BY <1>4, <1>6
<1>8. a = b
  BY <1>3, <1>7 DEF Address
<1> QED
  BY <1>7, <1>8

\* OnlyOwn of module Doh: a resolution yields addresses of its host only,
\* whatever the providers answer within reach of a pointer's one byte, for any
\* host: also one that the DNS cannot hold, whose query asks for another name.
THEOREM Ownership == Spec => []OnlyOwn
  BY Invariance, OwnOnly, PTL

LEMMA FoundAll == IInv => AllFound
<1> SUFFICES ASSUME IInv, pc = "done", InDns(host), valid_name(host),
                    NEW p \in P, Near(host, kind[p]), NEW a \in Says(p)
             PROVE  a \in el
  BY DEF AllFound
<1>1. head[p] = "length"
  BY DEF Says
<1>2. Result(p) = {Address(b) : b \in Says(p)} /\ Result(p) \subseteq ips
  BY <1>1, Told
<1>3. Address(a) \in ips
  BY <1>2
<1>4. el = {i.bytes : i \in ips}
  BY DEF IInv, Collected
<1>5. Address(a).bytes = a
  BY DEF Address
<1> QED
  BY <1>3, <1>4, <1>5

\* AllFound of module Doh: a resolution that returns has every address that a
\* provider gave within that reach, for every host the DNS can hold.
THEOREM Completeness == Spec => []AllFound
  BY Invariance, FoundAll, PTL
=============================================================================
