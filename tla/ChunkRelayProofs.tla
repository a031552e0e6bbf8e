-------------------------- MODULE ChunkRelayProofs --------------------------
(***************************************************************************)
(* Proofs about the relay of a chunked body: the search over pieces is the *)
(* search over the whole, for any body and any division into pieces, and   *)
(* the relay of a body of the usual form follows its chunks.               *)
(*                                                                         *)
(* The functions of ChunkRelay that go through bytes one by one are        *)
(* recursive functions; what holds of all their values is proved with the  *)
(* lemmas Induct (over a set of numbers) and Recursion (the function       *)
(* exists) of the first section.                                           *)
(***************************************************************************)
EXTENDS ChunkRelay, TLAPS, SequenceTheorems, WellFoundedInduction

(***************************************************************************)
(* The inductive invariant                                                 *)
(***************************************************************************)

\* The bytes of s behind position b up to e end in the first n of the pattern;
\* j is the largest such n.
EndsIn(n, s, b, e) == n <= e - b /\ \A i \in 1 .. n : s[e - n + i] = Pattern[i]
Partial(j, s, b, e) ==
  EndsIn(j, s, b, e) /\ \A n \in 0 .. M : EndsIn(n, s, b, e) => n <= j

\* Where the last chunk begins, from which on the search has seen all.
from == relayed - checked

\* The line is what comes next, all that is buffered or LineMax bytes of it
\* (more only if more was buffered at once).
LineNext ==
  pc = "size" =>
    /\ line = SubSeq(stream, relayed + 1, relayed + Len(line))
    /\ Len(line) <= loaded - relayed
    /\ Len(line) < LineMax => Len(line) = loaded - relayed

Waiting == pc = "data" => left > 0

\* The search has not begun, or it has seen all that was relayed since.
Searching ==
  /\ pc \in {"size", "data", "until"} =>
       kmp = [j |-> 0, at |-> -1, len |-> 0, i |-> 0] /\ checked = 0
  /\ pc = "loop" => /\ relayed = loaded
                    /\ kmp.j < M /\ kmp.len = checked
                    /\ Partial(kmp.j, stream, from, relayed)

\* The line of the last chunk has a digit and CR LF.
LastLine ==
  pc \in {"until", "loop"} =>
    /\ loaded - from >= 3
    /\ loaded - from = 3 => stream[from + 1] \in Digits

\* The chunks of a body of the usual form are followed.
Following ==
  Ordinary(body) =>
    /\ pc = "size" => relayed \in Starts(body)
    /\ pc = "data" => relayed + left \in Starts(body)
    /\ pc \in {"until", "loop"} => from = Len(stream) - Len(body.end)
    /\ pc = "loop" => kmp.at = 1 /\ checked = kmp.j + 1 /\ checked \in 3 .. 4
    /\ pc # "thrown"
    /\ pc = "done" /\ ~closed => relayed = Len(stream)

IInv ==
  /\ TypeOK
  /\ LineNext
  /\ Waiting
  /\ Searching
  /\ LastLine
  /\ Following

-----------------------------------------------------------------------------
(* Induction and recursion                                                 *)

\* A set of numbers that is not empty has a least one.
LEMMA Least ==
  ASSUME NEW S, S \subseteq Nat, S # {}
  PROVE  \E i \in S : \A j \in S : i <= j
<1> DEFINE LT == OpToRel(<, Nat)
<1>1. PICK x \in S : \A y \in S : ~(<<y, x>> \in LT)
  BY WFMin, NatLessThanWellFounded
<1>2. \A y \in S : ~(y < x)
  BY <1>1 DEF OpToRel
<1> QED
  BY <1>2

\* What holds of 0 and is handed on up to N holds of all numbers up to N.
LEMMA Induct ==
  ASSUME NEW N \in Nat, NEW S, 0 \in S,
         \A n \in 0 .. N - 1 : n \in S => n + 1 \in S
  PROVE  \A n \in 0 .. N : n \in S
<1> SUFFICES ASSUME NEW m \in 0 .. N, m \notin S PROVE FALSE
  OBVIOUS
<1> DEFINE out == {n \in 0 .. N : n \notin S}
<1>1. PICK x \in out : \A y \in out : x <= y
  BY out \subseteq Nat, m \in out, Least
<1>2. x # 0 /\ x - 1 \in 0 .. N - 1
  BY <1>1
<1>3. x - 1 \in S
  BY <1>1, <1>2
<1>4. x - 1 + 1 \in S
  BY <1>2, <1>3
<1> QED
  BY <1>1, <1>2, <1>4

\* A function that is defined from its value one place before exists, and has
\* its values in V.
LEMMA Recursion ==
  ASSUME NEW V, NEW v0 \in V, NEW N \in Nat, NEW g \in [1 .. N -> [V -> V]]
  PROVE  \E f \in [0 .. N -> V] :
           f[0] = v0 /\ \A n \in 1 .. N : f[n] = g[n][f[n - 1]]
<1> DEFINE Good(m, f) == \A n \in 0 .. m :
                           f[n] = IF n = 0 THEN v0 ELSE g[n][f[n - 1]]
           S == {m \in 0 .. N : \E f \in [0 .. m -> V] : Good(m, f)}
<1>1. 0 \in S
  <2> DEFINE first == [n \in 0 .. 0 |-> v0]
  <2>1. first \in [0 .. 0 -> V]
    OBVIOUS
  <2>2. Good(0, first)
    OBVIOUS
  <2> HIDE DEF first, Good
  <2>3. \E f \in [0 .. 0 -> V] : Good(0, f)
    BY <2>1, <2>2
  <2> QED
    BY <2>3
<1>2. ASSUME NEW m \in 0 .. N - 1, m \in S
      PROVE  m + 1 \in S
  <2>1. PICK f \in [0 .. m -> V] : Good(m, f)
    BY <1>2
  <2>2. PICK v \in V : v = g[m + 1][f[m]]
    <3>1. m + 1 \in 1 .. N /\ f[m] \in V
      OBVIOUS
    <3> QED
      BY <3>1
  <2> DEFINE h == [n \in 0 .. m + 1 |-> IF n <= m THEN f[n] ELSE v]
  <2>3. h \in [0 .. m + 1 -> V]
    OBVIOUS
  <2>4. Good(m + 1, h)
    <3> SUFFICES ASSUME NEW n \in 0 .. m + 1
                 PROVE  h[n] = IF n = 0 THEN v0 ELSE g[n][h[n - 1]]
      OBVIOUS
    <3>1. CASE n <= m
      <4>1. n # 0 => h[n - 1] = f[n - 1]
        BY <3>1
      <4>2. h[n] = f[n] /\ n \in 0 .. m
        BY <3>1
      <4> QED
        BY <2>1, <4>1, <4>2
    <3>2. CASE n = m + 1
      <4>1. h[n] = v /\ h[m] = f[m]
        BY <3>2
      <4>2. n # 0 /\ n - 1 = m
        BY <3>2
      <4> QED
        BY <2>2, <3>2, <4>1, <4>2
    <3>3. n <= m \/ n = m + 1
      OBVIOUS
    <3> HIDE DEF h
    <3> QED
      BY <3>1, <3>2, <3>3
  <2>5. m + 1 \in 0 .. N
    OBVIOUS
  <2> HIDE DEF Good, h
  <2>6. \E f_1 \in [0 .. m + 1 -> V] : Good(m + 1, f_1)
    BY <2>3, <2>4
  <2> QED
    BY <2>5, <2>6
<1> HIDE DEF S
<1>3. \A n \in 0 .. N : n \in S
  BY <1>1, <1>2, Induct
<1>4. N \in S
  BY <1>3
<1>5. PICK f \in [0 .. N -> V] : Good(N, f)
  BY <1>4 DEF S
<1>6. f[0] = v0 /\ \A n \in 1 .. N : f[n] = g[n][f[n - 1]]
  BY <1>5
<1> QED
  BY <1>6

-----------------------------------------------------------------------------
(* Pieces of a text                                                        *)

\* The n bytes behind position p.
LEMMA PieceIs ==
  ASSUME NEW s \in Seq(Byte), NEW p \in Nat, NEW n \in Nat, p + n <= Len(s)
  PROVE  /\ SubSeq(s, p + 1, p + n) \in Seq(Byte)
         /\ Len(SubSeq(s, p + 1, p + n)) = n
         /\ \A i \in 1 .. n : SubSeq(s, p + 1, p + n)[i] = s[p + i]
<1>1. \A i \in p + 1 .. p + n : s[i] \in Byte
  OBVIOUS
<1>2. PICK t : t = SubSeq(s, p + 1, p + n)
  OBVIOUS
<1>3. /\ t \in Seq(Byte)
      /\ Len(t) = IF p + 1 <= p + n THEN p + n - (p + 1) + 1 ELSE 0
      /\ \A i \in 1 .. p + n - (p + 1) + 1 : t[i] = s[p + 1 + i - 1]
  BY <1>1, <1>2, SubSeqProperties
<1>4. \A i \in 1 .. n : i \in 1 .. p + n - (p + 1) + 1 /\ p + 1 + i - 1 = p + i
  OBVIOUS
<1>5. (IF p + 1 <= p + n THEN p + n - (p + 1) + 1 ELSE 0) = n
  OBVIOUS
<1>6. \A i \in 1 .. n : t[i] = s[p + i]
  BY <1>3, <1>4
<1> QED
  BY <1>2, <1>3, <1>5, <1>6

\* One text behind the other.
LEMMA JoinIs ==
  ASSUME NEW s \in Seq(Byte), NEW t \in Seq(Byte)
  PROVE  /\ s \o t \in Seq(Byte) /\ Len(s \o t) = Len(s) + Len(t)
         /\ \A q \in 1 .. Len(s) : (s \o t)[q] = s[q]
         /\ \A q \in 1 .. Len(t) : (s \o t)[Len(s) + q] = t[q]
<1>1. PICK u : u = s \o t
  OBVIOUS
<1>2. /\ u \in Seq(Byte) /\ Len(u) = Len(s) + Len(t)
      /\ \A q \in 1 .. Len(s) + Len(t) :
           u[q] = IF q <= Len(s) THEN s[q] ELSE t[q - Len(s)]
  BY <1>1, ConcatProperties
<1>3. PICK m \in Nat, n \in Nat : m = Len(s) /\ n = Len(t)
  OBVIOUS
<1>4. \A q \in 1 .. m + n : u[q] = IF q <= m THEN s[q] ELSE t[q - m]
  BY <1>2, <1>3
<1>5. \A q \in 1 .. m : q \in 1 .. m + n /\ q <= m
  OBVIOUS
<1>6. \A q \in 1 .. n : m + q \in 1 .. m + n /\ ~(m + q <= m) /\ m + q - m = q
  OBVIOUS
<1>7. \A q \in 1 .. n : u[m + q] = t[q]
  BY <1>4, <1>6
<1>8. \A q \in 1 .. m : u[q] = s[q]
  BY <1>4, <1>5
<1> QED
  BY <1>1, <1>2, <1>3, <1>7, <1>8

-----------------------------------------------------------------------------
(* The tables of the search                                                *)

LEMMA PatternIs ==
  /\ Pattern \in Seq(Byte) /\ Len(Pattern) = 4 /\ M = 4
  /\ Pattern[1] = "CR" /\ Pattern[2] = "LF" /\ Pattern[3] = "CR" /\ Pattern[4] = "LF"
<1>1. CRLF \in Seq(Byte) /\ Len(CRLF) = 2 /\ CRLF[1] = "CR" /\ CRLF[2] = "LF"
  BY DEF CRLF, Byte
<1>2. /\ Pattern \in Seq(Byte) /\ Len(Pattern) = 4
      /\ \A i \in 1 .. 4 : Pattern[i] = IF i <= 2 THEN CRLF[i] ELSE CRLF[i - 2]
  <2>1. /\ Pattern \in Seq(Byte) /\ Len(Pattern) = Len(CRLF) + Len(CRLF)
        /\ \A i \in 1 .. Len(CRLF) + Len(CRLF) :
             Pattern[i] = IF i <= Len(CRLF) THEN CRLF[i] ELSE CRLF[i - Len(CRLF)]
    BY <1>1, ConcatProperties DEF Pattern
  <2> QED
    BY <2>1, <1>1
<1> QED
  BY <1>1, <1>2 DEF M

\* How long the partial match is when one of length len sees byte c.
Grown(len, c) == IF Pattern[len + 1] = c THEN len + 1
                 ELSE IF c = "CR" THEN 1 ELSE 0

\* Longest computes it if lps is right as far as it is used.
LEMMA LongestIs ==
  ASSUME NEW lps, NEW len \in 0 .. 3, NEW c,
         len >= 1 => lps[1] = 0,
         len >= 2 => lps[2] = 0,
         len >= 3 => lps[3] = 1
  PROVE  Longest(lps, len, c) = Grown(len, c)
<1> DEFINE Right(f) == f = [n \in 0 .. len |->
                              IF Pattern[n + 1] = c THEN n + 1
                              ELSE IF n = 0 THEN 0 ELSE f[lps[n]]]
           table == [n \in 0 .. len |-> Grown(n, c)]
<1>1. Right(table)
  <2> SUFFICES ASSUME NEW n \in 0 .. len
               PROVE  Grown(n, c) = IF Pattern[n + 1] = c THEN n + 1
                                    ELSE IF n = 0 THEN 0 ELSE table[lps[n]]
    OBVIOUS
  <2>1. n \in {0, 1, 2, 3}
    OBVIOUS
  <2>2. CASE n = 0
    BY <2>2, PatternIs DEF Grown
  <2>3. CASE n = 1
    <3>1. table[lps[n]] = Grown(0, c)
      BY <2>3
    <3> QED
      BY <2>3, <3>1, PatternIs DEF Grown
  <2>4. CASE n = 2
    <3>1. table[lps[n]] = Grown(0, c)
      BY <2>4
    <3> QED
      BY <2>4, <3>1, PatternIs DEF Grown
  <2>5. CASE n = 3
    <3>1. table[lps[n]] = Grown(1, c)
      BY <2>5
    <3> QED
      BY <2>5, <3>1, PatternIs DEF Grown
  <2> QED
    BY <2>1, <2>2, <2>3, <2>4, <2>5
<1> DEFINE f == CHOOSE f_1 : Right(f_1)
<1>2. Right(f)
  <2> HIDE DEF table, Right
  <2> QED
    BY <1>1
<1> HIDE DEF f
<1>3. \A n \in 0 .. len : f[n] = IF Pattern[n + 1] = c THEN n + 1
                                 ELSE IF n = 0 THEN 0 ELSE f[lps[n]]
  BY <1>2
<1>4. f[0] = Grown(0, c)
  BY <1>3, PatternIs DEF Grown
<1>5. len >= 1 => f[1] = Grown(1, c)
  BY <1>3, <1>4, PatternIs DEF Grown
<1>6. len >= 2 => f[2] = Grown(2, c)
  BY <1>3, <1>4, PatternIs DEF Grown
<1>7. len >= 3 => f[3] = Grown(3, c)
  BY <1>3, <1>5, PatternIs DEF Grown
<1>8. f[len] = Grown(len, c)
  BY <1>4, <1>5, <1>6, <1>7
<1> QED
  BY <1>8 DEF Longest, f

LEMMA LpsIs == computeLPSArray = <<0, 0, 1, 2>>
<1> DEFINE Right(f) == f = [i \in 1 .. M |->
                              IF i = 1 THEN <<0>>
                              ELSE LET lps == f[i - 1] IN
                                   Append(lps, Longest(lps, lps[i - 1], Pattern[i]))]
           row(i) == IF i = 1 THEN <<0>> ELSE IF i = 2 THEN <<0, 0>>
                     ELSE IF i = 3 THEN <<0, 0, 1>> ELSE <<0, 0, 1, 2>>
           table == [i \in 1 .. M |-> row(i)]
<1>1. Longest(<<0>>, 0, "LF") = 0
  BY LongestIs, PatternIs DEF Grown
<1>2. Longest(<<0, 0>>, 0, "CR") = 1
  BY LongestIs, PatternIs DEF Grown
<1>3. Longest(<<0, 0, 1>>, 1, "LF") = 2
  <2>1. Longest(<<0, 0, 1>>, 1, "LF") = Grown(1, "LF")
    BY LongestIs
  <2> QED
    BY <2>1, PatternIs DEF Grown
<1>4. Append(<<0>>, 0) = <<0, 0>> /\ Append(<<0, 0>>, 1) = <<0, 0, 1>>
      /\ Append(<<0, 0, 1>>, 2) = <<0, 0, 1, 2>>
  <2> DEFINE one == <<0>>
             two == <<0, 0>>
             three == <<0, 0, 1>>
             four == <<0, 0, 1, 2>>
  <2>1. /\ one \in Seq(Nat) /\ two \in Seq(Nat) /\ three \in Seq(Nat) /\ four \in Seq(Nat)
        /\ Len(one) = 1 /\ Len(two) = 2 /\ Len(three) = 3 /\ Len(four) = 4
    OBVIOUS
  <2>2. /\ one[1] = 0 /\ two[1] = 0 /\ two[2] = 0
        /\ three[1] = 0 /\ three[2] = 0 /\ three[3] = 1
        /\ four[1] = 0 /\ four[2] = 0 /\ four[3] = 1 /\ four[4] = 2
    OBVIOUS
  <2> HIDE DEF one, two, three, four
  <2>3. ASSUME NEW a \in Seq(Nat), NEW b \in Seq(Nat), NEW x \in Nat,
               Len(b) = Len(a) + 1, b[Len(b)] = x,
               \A i \in 1 .. Len(a) : b[i] = a[i]
        PROVE  Append(a, x) = b
    <3>1. /\ Append(a, x) \in Seq(Nat) /\ Len(Append(a, x)) = Len(b)
          /\ \A i \in 1 .. Len(b) : Append(a, x)[i] = b[i]
      BY <2>3, AppendProperties
    <3> QED
      BY <3>1, SeqEqual
  <2>4. Append(one, 0) = two
    <3>1. /\ one \in Seq(Nat) /\ two \in Seq(Nat) /\ 0 \in Nat
          /\ Len(two) = Len(one) + 1 /\ two[Len(two)] = 0
          /\ \A i \in 1 .. Len(one) : two[i] = one[i]
      BY <2>1, <2>2
    <3> QED
      BY <3>1, <2>3, Zenon
  <2>5. Append(two, 1) = three
    <3>1. /\ two \in Seq(Nat) /\ three \in Seq(Nat) /\ 1 \in Nat
          /\ Len(three) = Len(two) + 1 /\ three[Len(three)] = 1
          /\ \A i \in 1 .. Len(two) : three[i] = two[i]
      BY <2>1, <2>2
    <3> QED
      BY <3>1, <2>3, Zenon
  <2>6. Append(three, 2) = four
    <3>1. /\ three \in Seq(Nat) /\ four \in Seq(Nat) /\ 2 \in Nat
          /\ Len(four) = Len(three) + 1 /\ four[Len(four)] = 2
          /\ \A i \in 1 .. Len(three) : four[i] = three[i]
      BY <2>1, <2>2
    <3> QED
      BY <3>1, <2>3, Zenon
  <2> QED
    BY <2>4, <2>5, <2>6 DEF one, two, three, four
<1>5. Right(table)
  <2> SUFFICES ASSUME NEW i \in 1 .. M
               PROVE  row(i) = IF i = 1 THEN <<0>>
                               ELSE LET lps == table[i - 1] IN
                                    Append(lps, Longest(lps, lps[i - 1], Pattern[i]))
    OBVIOUS
  <2>1. i \in {1, 2, 3, 4}
    BY PatternIs
  <2>2. CASE i = 1
    BY <2>2
  <2>3. CASE i = 2
    <3>1. table[i - 1] = <<0>> /\ i - 1 = 1
      BY <2>3, PatternIs
    <3> QED
      BY <2>3, <3>1, <1>1, <1>4, PatternIs
  <2>4. CASE i = 3
    <3>1. table[i - 1] = <<0, 0>> /\ i - 1 = 2
      BY <2>4, PatternIs
    <3> QED
      BY <2>4, <3>1, <1>2, <1>4, PatternIs
  <2>5. CASE i = 4
    <3>1. table[i - 1] = <<0, 0, 1>> /\ i - 1 = 3
      BY <2>5, PatternIs
    <3> QED
      BY <2>5, <3>1, <1>3, <1>4, PatternIs
  <2> QED
    BY <2>1, <2>2, <2>3, <2>4, <2>5
<1> DEFINE f == CHOOSE f_1 : Right(f_1)
<1>6. Right(f)
  <2> HIDE DEF table, Right
  <2> QED
    BY <1>5
<1> HIDE DEF f
<1>7. \A i \in 1 .. 4 : f[i] = IF i = 1 THEN <<0>>
                               ELSE Append(f[i - 1], Longest(f[i - 1], f[i - 1][i - 1], Pattern[i]))
  BY <1>6, PatternIs
<1>8. f[1] = <<0>>
  BY <1>7
<1>9. f[2] = <<0, 0>>
  <2>1. f[2] = Append(f[1], Longest(f[1], f[1][1], Pattern[2]))
    BY <1>7
  <2> QED
    BY <2>1, <1>8, <1>1, <1>4, PatternIs
<1>10. f[3] = <<0, 0, 1>>
  <2>1. f[3] = Append(f[2], Longest(f[2], f[2][2], Pattern[3]))
    BY <1>7
  <2> QED
    BY <2>1, <1>9, <1>2, <1>4, PatternIs
<1>11. f[4] = <<0, 0, 1, 2>>
  <2>1. f[4] = Append(f[3], Longest(f[3], f[3][3], Pattern[4]))
    BY <1>7
  <2> QED
    BY <2>1, <1>10, <1>3, <1>4, PatternIs
<1>12. f[M] = <<0, 0, 1, 2>>
  BY <1>11, PatternIs
<1> QED
  BY <1>12 DEF computeLPSArray, f

-----------------------------------------------------------------------------
(* The search                                                              *)

LEMMA StepIs ==
  ASSUME NEW k \in Kmp, NEW c \in Byte
  PROVE  /\ step(c)[k] \in Kmp
         /\ k.j = M => step(c)[k] = k
         /\ k.j # M =>
              step(c)[k] = [k EXCEPT !.j = Grown(k.j, c),
                                     !.at = IF Grown(k.j, c) = 1 THEN k.i ELSE @,
                                     !.i = @ + 1]
<1>1. CASE k.j = M
  BY <1>1 DEF step
<1>2. CASE k.j # M
  <2>1. k.j \in 0 .. 3
    BY <1>2, PatternIs DEF Kmp
  <2>2. Longest(computeLPSArray, k.j, c) = Grown(k.j, c)
    BY <2>1, LongestIs, LpsIs
  <2>3. Grown(k.j, c) \in 0 .. M
    BY <2>1, PatternIs DEF Grown
  <2>4. step(c)[k] = [k EXCEPT !.j = Grown(k.j, c),
                               !.at = IF Grown(k.j, c) = 1 THEN k.i ELSE @,
                               !.i = @ + 1]
    BY <1>2, <2>2 DEF step
  <2>5. step(c)[k] \in Kmp
    <3>1. PICK j \in 0 .. M : j = Grown(k.j, c)
      BY <2>3
    <3>2. PICK at \in Int : at = IF j = 1 THEN k.i ELSE k.at
      BY DEF Kmp
    <3>3. k.len \in Nat /\ k.i + 1 \in Nat
      BY DEF Kmp
    <3>4. k = [j |-> k.j, at |-> k.at, len |-> k.len, i |-> k.i]
      BY DEF Kmp
    <3>5. step(c)[k] = [j |-> j, at |-> at, len |-> k.len, i |-> k.i + 1]
      BY <2>4, <3>1, <3>2, <3>4
    <3> QED
      BY <3>3, <3>5 DEF Kmp
  <2> QED
    BY <1>2, <2>4, <2>5
<1> QED
  BY <1>1, <1>2

\* Over is the last of the states that follow one another, byte by byte.
LEMMA OverIs ==
  ASSUME NEW k \in Kmp, NEW text \in Seq(Byte)
  PROVE  \E after \in [0 .. Len(text) -> Kmp] :
           /\ after[0] = k
           /\ \A n \in 1 .. Len(text) : after[n] = step(text[n])[after[n - 1]]
           /\ Over(k, text) = after[Len(text)]
<1>1. PICK N \in Nat : N = Len(text)
  OBVIOUS
<1>2. \A n \in 1 .. N : text[n] \in Byte
  BY <1>1
<1>3. \A v \in Kmp, n \in 1 .. N : step(text[n])[v] \in Kmp
  BY <1>2, StepIs
<1> DEFINE Right(f) == f = [n \in 0 .. N |->
                              IF n = 0 THEN k ELSE step(text[n])[f[n - 1]]]
           g == [n \in 1 .. N |-> [v \in Kmp |-> step(text[n])[v]]]
<1>4. g \in [1 .. N -> [Kmp -> Kmp]]
  BY <1>3
<1>5. \A n \in 1 .. N, v \in Kmp : g[n][v] = step(text[n])[v]
  OBVIOUS
<1> HIDE DEF g
<1>6. PICK h \in [0 .. N -> Kmp] :
             h[0] = k /\ \A n \in 1 .. N : h[n] = g[n][h[n - 1]]
  <2> DEFINE Follows(h, v0, n_1, g_1) ==
               h[0] = v0 /\ \A n \in 1 .. n_1 : h[n] = g_1[n][h[n - 1]]
  <2>1. \A V : \A v0 \in V : \A n_1 \in Nat : \A g_1 \in [1 .. n_1 -> [V -> V]] :
          \E h \in [0 .. n_1 -> V] : Follows(h, v0, n_1, g_1)
    BY Recursion
  <2> HIDE DEF Follows
  <2>2. \E h \in [0 .. N -> Kmp] : Follows(h, k, N, g)
    BY <1>4, <2>1, Zenon
  <2> QED
    BY <2>2 DEF Follows
<1>7. Right(h)
  <2>1. ASSUME NEW n \in 0 .. N
        PROVE  h[n] = IF n = 0 THEN k ELSE step(text[n])[h[n - 1]]
    <3>1. CASE n = 0
      BY <3>1, <1>6
    <3>2. CASE n # 0
      <4>1. n \in 1 .. N /\ h[n - 1] \in Kmp
        BY <3>2
      <4> QED
        BY <3>2, <4>1, <1>5, <1>6
    <3> QED
      BY <3>1, <3>2
  <2> QED
    BY <2>1
<1> DEFINE f == CHOOSE f_1 : Right(f_1)
<1>8. Right(f)
  <2> HIDE DEF Right
  <2> QED
    BY <1>7
<1>9. Over(k, text) = f[N]
  BY <1>1 DEF Over
<1> HIDE DEF f
<1>10. f = [n \in 0 .. N |-> IF n = 0 THEN k ELSE step(text[n])[f[n - 1]]]
  BY <1>8
<1> HIDE DEF Right
<1>11. f[0] = k /\ \A n \in 1 .. N : f[n] = step(text[n])[f[n - 1]]
  BY <1>10
<1>12. \A n \in 0 .. N : f[n] \in Kmp
  <2> DEFINE S == {n \in 0 .. N : f[n] \in Kmp}
  <2>1. 0 \in S
    BY <1>11
  <2>2. ASSUME NEW n \in 0 .. N - 1, n \in S
        PROVE  n + 1 \in S
    <3>1. n + 1 \in 1 .. N /\ n + 1 - 1 = n /\ f[n] \in Kmp
      BY <2>2
    <3>2. f[n + 1] = step(text[n + 1])[f[n]]
      BY <1>11, <3>1
    <3>3. step(text[n + 1])[f[n]] \in Kmp
      BY <3>1, <1>3
    <3> QED
      BY <3>1, <3>2, <3>3
  <2> HIDE DEF S
  <2>3. \A n \in 0 .. N : n \in S
    BY <2>1, <2>2, Induct
  <2> QED
    BY <2>3 DEF S
<1>13. f \in [0 .. N -> Kmp]
  BY <1>10, <1>12
<1> QED
  BY <1>1, <1>9, <1>11, <1>13

\* One byte more.
LEMMA PartialGrows ==
  ASSUME NEW s \in Seq(Byte), NEW b \in Nat, NEW e \in Nat, b <= e, NEW j \in 0 .. 3,
         Partial(j, s, b, e)
  PROVE  Partial(Grown(j, s[e + 1]), s, b, e + 1)
<1>1. \A n \in 1 .. 4 : EndsIn(n, s, b, e + 1)
                          <=> EndsIn(n - 1, s, b, e) /\ s[e + 1] = Pattern[n]
  <2> SUFFICES ASSUME NEW n \in 1 .. 4
               PROVE  EndsIn(n, s, b, e + 1)
                        <=> EndsIn(n - 1, s, b, e) /\ s[e + 1] = Pattern[n]
    OBVIOUS
  <2>1. \A i \in 1 .. n - 1 : e - (n - 1) + i = e + 1 - n + i
    OBVIOUS
  <2>2. e + 1 - n + n = e + 1
    OBVIOUS
  <2> QED
    BY <2>1, <2>2 DEF EndsIn
<1>2. EndsIn(0, s, b, e) /\ EndsIn(0, s, b, e + 1)
  BY DEF EndsIn
<1>3. /\ j = 1 => s[e] = "CR"
      /\ j = 2 => s[e] = "LF"
      /\ j = 3 => s[e] = "CR"
  BY PatternIs DEF Partial, EndsIn
<1>4. /\ EndsIn(1, s, b, e) => s[e] = "CR"
      /\ EndsIn(2, s, b, e) => s[e] = "LF"
      /\ EndsIn(3, s, b, e) => s[e] = "CR"
  BY PatternIs DEF EndsIn
<1>5. \A n \in 0 .. 4 : EndsIn(n, s, b, e) => n <= j
  BY PatternIs DEF Partial
<1>6. EndsIn(j, s, b, e)
  BY DEF Partial
<1> HIDE DEF EndsIn
<1>7. EndsIn(Grown(j, s[e + 1]), s, b, e + 1)
  BY <1>1, <1>2, <1>6, PatternIs DEF Grown
<1>8. \A n \in 0 .. 4 : EndsIn(n, s, b, e + 1) => n <= Grown(j, s[e + 1])
  <2>1. ASSUME NEW n \in 1 .. 4, EndsIn(n, s, b, e + 1)
        PROVE  n <= Grown(j, s[e + 1])
    <3>1. EndsIn(n - 1, s, b, e) /\ s[e + 1] = Pattern[n] /\ n - 1 <= j
      BY <2>1, <1>1, <1>5
    <3>2. n \in {1, 2, 3, 4} /\ j \in {0, 1, 2, 3}
      OBVIOUS
    <3> QED
      BY <3>1, <3>2, <1>3, <1>4, PatternIs DEF Grown
  <2>2. 0 <= Grown(j, s[e + 1])
    BY DEF Grown
  <2> QED
    BY <2>1, <2>2
<1> QED
  BY <1>7, <1>8, PatternIs DEF Partial

\* A search that goes on where an earlier one stopped, between the positions e
\* and e + n of s, knows the partial match at the last byte it has read: all n
\* unless the pattern is found.  It notes where that match began, if it began
\* in this call.
LEMMA SearchIs ==
  ASSUME NEW s \in Seq(Byte), NEW b \in Nat, NEW e \in Nat, NEW n \in Nat,
         b <= e, e + n <= Len(s), NEW k \in Kmp, k.j < M, Partial(k.j, s, b, e),
         NEW r, r = search(k, SubSeq(s, e + 1, e + n))
  PROVE  /\ r \in Kmp /\ r.i <= n /\ r.len = k.len
         /\ r.j # M => r.i = n
         /\ Partial(r.j, s, b, e + r.i)
         /\ r.at = k.at \/ r.at \in 0 .. n - 1
         /\ r.j # 0 /\ r.j <= r.i => r.at = r.i - r.j
         /\ r.j > r.i => r.at = k.at
<1>1. PICK text \in Seq(Byte) :
        /\ text = SubSeq(s, e + 1, e + n) /\ Len(text) = n
        /\ \A i \in 1 .. n : text[i] = s[e + i]
  BY PieceIs
<1>2. PICK k0 \in Kmp : k0 = [k EXCEPT !.i = 0]
  BY DEF Kmp
<1>3. k0.j = k.j /\ k0.at = k.at /\ k0.len = k.len /\ k0.i = 0
  BY <1>2 DEF Kmp
<1>4. PICK after \in [0 .. n -> Kmp] :
        /\ after[0] = k0
        /\ \A m \in 1 .. n : after[m] = step(text[m])[after[m - 1]]
        /\ r = after[n]
  <2>1. PICK after \in [0 .. Len(text) -> Kmp] :
          /\ after[0] = k0
          /\ \A m \in 1 .. Len(text) : after[m] = step(text[m])[after[m - 1]]
          /\ Over(k0, text) = after[Len(text)]
    BY OverIs
  <2>2. r = Over(k0, text)
    BY <1>1, <1>2 DEF search
  <2> QED
    BY <1>1, <2>1, <2>2
<1> DEFINE Counts(v, m) == v.i <= m /\ v.len = k.len /\ (v.j # M => v.i = m)
           Begun(v, m) == /\ v.at = k.at \/ v.at \in 0 .. m - 1
                          /\ v.j # 0 /\ v.j <= v.i => v.at = v.i - v.j
                          /\ v.j > v.i => v.at = k.at
           Knows(v) == Partial(v.j, s, b, e + v.i)
           Good(v, m) == Counts(v, m) /\ Begun(v, m) /\ Knows(v)
           S == {m \in 0 .. n : Good(after[m], m)}
<1>5. 0 \in S
  <2>1. Counts(k0, 0)
    BY <1>3
  <2>2. Begun(k0, 0)
    <3>1. k0.j \in 0 .. M /\ M = 4
      BY PatternIs DEF Kmp
    <3>2. ~(k0.j # 0 /\ k0.j <= 0)
      BY <3>1
    <3> QED
      BY <1>3, <3>2
  <2>3. Knows(k0)
    <3>1. e + 0 = e
      OBVIOUS
    <3> QED
      BY <1>3, <3>1
  <2> QED
    BY <1>4, <2>1, <2>2, <2>3
<1>6. ASSUME NEW m \in 0 .. n - 1, m \in S
      PROVE  m + 1 \in S
  <2>1. PICK v \in Kmp : v = after[m]
    BY <1>4
  <2>2. Good(v, m)
    BY <1>6, <2>1
  <2>3. m + 1 \in 1 .. n /\ m + 1 - 1 = m
    OBVIOUS
  <2>4. PICK c \in Byte : c = text[m + 1] /\ c = s[e + m + 1]
    <3>1. text[m + 1] \in Byte /\ text[m + 1] = s[e + (m + 1)] /\ e + (m + 1) = e + m + 1
      BY <1>1, <2>3
    <3> QED
      BY <3>1
  <2>5. PICK w \in Kmp : w = after[m + 1] /\ w = step(c)[v]
    <3>1. after[m + 1] = step(text[m + 1])[after[m]]
      BY <1>4, <2>3
    <3>2. after[m + 1] \in Kmp
      BY <2>3
    <3> QED
      BY <3>1, <3>2, <2>1, <2>4
  <2>6. Good(w, m + 1)
    <3>1. CASE v.j = M
      <4>1. w = v
        BY <2>5, <3>1, StepIs
      <4>2. Counts(w, m + 1)
        <5>1. v.i \in Nat /\ v.i <= m /\ v.len = k.len
          BY <2>2 DEF Kmp
        <5>2. v.i <= m + 1
          BY <5>1
        <5> QED
          BY <3>1, <4>1, <5>1, <5>2
      <4>3. Begun(w, m + 1)
        <5>1. Begun(v, m)
          BY <2>2
        <5>2. v.at \in 0 .. m - 1 => v.at \in 0 .. m + 1 - 1
          OBVIOUS
        <5> QED
          BY <4>1, <5>1, <5>2
      <4> QED
        BY <2>2, <4>1, <4>2, <4>3
    <3>2. CASE v.j # M
      <4>1. v.j \in 0 .. 3
        BY <3>2, PatternIs DEF Kmp
      <4>2. w = [v EXCEPT !.j = Grown(v.j, c),
                          !.at = IF Grown(v.j, c) = 1 THEN v.i ELSE @,
                          !.i = @ + 1]
        BY <2>5, <3>2, StepIs
      <4>3. /\ w.j = Grown(v.j, c) /\ w.len = v.len /\ w.i = v.i + 1
            /\ w.at = IF Grown(v.j, c) = 1 THEN v.i ELSE v.at
        BY <4>2 DEF Kmp
      <4>4. v.i = m /\ v.len = k.len /\ Begun(v, m) /\ Partial(v.j, s, b, e + m)
        BY <2>2, <3>2
      <4>5. Partial(w.j, s, b, e + w.i)
        <5>1. Partial(w.j, s, b, e + m + 1)
          BY <2>4, <4>1, <4>3, <4>4, PartialGrows
        <5>2. e + m + 1 = e + w.i
          BY <4>3, <4>4
        <5> QED
          BY <5>1, <5>2
      <4>6. Begun(w, m + 1)
        <5>1. Grown(v.j, c) \in {0, 1, v.j + 1}
          BY DEF Grown
        <5>2. CASE Grown(v.j, c) = 1
          BY <5>2, <4>3, <4>4
        <5>3. CASE Grown(v.j, c) = 0
          BY <5>3, <4>3, <4>4
        <5>4. CASE v.j # 0 /\ Grown(v.j, c) = v.j + 1
          <6>1. v.i + 1 = m + 1 /\ v.j + 1 # 1
            BY <5>4, <4>1, <4>4
          <6>2. w.at = v.at /\ w.j = v.j + 1 /\ w.i = v.i + 1
            BY <5>4, <6>1, <4>3
          <6>3. w.at = k.at \/ w.at \in 0 .. m + 1 - 1
            BY <6>2, <4>4
          <6>4. w.j <= w.i => v.j <= v.i /\ w.i - w.j = v.i - v.j
            <7>1. PICK x \in Int, y \in Int : x = v.j /\ y = v.i
              BY <4>1, <4>4
            <7>2. x + 1 <= y + 1 => x <= y /\ y + 1 - (x + 1) = y - x
              OBVIOUS
            <7>3. w.j = x + 1 /\ w.i = y + 1
              BY <6>2, <7>1
            <7>4. x + 1 <= y + 1 <=> w.j <= w.i
              BY <7>3, Zenon
            <7>5. y + 1 - (x + 1) = w.i - w.j
              BY <7>3
            <7>6. y - x = v.i - v.j /\ (x <= y <=> v.j <= v.i)
              BY <7>1, Zenon
            <7> QED
              BY <7>2, <7>4, <7>5, <7>6, Zenon
          <6>5. w.j > w.i => v.j > v.i
            <7>1. PICK x \in Int, y \in Int : x = v.j /\ y = v.i
              BY <4>1, <4>4
            <7>2. x + 1 > y + 1 => x > y
              OBVIOUS
            <7>3. w.j = x + 1 /\ w.i = y + 1
              BY <6>2, <7>1
            <7> QED
              BY <7>1, <7>2, <7>3
          <6> QED
            BY <5>4, <6>2, <6>3, <6>4, <6>5, <4>4
        <5> QED
          BY <5>1, <5>2, <5>3, <5>4
      <4>7. Counts(w, m + 1)
        BY <4>3, <4>4
      <4> QED
        BY <4>5, <4>6, <4>7
    <3> QED
      BY <3>1, <3>2
  <2> HIDE DEF Good
  <2>7. m + 1 \in 0 .. n
    OBVIOUS
  <2> QED
    BY <2>5, <2>6, <2>7
<1> HIDE DEF S
<1>7. \A m \in 0 .. n : m \in S
  BY <1>5, <1>6, Induct
<1>8. Good(r, n)
  <2>1. n \in 0 .. n
    OBVIOUS
  <2>2. n \in S
    BY <1>7, <2>1
  <2>3. Good(after[n], n)
    BY <2>2 DEF S
  <2> QED
    BY <1>4, <2>3
<1> QED
  BY <1>4, <1>8

-----------------------------------------------------------------------------
(* Lines and sizes                                                         *)

LEMMA CRLFIs == CRLF \in Seq(Byte) /\ Len(CRLF) = 2 /\ CRLF[1] = "CR" /\ CRLF[2] = "LF"
BY DEF CRLF, Byte

LEMMA LineEndsIs ==
  ASSUME NEW s \in Seq(Byte), NEW p \in Int
  PROVE  p \in LineEnds(s)
           <=> p >= 0 /\ p + 2 <= Len(s) /\ s[p + 1] = "CR" /\ s[p + 2] = "LF"
<1>1. CASE p >= 0 /\ p + 2 <= Len(s)
  <2>1. p \in 0 .. (Len(s) - 2) /\ p \in Nat
    BY <1>1
  <2>2. PICK t \in Seq(Byte) : /\ t = SubSeq(s, p + 1, p + 2) /\ Len(t) = 2
                               /\ \A i \in 1 .. 2 : t[i] = s[p + i]
    <3>1. PICK n \in Nat : n = 2
      OBVIOUS
    <3>2. PICK t : t = SubSeq(s, p + 1, p + n)
      OBVIOUS
    <3>3. t \in Seq(Byte) /\ Len(t) = n /\ \A i \in 1 .. n : t[i] = s[p + i]
      BY <1>1, <2>1, <3>1, <3>2, PieceIs
    <3> QED
      BY <3>1, <3>2, <3>3
  <2>3. t = CRLF <=> t[1] = "CR" /\ t[2] = "LF"
    <3>1. ASSUME t[1] = "CR" /\ t[2] = "LF" PROVE t = CRLF
      <4>1. \A i \in 1 .. Len(t) : t[i] = CRLF[i]
        BY <2>2, <3>1, CRLFIs
      <4> QED
        BY <2>2, <4>1, CRLFIs, SeqEqual
    <3> QED
      BY <3>1, CRLFIs
  <2>4. t[1] = s[p + 1] /\ t[2] = s[p + 2]
    BY <2>2
  <2>5. p \in LineEnds(s) <=> t = CRLF
    BY <2>1, <2>2 DEF LineEnds
  <2> QED
    BY <1>1, <2>3, <2>4, <2>5
<1>2. CASE ~(p >= 0 /\ p + 2 <= Len(s))
  BY <1>2 DEF LineEnds
<1> QED
  BY <1>1, <1>2

\* The first line ends where LineEnd says.
LEMMA LineEndIs ==
  ASSUME NEW s \in Seq(Byte), LineEnds(s) # {}
  PROVE  /\ LineEnd(s) \in Nat /\ LineEnd(s) + 2 <= Len(s)
         /\ s[LineEnd(s) + 1] = "CR" /\ s[LineEnd(s) + 2] = "LF"
         /\ \A q \in LineEnds(s) : LineEnd(s) <= q
<1>1. LineEnds(s) \subseteq Nat
  BY DEF LineEnds
<1>2. \E p \in LineEnds(s) : \A q \in LineEnds(s) : p <= q
  BY <1>1, Least
<1>3. LineEnd(s) \in LineEnds(s) /\ \A q \in LineEnds(s) : LineEnd(s) <= q
  BY <1>2 DEF LineEnd
<1>4. LineEnd(s) \in Nat
  BY <1>1, <1>3
<1> QED
  BY <1>3, <1>4, LineEndsIs

LEMMA ValueIs ==
  \A d \in Digits : Value[d] \in Nat /\ (d # "0" => Value[d] > 0)
BY DEF Digits, Value

\* A size is a number, and none is zero that begins with another digit.
LEMMA SizeIs ==
  ASSUME NEW s \in Seq(Byte), HexRun(s) # {}
  PROVE  /\ hex_str_to(s) \in Nat
         /\ s # <<>> /\ s[1] \in Digits \ {"0"} => hex_str_to(s) > 0
         /\ s # <<>> /\ s[1] = "0" => hex_str_to(s) = 0
<1>1. PICK L \in Nat : L = Len(s) /\ DOMAIN s = 1 .. L
  OBVIOUS
<1> DEFINE First == CHOOSE i \in HexRun(s) : \A k \in HexRun(s) : i <= k
<1>2. HexRun(s) \subseteq 1 .. L
  BY <1>1 DEF HexRun
<1>3. First \in HexRun(s) /\ \A k \in HexRun(s) : First <= k
  <2>1. \E i \in HexRun(s) : \A k \in HexRun(s) : i <= k
    BY <1>2, Least
  <2> QED
    BY <2>1
<1>4. PICK first \in 1 .. L : first = First
  BY <1>2, <1>3
<1> HIDE DEF First
<1>5. s[first] \in Digits
  BY <1>3, <1>4 DEF HexRun
<1>6. s # <<>> /\ s[1] \in Digits => first = 1
  <2>1. ASSUME s # <<>>, s[1] \in Digits PROVE 1 \in HexRun(s)
    BY <1>1, <2>1 DEF HexRun
  <2> QED
    BY <2>1, <1>3, <1>4
<1>7. CASE s[first] = "0"
  <2>1. hex_str_to(s) = 0
    BY <1>4, <1>7 DEF hex_str_to, First
  <2> QED
    BY <2>1, <1>6, <1>7 DEF Digits
<1>8. CASE s[first] # "0"
  <2> DEFINE Run(i) == /\ \A k \in first .. i : s[k] \in Digits
                       /\ i = Len(s) \/ s[i + 1] \notin Digits
             Final == CHOOSE i \in first .. Len(s) : Run(i)
             ends == {i \in first .. L : i = L \/ s[i + 1] \notin Digits}
  <2>1. \E i \in first .. Len(s) : Run(i)
    <3>1. PICK i \in ends : \A j \in ends : i <= j
      <4>1. L \in ends /\ ends \subseteq Nat
        OBVIOUS
      <4> QED
        BY <4>1, Least
    <3>2. \A k \in first .. i : s[k] \in Digits
      <4> SUFFICES ASSUME NEW k \in first .. i PROVE s[k] \in Digits
        OBVIOUS
      <4>1. CASE k = first
        BY <4>1, <1>5
      <4>2. CASE k # first
        <5>1. k - 1 \in first .. L /\ k - 1 \notin ends /\ k - 1 + 1 = k
          BY <4>2, <3>1
        <5> QED
          BY <5>1
      <4> QED
        BY <4>1, <4>2
    <3> QED
      BY <3>1, <3>2, <1>1
  <2>2. Final \in first .. Len(s) /\ Run(Final)
    <3> HIDE DEF Run
    <3> QED
      BY <2>1
  <2>3. PICK last \in first .. L : last = Final /\ \A k \in first .. last : s[k] \in Digits
    BY <2>2, <1>1
  <2> HIDE DEF Final
  <2> DEFINE Right(f) == f = [i \in first .. last |->
                                Value[s[i]] + (IF i = first THEN 0 ELSE 16 * f[i - 1])]
             N == last - first
             g == [n \in 1 .. N |-> [v \in Nat |-> Value[s[first + n]] + 16 * v]]
  <2>4. N \in Nat /\ \A n \in 0 .. N : first + n \in first .. last /\ s[first + n] \in Digits
    BY <2>3
  <2>5. \A n \in 0 .. N : Value[s[first + n]] \in Nat
    BY <2>4, ValueIs
  <2>6. g \in [1 .. N -> [Nat -> Nat]]
    BY <2>4, <2>5
  <2>7. \A n \in 1 .. N, v \in Nat : g[n][v] = Value[s[first + n]] + 16 * v
    OBVIOUS
  <2>8. Value[s[first]] \in Nat \ {0}
    BY <1>5, <1>8, ValueIs
  <2>9. PICK h \in [0 .. N -> Nat] :
               h[0] = Value[s[first]] /\ \A n \in 1 .. N : h[n] = g[n][h[n - 1]]
    <3> DEFINE Follows(h, v0, n_1, g_1) ==
                 h[0] = v0 /\ \A n \in 1 .. n_1 : h[n] = g_1[n][h[n - 1]]
    <3>1. \A V : \A v0 \in V : \A n_1 \in Nat : \A g_1 \in [1 .. n_1 -> [V -> V]] :
            \E h \in [0 .. n_1 -> V] : Follows(h, v0, n_1, g_1)
      BY Recursion
    <3> HIDE DEF g, N, Follows
    <3>2. \E h \in [0 .. N -> Nat] : Follows(h, Value[s[first]], N, g)
      <4>1. N \in Nat /\ Value[s[first]] \in Nat
        BY <2>4, <2>8
      <4> QED
        BY <4>1, <2>6, <3>1, Zenon
    <3> QED
      BY <3>2 DEF Follows
  <2> DEFINE table == [i \in first .. last |-> h[i - first]]
  <2>10. Right(table)
    <3> SUFFICES ASSUME NEW i \in first .. last
                 PROVE  h[i - first] = Value[s[i]] + (IF i = first THEN 0 ELSE 16 * table[i - 1])
      OBVIOUS
    <3>1. CASE i = first
      <4>1. h[i - first] = Value[s[i]] /\ Value[s[i]] \in Nat
        BY <3>1, <2>8, <2>9
      <4> QED
        BY <3>1, <4>1
    <3>2. CASE i # first
      <4>1. PICK n \in 1 .. N : n = i - first
        BY <3>2
      <4>2. /\ i = first + n /\ i - 1 \in first .. last /\ i - 1 - first = n - 1
            /\ n - 1 \in 0 .. N
        BY <3>2, <4>1
      <4>3. table[i - 1] = h[n - 1] /\ h[n - 1] \in Nat
        BY <4>2
      <4> HIDE DEF table, g, N
      <4>4. h[n] = Value[s[i]] + 16 * h[n - 1]
        BY <4>2, <4>3, <2>7, <2>9
      <4> QED
        BY <3>2, <4>1, <4>3, <4>4
    <3> QED
      BY <3>1, <3>2
  <2> DEFINE f == CHOOSE f_1 : Right(f_1)
  <2>11. Right(f)
    <3> HIDE DEF Right, table
    <3> QED
      BY <2>10
  <2>12. hex_str_to(s) = f[last]
    BY <1>4, <1>8, <2>3 DEF hex_str_to, First, Final
  <2> HIDE DEF f
  <2>13. f[first] = Value[s[first]]
    <3>1. f[first] = Value[s[first]] + 0
      BY <2>11
    <3> QED
      BY <3>1, <2>8
  <2>14. \A n \in 0 .. N - 1 : f[first + n + 1] = Value[s[first + n + 1]] + 16 * f[first + n]
    <3> SUFFICES ASSUME NEW n \in 0 .. N - 1
                 PROVE  f[first + n + 1] = Value[s[first + n + 1]] + 16 * f[first + n]
      OBVIOUS
    <3>1. PICK i \in first .. last : i = first + n + 1
      BY <2>4
    <3>2. i # first /\ i - 1 = first + n
      BY <3>1
    <3>3. f[i] = Value[s[i]] + 16 * f[i - 1]
      BY <2>11, <3>2
    <3> QED
      BY <3>1, <3>2, <3>3
  <2> HIDE DEF Right
  <2> DEFINE S == {n \in 0 .. N : f[first + n] \in Nat \ {0}}
  <2>15. 0 \in S
    BY <2>4, <2>8, <2>13
  <2>16. ASSUME NEW n \in 0 .. N - 1, n \in S
         PROVE  n + 1 \in S
    <3>1. PICK v \in Nat \ {0} : v = f[first + n]
      BY <2>16
    <3>2. n + 1 \in 0 .. N /\ first + (n + 1) = first + n + 1
      BY <2>4
    <3>3. PICK d \in Nat : d = Value[s[first + n + 1]]
      BY <3>2, <2>5
    <3>4. f[first + (n + 1)] = d + 16 * v
      BY <3>1, <3>2, <3>3, <2>14
    <3> QED
      BY <3>2, <3>4
  <2> HIDE DEF S, N
  <2>17. \A n \in 0 .. N : n \in S
    BY <2>4, <2>15, <2>16, Induct
  <2>18. f[first + N] \in Nat \ {0}
    BY <2>4, <2>17 DEF S
  <2>19. first + N = last
    BY DEF N
  <2>20. hex_str_to(s) \in Nat \ {0}
    BY <2>12, <2>18, <2>19
  <2> QED
    BY <2>20, <1>6, <1>8 DEF Digits
<1> QED
  BY <1>7, <1>8

-----------------------------------------------------------------------------
(* A body on the wire                                                      *)

LEMMA WireIs ==
  ASSUME NEW c \in [line : Seq(Byte), data : Seq(Byte)]
  PROVE  /\ Wire(c) \in Seq(Byte)
         /\ Len(Wire(c)) = Len(c.line) + 2 + Len(c.data) + 2
         /\ \A q \in 1 .. Len(c.line) : Wire(c)[q] = c.line[q]
         /\ Wire(c)[Len(c.line) + 1] = "CR" /\ Wire(c)[Len(c.line) + 2] = "LF"
<1>1. PICK l \in Seq(Byte), d \in Seq(Byte) : l = c.line /\ d = c.data
  OBVIOUS
<1>2. PICK m \in Nat, n \in Nat, two \in Nat : m = Len(l) /\ n = Len(d) /\ two = 2
  OBVIOUS
<1>3. PICK t : t = l \o CRLF
  OBVIOUS
<1>4. /\ t \in Seq(Byte) /\ Len(t) = m + two
      /\ \A q \in 1 .. m : t[q] = l[q]
      /\ \A q \in 1 .. two : t[m + q] = CRLF[q]
  <2>1. CRLF \in Seq(Byte) /\ two = Len(CRLF)
    BY <1>2, CRLFIs
  <2>2. /\ l \o CRLF \in Seq(Byte) /\ Len(l \o CRLF) = Len(l) + Len(CRLF)
        /\ \A q \in 1 .. Len(l) : (l \o CRLF)[q] = l[q]
        /\ \A q \in 1 .. Len(CRLF) : (l \o CRLF)[Len(l) + q] = CRLF[q]
    BY <2>1, JoinIs
  <2> QED
    BY <1>2, <1>3, <2>1, <2>2
<1>5. PICK u : u = t \o d
  OBVIOUS
<1>6. PICK mt \in Nat : mt = m + two /\ mt = Len(t)
  BY <1>4
<1>7. /\ u \in Seq(Byte) /\ Len(u) = mt + n
      /\ \A q \in 1 .. mt : u[q] = t[q]
  <2>1. /\ t \o d \in Seq(Byte) /\ Len(t \o d) = Len(t) + Len(d)
        /\ \A q \in 1 .. Len(t) : (t \o d)[q] = t[q]
    BY <1>4, JoinIs
  <2> QED
    BY <1>2, <1>5, <1>6, <2>1
<1>8. PICK w : w = u \o CRLF
  OBVIOUS
<1>9. PICK mu \in Nat : mu = mt + n /\ mu = Len(u)
  BY <1>7
<1>10. /\ w \in Seq(Byte) /\ Len(w) = mu + two
       /\ \A q \in 1 .. mu : w[q] = u[q]
  <2>1. CRLF \in Seq(Byte) /\ two = Len(CRLF)
    BY <1>2, CRLFIs
  <2>2. /\ u \o CRLF \in Seq(Byte) /\ Len(u \o CRLF) = Len(u) + Len(CRLF)
        /\ \A q \in 1 .. Len(u) : (u \o CRLF)[q] = u[q]
    BY <1>7, <2>1, JoinIs
  <2> QED
    BY <1>8, <1>9, <2>1, <2>2
<1>11. \A q \in 1 .. m + 2 : q \in 1 .. mt /\ q \in 1 .. mu
  BY <1>2, <1>6, <1>9
<1>12. \A q \in 1 .. m + 2 : w[q] = t[q]
  BY <1>7, <1>10, <1>11
<1>13. \A q \in 1 .. m : w[q] = l[q]
  <2>1. \A q \in 1 .. m : q \in 1 .. m + 2
    OBVIOUS
  <2> QED
    BY <1>4, <1>12, <2>1
<1>14. w[m + 1] = "CR" /\ w[m + 2] = "LF"
  <2>1. m + 1 \in 1 .. m + 2 /\ m + 2 \in 1 .. m + 2
    OBVIOUS
  <2>2. t[m + 1] = CRLF[1] /\ t[m + 2] = CRLF[2]
    BY <1>2, <1>4
  <2> QED
    BY <2>1, <2>2, <1>12, CRLFIs
<1>15. w = Wire(c)
  <2>1. w = ((l \o CRLF) \o d) \o CRLF
    BY <1>3, <1>5, <1>8
  <2> QED
    BY <2>1, <1>1 DEF Wire
<1>16. Len(w) = m + 2 + n + 2
  BY <1>2, <1>6, <1>9, <1>10
<1> QED
  BY <1>1, <1>2, <1>10, <1>13, <1>14, <1>15, <1>16

LEMMA BodyType ==
  ASSUME NEW b \in Bodies
  PROVE  /\ b.chunks \in Seq([line : Seq(Byte), data : Seq(Byte)])
         /\ b.end \in Seq(Byte)
BY RelayAssumption

\* What precedes the chunks, one longer than the other.
LEMMA FrontsIs ==
  ASSUME NEW b \in Bodies
  PROVE  /\ \A i \in 0 .. Len(b.chunks) : Fronts(b)[i] \in Seq(Byte)
         /\ Fronts(b)[0] = <<>>
         /\ \A i \in 1 .. Len(b.chunks) :
              Fronts(b)[i] = Fronts(b)[i - 1] \o Wire(b.chunks[i])
<1>1. PICK N \in Nat : N = Len(b.chunks)
  BY BodyType
<1>2. \A i \in 1 .. N : Wire(b.chunks[i]) \in Seq(Byte)
  <2> SUFFICES ASSUME NEW i \in 1 .. N PROVE Wire(b.chunks[i]) \in Seq(Byte)
    OBVIOUS
  <2>1. b.chunks[i] \in [line : Seq(Byte), data : Seq(Byte)]
    BY <1>1, BodyType, ElementOfSeq
  <2> QED
    BY <2>1, WireIs
<1> DEFINE Right(f) == f = [i \in 0 .. N |->
                              IF i = 0 THEN <<>> ELSE f[i - 1] \o Wire(b.chunks[i])]
           g == [n \in 1 .. N |-> [v \in Seq(Byte) |-> v \o Wire(b.chunks[n])]]
           Follows(h, v0, n_1, g_1) ==
             h[0] = v0 /\ \A n \in 1 .. n_1 : h[n] = g_1[n][h[n - 1]]
<1>3. \A n \in 1 .. N, v \in Seq(Byte) : v \o Wire(b.chunks[n]) \in Seq(Byte)
  BY <1>2, ConcatProperties
<1>4. /\ g \in [1 .. N -> [Seq(Byte) -> Seq(Byte)]]
      /\ \A n \in 1 .. N, v \in Seq(Byte) : g[n][v] = v \o Wire(b.chunks[n])
  BY <1>3
<1>5. <<>> \in Seq(Byte)
  OBVIOUS
<1>6. PICK h \in [0 .. N -> Seq(Byte)] : Follows(h, <<>>, N, g)
  <2>1. \A V : \A v0 \in V : \A n_1 \in Nat : \A g_1 \in [1 .. n_1 -> [V -> V]] :
          \E h \in [0 .. n_1 -> V] : Follows(h, v0, n_1, g_1)
    BY Recursion
  <2> HIDE DEF g, Follows
  <2> QED
    BY <1>1, <1>4, <1>5, <2>1, Zenon
<1>7. Right(h)
  <2>1. ASSUME NEW i \in 0 .. N
        PROVE  h[i] = IF i = 0 THEN <<>> ELSE h[i - 1] \o Wire(b.chunks[i])
    <3>1. CASE i = 0
      BY <3>1, <1>6
    <3>2. CASE i # 0
      <4>1. i \in 1 .. N /\ h[i - 1] \in Seq(Byte)
        BY <3>2
      <4>2. h[i] = g[i][h[i - 1]]
        BY <4>1, <1>6
      <4> HIDE DEF g
      <4> QED
        BY <3>2, <4>1, <4>2, <1>4
    <3> QED
      BY <3>1, <3>2
  <2> QED
    BY <2>1
<1> DEFINE f == CHOOSE f_1 : Right(f_1)
<1>8. Right(f)
  <2> HIDE DEF Right
  <2> QED
    BY <1>7
<1>9. Fronts(b) = f
  BY <1>1 DEF Fronts
<1> HIDE DEF f, g, Follows
<1>10. f[0] = <<>> /\ \A i \in 1 .. N : f[i] = f[i - 1] \o Wire(b.chunks[i])
  BY <1>8
<1> HIDE DEF Right
<1> DEFINE S == {i \in 0 .. N : f[i] \in Seq(Byte)}
<1>11. 0 \in S
  BY <1>5, <1>10
<1>12. ASSUME NEW n \in 0 .. N - 1, n \in S
       PROVE  n + 1 \in S
  <2>1. n + 1 \in 1 .. N /\ n + 1 - 1 = n /\ f[n] \in Seq(Byte)
    BY <1>12
  <2>2. f[n + 1] = f[n] \o Wire(b.chunks[n + 1])
    <3>1. PICK i \in 1 .. N : i = n + 1 /\ i - 1 = n
      BY <2>1
    <3>2. f[i] = f[i - 1] \o Wire(b.chunks[i])
      BY <1>10
    <3> QED
      BY <3>1, <3>2
  <2>3. f[n + 1] \in Seq(Byte)
    BY <2>1, <2>2, <1>3
  <2> QED
    BY <2>1, <2>3
<1> HIDE DEF S
<1>13. \A n \in 0 .. N : n \in S
  BY <1>11, <1>12, Induct
<1> QED
  BY <1>1, <1>9, <1>10, <1>13 DEF S

LEMMA BytesIs ==
  ASSUME NEW b \in Bodies
  PROVE  Bytes(b) \in Seq(Byte)
<1>1. Len(b.chunks) \in 0 .. Len(b.chunks)
  BY BodyType
<1> QED
  BY <1>1, BodyType, FrontsIs, ConcatProperties DEF Bytes

\* Each front is how the body begins.
LEMMA FrontIsFront ==
  ASSUME NEW b \in Bodies, NEW i \in 0 .. Len(b.chunks)
  PROVE  /\ Len(Fronts(b)[i]) <= Len(Bytes(b))
         /\ \A q \in 1 .. Len(Fronts(b)[i]) : Bytes(b)[q] = Fronts(b)[i][q]
<1>1. PICK N \in Nat : N = Len(b.chunks)
  BY BodyType
<1>2. PICK F : F = Fronts(b)
  OBVIOUS
<1>3. PICK all \in Seq(Byte) : all = Bytes(b)
  BY BytesIs
<1>4. \A n \in 0 .. N : F[n] \in Seq(Byte)
  BY <1>1, <1>2, FrontsIs
<1> DEFINE Begins(s) == /\ Len(s) <= Len(all)
                        /\ \A q \in 1 .. Len(s) : all[q] = s[q]
           S == {n \in 0 .. N : Begins(F[N - n])}
<1>5. 0 \in S
  <2>1. F[N] \in Seq(Byte) /\ b.end \in Seq(Byte) /\ all = F[N] \o b.end
    BY <1>1, <1>2, <1>3, <1>4, BodyType DEF Bytes
  <2>2. PICK s \in Seq(Byte), t \in Seq(Byte) : s = F[N] /\ t = b.end
    BY <2>1
  <2>3. /\ s \o t \in Seq(Byte) /\ Len(s \o t) = Len(s) + Len(t)
        /\ \A q \in 1 .. Len(s) : (s \o t)[q] = s[q]
    BY JoinIs
  <2>4. Begins(F[N])
    <3>1. all = s \o t
      BY <2>1, <2>2
    <3>2. Len(all) = Len(s) + Len(t) /\ \A q \in 1 .. Len(s) : all[q] = s[q]
      BY <2>3, <3>1
    <3>3. Begins(s)
      BY <3>2
    <3> HIDE DEF Begins
    <3> QED
      BY <2>2, <3>3
  <2>5. N - 0 = N
    OBVIOUS
  <2> HIDE DEF Begins
  <2> QED
    BY <2>4, <2>5
<1>6. ASSUME NEW n \in 0 .. N - 1, n \in S
      PROVE  n + 1 \in S
  <2>1. PICK m \in 1 .. N : m = N - n /\ m - 1 = N - (n + 1)
    OBVIOUS
  <2>2. /\ F[m] = F[m - 1] \o Wire(b.chunks[m])
        /\ F[m - 1] \in Seq(Byte) /\ b.chunks[m] \in [line : Seq(Byte), data : Seq(Byte)]
    <3>1. m - 1 \in 0 .. N
      OBVIOUS
    <3> QED
      BY <3>1, <1>1, <1>2, <1>4, FrontsIs, BodyType, ElementOfSeq
  <2>3. PICK s \in Seq(Byte), t \in Seq(Byte) : s = F[m - 1] /\ t = Wire(b.chunks[m])
    BY <2>2, WireIs
  <2>4. /\ s \o t \in Seq(Byte) /\ Len(s \o t) = Len(s) + Len(t)
        /\ \A q \in 1 .. Len(s) : (s \o t)[q] = s[q]
    BY JoinIs
  <2>5. Begins(s \o t)
    BY <1>6, <2>1, <2>2, <2>3
  <2>6. Begins(s)
    <3>1. PICK u \in Seq(Byte) : u = s \o t
      BY <2>4
    <3>2. \A q \in 1 .. Len(s) : q \in 1 .. Len(u)
      BY <2>4, <3>1
    <3> QED
      BY <2>4, <2>5, <3>1, <3>2
  <2> HIDE DEF Begins
  <2>7. n + 1 \in 0 .. N
    OBVIOUS
  <2> QED
    BY <2>1, <2>3, <2>6, <2>7
<1> HIDE DEF S
<1>7. \A n \in 0 .. N : n \in S
  BY <1>5, <1>6, Induct
<1>8. N - i \in 0 .. N /\ N - (N - i) = i
  BY <1>1
<1>9. Begins(F[i])
  BY <1>7, <1>8 DEF S
<1> QED
  BY <1>2, <1>3, <1>9

\* Where a chunk stands in its body.
LEMMA ChunkIs ==
  ASSUME NEW b \in Bodies, NEW i \in 1 .. Len(b.chunks)
  PROVE  /\ Len(Fronts(b)[i - 1]) \in Nat /\ Wire(b.chunks[i]) \in Seq(Byte)
         /\ Len(Fronts(b)[i]) = Len(Fronts(b)[i - 1]) + Len(Wire(b.chunks[i]))
         /\ Len(Fronts(b)[i - 1]) + Len(Wire(b.chunks[i])) <= Len(Bytes(b))
         /\ \A q \in 1 .. Len(Wire(b.chunks[i])) :
              Bytes(b)[Len(Fronts(b)[i - 1]) + q] = Wire(b.chunks[i])[q]
<1> DEFINE r == Len(Fronts(b)[i - 1])
           w == Wire(b.chunks[i])
<1> HIDE DEF r, w
<1>1. i - 1 \in 0 .. Len(b.chunks) /\ i \in 0 .. Len(b.chunks)
  BY BodyType
<1>2. PICK s \in Seq(Byte), u \in Seq(Byte) :
        s = Fronts(b)[i - 1] /\ u = Fronts(b)[i] /\ u = s \o w
  BY <1>1, FrontsIs DEF w
<1>3. w \in Seq(Byte)
  BY BodyType, ElementOfSeq, WireIs DEF w
<1>4. /\ s \o w \in Seq(Byte) /\ Len(s \o w) = Len(s) + Len(w)
      /\ \A q \in 1 .. Len(w) : (s \o w)[Len(s) + q] = w[q]
  BY <1>3, JoinIs
<1>5. PICK n \in Nat : n = Len(w)
  BY <1>3
<1>6. r \in Nat /\ r = Len(s) /\ Len(u) = r + n /\ \A q \in 1 .. n : u[r + q] = w[q]
  <2>1. Len(u) = Len(s) + Len(w) /\ \A q \in 1 .. Len(w) : u[Len(s) + q] = w[q]
    BY <1>2, <1>4
  <2>2. r \in Nat /\ r = Len(s)
    BY <1>2 DEF r
  <2> QED
    BY <2>1, <2>2, <1>5
<1>7. Len(u) <= Len(Bytes(b)) /\ \A q \in 1 .. Len(u) : Bytes(b)[q] = u[q]
  BY <1>1, <1>2, FrontIsFront
<1>8. \A q \in 1 .. n : r + q \in 1 .. r + n
  BY <1>6
<1>9. \A q \in 1 .. n : Bytes(b)[r + q] = w[q]
  BY <1>6, <1>7, <1>8
<1> QED
  BY <1>2, <1>3, <1>5, <1>6, <1>7, <1>9 DEF r, w

LEMMA EndIs ==
  ASSUME NEW b \in Bodies, NEW r, r = Len(Fronts(b)[Len(b.chunks)])
  PROVE  /\ r \in Nat /\ r + Len(b.end) = Len(Bytes(b))
         /\ \A q \in 1 .. Len(b.end) : Bytes(b)[r + q] = b.end[q]
<1>1. Len(b.chunks) \in 0 .. Len(b.chunks)
  BY BodyType
<1>2. PICK s \in Seq(Byte), t \in Seq(Byte) :
        s = Fronts(b)[Len(b.chunks)] /\ t = b.end
  BY <1>1, BodyType, FrontsIs
<1>3. /\ Len(s \o t) = Len(s) + Len(t)
      /\ \A q \in 1 .. Len(t) : (s \o t)[Len(s) + q] = t[q]
  BY JoinIs
<1>4. Bytes(b) = s \o t
  BY <1>2 DEF Bytes
<1>5. PICK u : u = Bytes(b)
  OBVIOUS
<1>6. Len(u) = Len(s) + Len(t) /\ \A q \in 1 .. Len(t) : u[Len(s) + q] = t[q]
  BY <1>3, <1>4, <1>5
<1>7. r \in Nat /\ r = Len(s)
  BY <1>2
<1> QED
  BY <1>2, <1>5, <1>6, <1>7

-----------------------------------------------------------------------------
(* Bodies of the usual form                                                *)

LEMMA OrdinaryEnd ==
  ASSUME NEW b \in Bodies, Ordinary(b)
  PROVE  /\ Len(b.end) = 5 /\ b.end[1] = "0"
         /\ b.end[2] = "CR" /\ b.end[3] = "LF" /\ b.end[4] = "CR" /\ b.end[5] = "LF"
<1>1. PICK s \in Seq(Byte), t \in Seq(Byte) :
        s = <<"0">> /\ t = Pattern /\ Len(s) = 1 /\ s[1] = "0"
  <2>1. "0" \in Byte
    BY DEF Byte, Digits
  <2>2. <<"0">> \in Seq(Byte) /\ Len(<<"0">>) = 1 /\ <<"0">>[1] = "0"
    BY <2>1
  <2> QED
    BY <2>2, PatternIs
<1>2. PICK u : u = s \o t
  OBVIOUS
<1>3. /\ Len(u) = Len(s) + Len(t)
      /\ \A q \in 1 .. Len(s) : u[q] = s[q]
      /\ \A q \in 1 .. Len(t) : u[Len(s) + q] = t[q]
  BY <1>2, JoinIs
<1>4. Len(u) = 5 /\ u[1] = "0" /\ \A q \in 1 .. 4 : u[1 + q] = Pattern[q]
  BY <1>1, <1>3, PatternIs
<1>5. b.end = u
  BY <1>1, <1>2 DEF Ordinary
<1>6. u[2] = Pattern[1] /\ u[3] = Pattern[2] /\ u[4] = Pattern[3] /\ u[5] = Pattern[4]
  BY <1>4
<1> QED
  BY <1>4, <1>5, <1>6, PatternIs

\* The text s has at r a line l of a chunk, or the end of the body.
LineAt(s, r, l) ==
  /\ l # <<>> /\ l[1] \in Digits \ {"0"} /\ LineEnds(l) = {}
  /\ Len(l) + 2 <= LineMax /\ r + Len(l) + 2 <= Len(s)
  /\ \A q \in 1 .. Len(l) : s[r + q] = l[q]
  /\ s[r + Len(l) + 1] = "CR" /\ s[r + Len(l) + 2] = "LF"
EndAt(s, r) ==
  /\ r + 5 = Len(s) /\ s[r + 1] = "0"
  /\ s[r + 2] = "CR" /\ s[r + 3] = "LF" /\ s[r + 4] = "CR" /\ s[r + 5] = "LF"

LEMMA HexRunOf ==
  ASSUME NEW s \in Seq(Byte), s # <<>>, s[1] \in Digits
  PROVE  HexRun(s) # {}
<1>1. 1 \in HexRun(s)
  BY DEF HexRun
<1> QED
  BY <1>1

\* At a start there is the line of a chunk, whose size leads to another start,
\* or the end.
LEMMA AtStart ==
  ASSUME NEW b \in Bodies, Ordinary(b), NEW r \in Starts(b)
  PROVE  /\ r \in Nat
         /\ \/ \E l \in Seq(Byte) : /\ LineAt(Bytes(b), r, l)
                                    /\ hex_str_to(l) \in Nat \ {0}
                                    /\ r + (Len(l) + 2 + hex_str_to(l) + 2) \in Starts(b)
            \/ EndAt(Bytes(b), r)
<1>1. PICK N \in Nat : N = Len(b.chunks)
  BY BodyType
<1>2. PICK i \in 0 .. N : r = Len(Fronts(b)[i])
  BY <1>1 DEF Starts
<1>3. CASE i = N
  <2>1. /\ r \in Nat /\ r + Len(b.end) = Len(Bytes(b))
        /\ \A q \in 1 .. Len(b.end) : Bytes(b)[r + q] = b.end[q]
    BY <1>1, <1>2, <1>3, EndIs
  <2>2. PICK u : u = b.end
    OBVIOUS
  <2>3. r + 5 = Len(Bytes(b)) /\ \A q \in 1 .. 5 : Bytes(b)[r + q] = u[q]
    BY <2>1, <2>2, OrdinaryEnd
  <2>4. /\ Bytes(b)[r + 1] = u[1] /\ Bytes(b)[r + 2] = u[2] /\ Bytes(b)[r + 3] = u[3]
        /\ Bytes(b)[r + 4] = u[4] /\ Bytes(b)[r + 5] = u[5]
    BY <2>3
  <2> QED
    BY <2>1, <2>2, <2>3, <2>4, OrdinaryEnd DEF EndAt
<1>4. CASE i # N
  <2>1. PICK k \in 1 .. N : k = i + 1 /\ k - 1 = i
    BY <1>4
  <2>2. b.chunks[k] \in [line : Seq(Byte), data : Seq(Byte)]
    BY <1>1, <2>1, BodyType, ElementOfSeq
  <2>3. PICK l \in Seq(Byte), d \in Seq(Byte) : l = b.chunks[k].line /\ d = b.chunks[k].data
    BY <2>2
  <2>4. /\ l # <<>> /\ l[1] \in Digits \ {"0"} /\ LineEnds(l) = {}
        /\ Len(l) + 2 <= LineMax /\ hex_str_to(l) = Len(d)
    <3>1. k \in DOMAIN b.chunks
      BY <1>1, BodyType
    <3> QED
      BY <2>3, <3>1 DEF Ordinary
  <2>5. hex_str_to(l) \in Nat \ {0}
    BY <2>4, HexRunOf, SizeIs
  <2>6. PICK w : w = Wire(b.chunks[k])
    OBVIOUS
  <2>7. /\ w \in Seq(Byte) /\ Len(w) = Len(l) + 2 + Len(d) + 2
        /\ \A q \in 1 .. Len(l) : w[q] = l[q]
        /\ w[Len(l) + 1] = "CR" /\ w[Len(l) + 2] = "LF"
    BY <2>2, <2>3, <2>6, WireIs
  <2>8. /\ r \in Nat /\ Len(Fronts(b)[k]) = r + Len(w) /\ r + Len(w) <= Len(Bytes(b))
        /\ \A q \in 1 .. Len(w) : Bytes(b)[r + q] = w[q]
    <3>1. k \in 1 .. Len(b.chunks) /\ r = Len(Fronts(b)[k - 1])
      BY <1>1, <1>2, <2>1
    <3>2. /\ Len(Fronts(b)[k - 1]) \in Nat
          /\ Len(Fronts(b)[k]) = Len(Fronts(b)[k - 1]) + Len(Wire(b.chunks[k]))
          /\ Len(Fronts(b)[k - 1]) + Len(Wire(b.chunks[k])) <= Len(Bytes(b))
          /\ \A q \in 1 .. Len(Wire(b.chunks[k])) :
               Bytes(b)[Len(Fronts(b)[k - 1]) + q] = Wire(b.chunks[k])[q]
      BY <3>1, ChunkIs
    <3> QED
      BY <3>1, <3>2, <2>6
  <2>9. r + (Len(l) + 2 + hex_str_to(l) + 2) \in Starts(b)
    <3>1. k \in 0 .. N
      OBVIOUS
    <3>2. Len(Fronts(b)[k]) \in Starts(b)
      BY <1>1, <3>1 DEF Starts
    <3> QED
      BY <2>4, <2>7, <2>8, <3>2
  <2>10. PICK m \in Nat, n \in Nat : m = Len(l) /\ n = Len(d)
    OBVIOUS
  <2>11. /\ \A q \in 1 .. m : q \in 1 .. m + 2 + n + 2
         /\ m + 1 \in 1 .. m + 2 + n + 2 /\ m + 2 \in 1 .. m + 2 + n + 2
         /\ r + (m + 1) = r + m + 1 /\ r + (m + 2) = r + m + 2
    BY <2>8
  <2>12. \A q \in 1 .. m : Bytes(b)[r + q] = l[q]
    BY <2>7, <2>8, <2>10, <2>11
  <2>13. Bytes(b)[r + m + 1] = "CR" /\ Bytes(b)[r + m + 2] = "LF"
    BY <2>7, <2>8, <2>10, <2>11
  <2>14. r + m + 2 <= Len(Bytes(b))
    <3>1. PICK L \in Nat : L = Len(Bytes(b))
      BY BytesIs
    <3>2. Len(w) = m + 2 + n + 2
      BY <2>7, <2>10
    <3> QED
      BY <2>8, <3>1, <3>2
  <2>15. LineAt(Bytes(b), r, l)
    BY <2>4, <2>10, <2>12, <2>13, <2>14 DEF LineAt
  <2> QED
    BY <2>5, <2>8, <2>9, <2>15
<1> QED
  BY <1>3, <1>4

-----------------------------------------------------------------------------
(* The invariant holds initially and is kept                               *)

\* A part of a text, between two positions.
LEMMA SliceIs ==
  ASSUME NEW s \in Seq(Byte), NEW p \in Nat, NEW e \in Nat, p <= e, e <= Len(s)
  PROVE  /\ SubSeq(s, p + 1, e) \in Seq(Byte)
         /\ Len(SubSeq(s, p + 1, e)) = e - p
         /\ \A i \in 1 .. e - p : SubSeq(s, p + 1, e)[i] = s[p + i]
<1>1. PICK n \in Nat : n = e - p /\ p + n = e
  OBVIOUS
<1>2. PICK L \in Nat : L = Len(s) /\ p + n <= L
  BY <1>1
<1>3. /\ SubSeq(s, p + 1, p + n) \in Seq(Byte)
      /\ Len(SubSeq(s, p + 1, p + n)) = n
      /\ \A i \in 1 .. n : SubSeq(s, p + 1, p + n)[i] = s[p + i]
  BY <1>2, PieceIs
<1> QED
  BY <1>1, <1>3

\* How a text begins.
LEMMA HeadIs ==
  ASSUME NEW s \in Seq(Byte), NEW n \in Nat, n <= Len(s)
  PROVE  /\ SubSeq(s, 1, n) \in Seq(Byte) /\ Len(SubSeq(s, 1, n)) = n
         /\ \A i \in 1 .. n : SubSeq(s, 1, n)[i] = s[i]
<1>1. PICK z \in Nat : z = 0 /\ z + n = n /\ z + 1 = 1
  OBVIOUS
<1>2. z + n <= Len(s) /\ \A i \in 1 .. n : z + i = i
  BY <1>1
<1>3. /\ SubSeq(s, z + 1, z + n) \in Seq(Byte)
      /\ Len(SubSeq(s, z + 1, z + n)) = n
      /\ \A i \in 1 .. n : SubSeq(s, z + 1, z + n)[i] = s[z + i]
  BY <1>2, PieceIs
<1>4. \A i \in 1 .. n : SubSeq(s, 1, n)[i] = s[i]
  BY <1>1, <1>2, <1>3
<1> QED
  BY <1>1, <1>3, <1>4

\* Texts of one length are equal if their bytes are.
LEMMA SameBytes ==
  ASSUME NEW s \in Seq(Byte), NEW t \in Seq(Byte), Len(s) = Len(t),
         \A i \in 1 .. Len(s) : s[i] = t[i]
  PROVE  s = t
BY SeqEqual

\* Part of a part.
LEMMA SliceOfSlice ==
  ASSUME NEW s \in Seq(Byte), NEW p \in Nat, NEW n \in Nat, NEW m \in Nat,
         p + n <= Len(s), m <= n
  PROVE  SubSeq(SubSeq(s, p + 1, p + n), 1, m) = SubSeq(s, p + 1, p + m)
<1>1. PICK t \in Seq(Byte) : /\ t = SubSeq(s, p + 1, p + n) /\ Len(t) = n
                             /\ \A i \in 1 .. n : t[i] = s[p + i]
  <2>1. /\ SubSeq(s, p + 1, p + n) \in Seq(Byte)
        /\ Len(SubSeq(s, p + 1, p + n)) = n
        /\ \A i \in 1 .. n : SubSeq(s, p + 1, p + n)[i] = s[p + i]
    BY PieceIs
  <2> QED
    BY <2>1
<1>2. PICK u \in Seq(Byte) : /\ u = SubSeq(t, 1, m) /\ Len(u) = m
                             /\ \A i \in 1 .. m : u[i] = t[i]
  <2>1. /\ SubSeq(t, 1, m) \in Seq(Byte) /\ Len(SubSeq(t, 1, m)) = m
        /\ \A i \in 1 .. m : SubSeq(t, 1, m)[i] = t[i]
    BY <1>1, HeadIs
  <2> QED
    BY <2>1
<1>3. PICK L \in Nat : L = Len(s) /\ p + m <= L
  OBVIOUS
<1>4. PICK v \in Seq(Byte) : /\ v = SubSeq(s, p + 1, p + m) /\ Len(v) = m
                             /\ \A i \in 1 .. m : v[i] = s[p + i]
  <2>1. /\ SubSeq(s, p + 1, p + m) \in Seq(Byte)
        /\ Len(SubSeq(s, p + 1, p + m)) = m
        /\ \A i \in 1 .. m : SubSeq(s, p + 1, p + m)[i] = s[p + i]
    BY <1>3, PieceIs
  <2> QED
    BY <2>1
<1>5. \A i \in 1 .. m : i \in 1 .. n
  OBVIOUS
<1>6. \A i \in 1 .. m : u[i] = v[i]
  BY <1>1, <1>2, <1>4, <1>5
<1>7. u = v
  BY <1>2, <1>4, <1>6, SameBytes
<1> QED
  BY <1>1, <1>2, <1>4, <1>7

\* Adjacent parts.
LEMMA SliceJoin ==
  ASSUME NEW s \in Seq(Byte), NEW p \in Nat, NEW n \in Nat, NEW m \in Nat,
         p + n + m <= Len(s)
  PROVE  SubSeq(s, p + 1, p + n) \o SubSeq(s, p + n + 1, p + n + m)
           = SubSeq(s, p + 1, p + n + m)
<1>1. PICK L \in Nat : L = Len(s)
  OBVIOUS
<1>2. PICK q \in Nat, o \in Nat : q = p + n /\ o = n + m /\ p + o = q + m /\ p + n <= L
  BY <1>1
<1>3. PICK t \in Seq(Byte) : /\ t = SubSeq(s, p + 1, p + n) /\ Len(t) = n
                             /\ \A i \in 1 .. n : t[i] = s[p + i]
  <2>1. /\ SubSeq(s, p + 1, p + n) \in Seq(Byte)
        /\ Len(SubSeq(s, p + 1, p + n)) = n
        /\ \A i \in 1 .. n : SubSeq(s, p + 1, p + n)[i] = s[p + i]
    BY <1>1, <1>2, PieceIs
  <2> QED
    BY <2>1
<1>4. PICK u \in Seq(Byte) : /\ u = SubSeq(s, q + 1, q + m) /\ Len(u) = m
                             /\ \A i \in 1 .. m : u[i] = s[q + i]
  <2>1. /\ SubSeq(s, q + 1, q + m) \in Seq(Byte)
        /\ Len(SubSeq(s, q + 1, q + m)) = m
        /\ \A i \in 1 .. m : SubSeq(s, q + 1, q + m)[i] = s[q + i]
    BY <1>1, <1>2, PieceIs
  <2> QED
    BY <2>1
<1>5. PICK v \in Seq(Byte) : /\ v = SubSeq(s, p + 1, p + o) /\ Len(v) = o
                             /\ \A i \in 1 .. o : v[i] = s[p + i]
  <2>1. /\ SubSeq(s, p + 1, p + o) \in Seq(Byte)
        /\ Len(SubSeq(s, p + 1, p + o)) = o
        /\ \A i \in 1 .. o : SubSeq(s, p + 1, p + o)[i] = s[p + i]
    BY <1>1, <1>2, PieceIs
  <2> QED
    BY <2>1
<1>6. PICK w : w = t \o u
  OBVIOUS
<1>7. /\ w \in Seq(Byte) /\ Len(w) = o
      /\ \A i \in 1 .. n : w[i] = t[i]
      /\ \A i \in 1 .. m : w[n + i] = u[i]
  <2>1. /\ t \o u \in Seq(Byte) /\ Len(t \o u) = Len(t) + Len(u)
        /\ \A i \in 1 .. Len(t) : (t \o u)[i] = t[i]
        /\ \A i \in 1 .. Len(u) : (t \o u)[Len(t) + i] = u[i]
    BY JoinIs
  <2>2. Len(t) = n /\ Len(u) = m
    BY <1>3, <1>4
  <2>3. /\ w \in Seq(Byte) /\ Len(w) = n + m
        /\ \A i \in 1 .. n : w[i] = t[i]
        /\ \A i \in 1 .. m : w[n + i] = u[i]
    BY <2>1, <2>2, <1>6
  <2> QED
    BY <2>3, <1>2
<1>8. ASSUME NEW i \in 1 .. o PROVE w[i] = v[i]
  <2>1. CASE i <= n
    <3>1. i \in 1 .. n
      BY <2>1
    <3>2. w[i] = t[i]
      BY <3>1, <1>7
    <3>3. t[i] = s[p + i]
      BY <3>1, <1>3
    <3>4. v[i] = s[p + i]
      BY <1>5
    <3> QED
      BY <3>2, <3>3, <3>4
  <2>2. CASE i > n
    <3>1. i - n \in 1 .. m /\ n + (i - n) = i /\ q + (i - n) = p + i
      BY <2>2, <1>2
    <3>2. PICK k \in 1 .. m : k = i - n
      BY <3>1
    <3>3. n + k = i /\ q + k = p + i
      BY <3>1, <3>2
    <3>4. w[n + k] = u[k]
      BY <1>7
    <3>5. u[k] = s[q + k]
      BY <1>4
    <3>6. v[i] = s[p + i]
      BY <1>5
    <3> QED
      BY <3>3, <3>4, <3>5, <3>6, Zenon
  <2> QED
    BY <2>1, <2>2
<1>9. w = v
  BY <1>5, <1>7, <1>8, SameBytes
<1> QED
  BY <1>2, <1>3, <1>4, <1>5, <1>6, <1>9

\* What the type invariant says of the numbers.
LEMMA Numbers ==
  ASSUME TypeOK
  PROVE  /\ stream \in Seq(Byte) /\ Len(stream) \in Nat
         /\ loaded \in Nat /\ relayed \in Nat /\ checked \in Nat /\ left \in Nat
         /\ relayed <= loaded /\ loaded <= Len(stream) /\ checked <= loaded
<1>1. stream \in Seq(Byte)
  BY BytesIs DEF TypeOK
<1>2. PICK L \in Nat : L = Len(stream)
  BY <1>1
<1> QED
  BY <1>1, <1>2 DEF TypeOK

LEMMA Initially == Init => IInv
<1> SUFFICES ASSUME Init PROVE IInv
  OBVIOUS
<1>1. body \in Bodies /\ stream \in Seq(Byte)
  BY BytesIs DEF Init
<1>2. PICK L \in Nat : L = Len(stream)
  BY <1>1
<1>3. loaded \in 0 .. L /\ loaded \in Nat /\ relayed = 0
  BY <1>2 DEF Init
<1>4. /\ line \in Seq(Byte) /\ Len(line) = loaded /\ line = SubSeq(stream, relayed + 1, loaded)
  <2>1. line = SubSeq(stream, 0 + 1, loaded)
    BY DEF Init, Buffer
  <2>2. /\ SubSeq(stream, 0 + 1, loaded) \in Seq(Byte)
        /\ Len(SubSeq(stream, 0 + 1, loaded)) = loaded - 0
    BY <1>1, <1>2, <1>3, SliceIs
  <2> QED
    BY <1>3, <2>1, <2>2
<1>5. kmp \in [j : 0 .. M, at : -1 .. L, len : 0 .. L, i : 0 .. L]
  <2>1. 0 \in 0 .. L /\ -1 \in -1 .. L /\ 0 \in 0 .. M
    BY PatternIs
  <2> QED
    BY <2>1 DEF Init
<1>6. TypeOK
  <2>1. /\ stream = Bytes(body) /\ closed \in BOOLEAN
        /\ pc \in {"size", "data", "until", "loop", "done", "thrown"}
        /\ left \in Nat /\ checked = 0
    BY DEF Init
  <2> QED
    BY <1>1, <1>2, <1>3, <1>4, <1>5, <2>1 DEF TypeOK
<1>7. LineNext
  BY <1>3, <1>4 DEF LineNext
<1>8. 0 \in Starts(body)
  <2>1. 0 \in 0 .. Len(body.chunks)
    BY <1>1, BodyType
  <2>2. Fronts(body)[0] = <<>>
    BY <1>1, FrontsIs
  <2> QED
    BY <2>1, <2>2 DEF Starts
<1>9. pc = "size" /\ relayed = 0 /\ closed = FALSE
  BY DEF Init
<1>10. Waiting /\ Searching /\ LastLine /\ Following
  BY <1>8, <1>9 DEF Init, Waiting, Searching, LastLine, Following
<1> QED
  BY <1>6, <1>7, <1>10 DEF IInv

\* The line that is read: up to the first CR LF behind what was relayed.
FirstLine(s, r, p, text) ==
  /\ p + 2 <= Len(s) - r /\ Len(text) = p
  /\ \A i \in 1 .. p : text[i] = s[r + i]
  /\ s[r + p + 1] = "CR" /\ s[r + p + 2] = "LF"
  /\ \A q \in 0 .. p - 1 : ~(s[r + q + 1] = "CR" /\ s[r + q + 2] = "LF")

LEMMA LineIs ==
  ASSUME TypeOK, LineNext, pc = "size"
  PROVE  /\ line \in Seq(Byte) /\ Len(line) \in Nat
         /\ relayed + Len(line) <= loaded
         /\ \A i \in 1 .. Len(line) : line[i] = stream[relayed + i]
<1>1. line \in Seq(Byte)
  BY DEF TypeOK
<1>2. PICK n \in Nat : n = Len(line)
  BY <1>1
<1>3. line = SubSeq(stream, relayed + 1, relayed + n) /\ n <= loaded - relayed
  BY <1>2 DEF LineNext
<1>4. /\ stream \in Seq(Byte) /\ relayed \in Nat /\ loaded \in Nat /\ Len(stream) \in Nat
      /\ loaded <= Len(stream)
  BY Numbers
<1>5. relayed + n <= loaded /\ relayed + n <= Len(stream)
  BY <1>3, <1>4
<1>6. \A i \in 1 .. n : SubSeq(stream, relayed + 1, relayed + n)[i] = stream[relayed + i]
  BY <1>4, <1>5, PieceIs
<1> QED
  BY <1>1, <1>2, <1>3, <1>5, <1>6

LEMMA ReadLine ==
  ASSUME TypeOK, LineNext, pc = "size", LineEnds(line) # {}
  PROVE  \E p \in Nat, text \in Seq(Byte) :
           /\ p = LineEnd(line) /\ text = SubSeq(line, 1, p)
           /\ relayed + p + 2 <= loaded
           /\ FirstLine(stream, relayed, p, text)
<1>1. PICK n \in Nat : n = Len(line)
  BY LineIs
<1>2. /\ line \in Seq(Byte) /\ relayed + n <= loaded
      /\ \A i \in 1 .. n : line[i] = stream[relayed + i]
  BY <1>1, LineIs
<1>3. PICK p \in Nat :
        /\ p = LineEnd(line) /\ p + 2 <= n /\ line[p + 1] = "CR" /\ line[p + 2] = "LF"
        /\ \A q \in LineEnds(line) : p <= q
  <2>1. /\ LineEnd(line) \in Nat /\ LineEnd(line) + 2 <= Len(line)
        /\ line[LineEnd(line) + 1] = "CR" /\ line[LineEnd(line) + 2] = "LF"
        /\ \A q \in LineEnds(line) : LineEnd(line) <= q
    BY <1>2, LineEndIs
  <2> QED
    BY <1>1, <2>1
<1>4. PICK text \in Seq(Byte) : /\ text = SubSeq(line, 1, p) /\ Len(text) = p
                                /\ \A i \in 1 .. p : text[i] = line[i]
  <2>1. p <= Len(line)
    BY <1>1, <1>3
  <2>2. /\ SubSeq(line, 1, p) \in Seq(Byte) /\ Len(SubSeq(line, 1, p)) = p
        /\ \A i \in 1 .. p : SubSeq(line, 1, p)[i] = line[i]
    BY <1>2, <2>1, HeadIs
  <2> QED
    BY <2>2
<1>5. \A i \in 1 .. p : text[i] = stream[relayed + i]
  <2>1. \A i \in 1 .. p : i \in 1 .. n
    BY <1>3
  <2> QED
    BY <1>2, <1>4, <2>1
<1>6. relayed \in Nat /\ loaded \in Nat /\ Len(stream) \in Nat /\ loaded <= Len(stream)
  BY Numbers
<1>7. stream[relayed + p + 1] = "CR" /\ stream[relayed + p + 2] = "LF"
  <2>1. p + 1 \in 1 .. n /\ p + 2 \in 1 .. n
    BY <1>3
  <2>2. relayed + (p + 1) = relayed + p + 1 /\ relayed + (p + 2) = relayed + p + 2
    BY <1>6
  <2> QED
    BY <1>2, <1>3, <2>1, <2>2
<1>8. ASSUME NEW q \in 0 .. p - 1,
             stream[relayed + q + 1] = "CR", stream[relayed + q + 2] = "LF"
      PROVE  FALSE
  <2>1. q + 1 \in 1 .. n /\ q + 2 \in 1 .. n /\ q \in Int /\ q >= 0 /\ q + 2 <= n
    BY <1>3
  <2>2. relayed + (q + 1) = relayed + q + 1 /\ relayed + (q + 2) = relayed + q + 2
    BY <1>6
  <2>3. line[q + 1] = "CR" /\ line[q + 2] = "LF"
    BY <1>2, <1>8, <2>1, <2>2
  <2>4. q \in Int /\ q >= 0 /\ q + 2 <= Len(line)
    BY <1>1, <2>1
  <2>5. q \in LineEnds(line)
    BY <1>2, <2>3, <2>4, LineEndsIs
  <2>6. p <= q
    BY <1>3, <2>5
  <2> QED
    BY <2>6
<1>9. relayed + p + 2 <= loaded /\ p + 2 <= Len(stream) - relayed
  <2>1. PICK r \in Nat, e \in Nat, L \in Nat :
          r = relayed /\ e = loaded /\ L = Len(stream) /\ e <= L
    BY <1>6
  <2>2. r + n <= e /\ p + 2 <= n
    BY <1>2, <1>3, <2>1
  <2>3. r + p + 2 <= e /\ p + 2 <= L - r
    BY <2>1, <2>2
  <2> QED
    BY <2>1, <2>3
<1>10. FirstLine(stream, relayed, p, text)
  BY <1>4, <1>5, <1>7, <1>8, <1>9 DEF FirstLine
<1> QED
  BY <1>3, <1>4, <1>9, <1>10

\* Where a chunk of the usual form begins, the first line is its size, and at
\* the end it is the zero.
LEMMA FirstOrdinaryLine ==
  ASSUME NEW b \in Bodies, Ordinary(b), NEW r \in Starts(b),
         NEW p \in Nat, NEW text \in Seq(Byte), FirstLine(Bytes(b), r, p, text)
  PROVE  /\ HexRun(text) # {}
         /\ hex_str_to(text) # 0 => r + Complete(p, hex_str_to(text)) \in Starts(b)
         /\ hex_str_to(text) = 0 => r + 5 = Len(Bytes(b))
<1>1. PICK s \in Seq(Byte) : s = Bytes(b)
  BY BytesIs
<1>2. r \in Nat
  BY AtStart
<1>3. CASE \E l \in Seq(Byte) : /\ LineAt(s, r, l)
                                /\ hex_str_to(l) \in Nat \ {0}
                                /\ r + (Len(l) + 2 + hex_str_to(l) + 2) \in Starts(b)
  <2>1. PICK l \in Seq(Byte) : /\ LineAt(s, r, l)
                               /\ hex_str_to(l) \in Nat \ {0}
                               /\ r + (Len(l) + 2 + hex_str_to(l) + 2) \in Starts(b)
    BY <1>3
  <2>2. PICK m \in Nat : m = Len(l)
    OBVIOUS
  <2>3. /\ s[r + m + 1] = "CR" /\ s[r + m + 2] = "LF"
        /\ \A q \in 1 .. m : s[r + q] = l[q]
        /\ l # <<>> /\ l[1] \in Digits \ {"0"} /\ LineEnds(l) = {}
    BY <2>1, <2>2 DEF LineAt
  <2>4. /\ s[r + p + 1] = "CR" /\ s[r + p + 2] = "LF"
        /\ \A q \in 0 .. p - 1 : ~(s[r + q + 1] = "CR" /\ s[r + q + 2] = "LF")
        /\ Len(text) = p /\ \A i \in 1 .. p : text[i] = s[r + i]
    BY <1>1 DEF FirstLine
  <2>5. ~(m \in 0 .. p - 1)
    BY <2>3, <2>4
  <2>6. p # m - 1
    <3> SUFFICES ASSUME p = m - 1 PROVE FALSE
      OBVIOUS
    <3>1. r + p + 2 = r + m + 1
      BY <1>2
    <3> QED
      BY <2>3, <2>4, <3>1
  <2>7. ~(p + 2 <= m)
    <3> SUFFICES ASSUME p + 2 <= m PROVE FALSE
      OBVIOUS
    <3>1. p + 1 \in 1 .. m /\ p + 2 \in 1 .. m
      OBVIOUS
    <3>2. r + (p + 1) = r + p + 1 /\ r + (p + 2) = r + p + 2
      BY <1>2
    <3>3. l[p + 1] = "CR" /\ l[p + 2] = "LF"
      BY <2>3, <2>4, <3>1, <3>2
    <3>4. p \in LineEnds(l)
      BY <2>2, <3>3, LineEndsIs
    <3> QED
      BY <2>3, <3>4
  <2>8. p = m
    BY <2>5, <2>6, <2>7
  <2>9. text = l
    <3>1. \A i \in 1 .. p : text[i] = l[i]
      BY <2>3, <2>4, <2>8
    <3> QED
      BY <2>2, <2>4, <2>8, <3>1, SameBytes
  <2>10. HexRun(l) # {}
    BY <2>3, HexRunOf
  <2>11. Complete(p, hex_str_to(text)) = Len(l) + 2 + hex_str_to(l) + 2
    BY <2>2, <2>8, <2>9 DEF Complete
  <2> QED
    BY <2>1, <2>9, <2>10, <2>11
<1>4. CASE EndAt(s, r)
  <2>1. /\ r + 5 = Len(s) /\ s[r + 1] = "0" /\ s[r + 2] = "CR" /\ s[r + 3] = "LF"
    BY <1>4 DEF EndAt
  <2>2. /\ s[r + p + 1] = "CR" /\ s[r + p + 2] = "LF"
        /\ \A q \in 0 .. p - 1 : ~(s[r + q + 1] = "CR" /\ s[r + q + 2] = "LF")
        /\ Len(text) = p /\ \A i \in 1 .. p : text[i] = s[r + i]
    BY <1>1 DEF FirstLine
  <2>3. p # 0
    <3> SUFFICES ASSUME p = 0 PROVE FALSE
      OBVIOUS
    <3>1. r + p + 1 = r + 1
      BY <1>2
    <3> QED
      BY <2>1, <2>2, <3>1
  <2>4. ~(1 \in 0 .. p - 1)
    <3>1. r + 1 + 1 = r + 2 /\ r + 1 + 2 = r + 3
      BY <1>2
    <3> QED
      BY <2>1, <2>2, <3>1
  <2>5. p = 1 /\ 1 \in 1 .. p
    BY <2>3, <2>4
  <2>6. text # <<>> /\ text[1] = "0"
    BY <2>1, <2>2, <2>5
  <2>7. HexRun(text) # {}
    BY <2>6, HexRunOf DEF Digits
  <2>8. hex_str_to(text) = 0
    BY <2>6, <2>7, SizeIs
  <2> QED
    BY <1>1, <2>1, <2>7, <2>8
<1> QED
  BY <1>1, <1>3, <1>4, AtStart

\* The only run of digits in a text of one byte is that byte.
LEMMA OneDigit ==
  ASSUME NEW s \in Seq(Byte), HexRun(s) # {}
  PROVE  Len(s) > 0 /\ (Len(s) = 1 => s[1] \in Digits)
<1>1. PICK i \in DOMAIN s : s[i] \in Digits
  BY DEF HexRun
<1>2. DOMAIN s = 1 .. Len(s) /\ Len(s) \in Nat
  OBVIOUS
<1>3. Len(s) > 0
  BY <1>1, <1>2
<1>4. Len(s) = 1 => i = 1
  BY <1>1, <1>2
<1> QED
  BY <1>1, <1>3, <1>4

LEMMA ReadSizeKeeps == IInv /\ ReadSize => IInv'
<1> SUFFICES ASSUME IInv, ReadSize PROVE IInv'
  OBVIOUS
<1> USE DEF source
<1>1. TypeOK /\ LineNext /\ Searching /\ LastLine /\ Following /\ pc = "size"
  BY DEF IInv, ReadSize
<1>2. PICK p \in Nat, text \in Seq(Byte) :
        /\ p = LineEnd(line) /\ text = SubSeq(line, 1, p)
        /\ relayed + p + 2 <= loaded
        /\ FirstLine(stream, relayed, p, text)
  BY <1>1, ReadLine DEF ReadSize
<1>3. /\ body' = body /\ stream' = stream /\ loaded' = loaded /\ relayed' = relayed
      /\ closed' = closed /\ line' = line /\ kmp' = kmp /\ checked' = checked
  BY DEF ReadSize
<1>4. \/ HexRun(text) = {} /\ pc' = "thrown" /\ left' = left
      \/ HexRun(text) # {} /\ hex_str_to(text) = 0 /\ pc' = "until" /\ left' = left
      \/ /\ HexRun(text) # {} /\ hex_str_to(text) # 0
         /\ pc' = "data" /\ left' = Complete(p, hex_str_to(text))
  BY <1>2 DEF ReadSize
<1>5. HexRun(text) # {} => hex_str_to(text) \in Nat
  BY SizeIs
<1>6. /\ loaded \in Nat /\ relayed \in Nat /\ left \in Nat /\ checked \in Nat
      /\ Len(stream) \in Nat
  BY <1>1, Numbers
<1>7. left' \in Nat /\ (pc' = "data" => left' > 0)
  BY <1>4, <1>5, <1>6 DEF Complete
<1>8. TypeOK'
  <2>1. pc' \in {"size", "data", "until", "loop", "done", "thrown"}
    BY <1>4
  <2> QED
    BY <1>1, <1>3, <1>7, <2>1 DEF TypeOK
<1>9. checked = 0 /\ kmp = [j |-> 0, at |-> -1, len |-> 0, i |-> 0]
  BY <1>1 DEF Searching
<1>10. pc' \in {"thrown", "until", "data"}
  BY <1>4
<1>11. Searching' /\ LineNext' /\ Waiting'
  BY <1>3, <1>7, <1>9, <1>10 DEF Searching, LineNext, Waiting
<1>12. LastLine'
  <2>1. SUFFICES ASSUME pc' = "until"
                 PROVE  /\ loaded - relayed >= 3
                        /\ loaded - relayed = 3 => stream[relayed + 1] \in Digits
    <3>1. from' = relayed
      BY <1>3, <1>6, <1>9 DEF from
    <3> QED
      BY <1>3, <1>10, <2>1, <3>1 DEF LastLine
  <2>2. Len(text) = p /\ \A i \in 1 .. p : text[i] = stream[relayed + i]
    BY <1>2 DEF FirstLine
  <2>3. HexRun(text) # {}
    BY <1>4, <2>1
  <2>4. p > 0 /\ (p = 1 => text[1] \in Digits)
    BY <2>2, <2>3, OneDigit
  <2>5. loaded - relayed >= p + 2
    BY <1>2, <1>6
  <2>6. loaded - relayed = 3 => p = 1
    BY <1>6, <2>4, <2>5
  <2>7. p = 1 => stream[relayed + 1] \in Digits
    BY <2>2, <2>4
  <2> QED
    BY <1>6, <2>4, <2>5, <2>6, <2>7
<1>13. Following'
  <2> SUFFICES ASSUME Ordinary(body) PROVE Following'
    BY <1>3 DEF Following
  <2>1. relayed \in Starts(body)
    BY <1>1 DEF Following
  <2>2. body \in Bodies /\ stream = Bytes(body)
    BY <1>1 DEF TypeOK
  <2>3. /\ HexRun(text) # {}
        /\ hex_str_to(text) # 0 => relayed + Complete(p, hex_str_to(text)) \in Starts(body)
        /\ hex_str_to(text) = 0 => relayed + 5 = Len(stream)
    BY <1>2, <2>1, <2>2, FirstOrdinaryLine
  <2>4. Len(body.end) = 5
    BY <2>2, OrdinaryEnd
  <2>5. from' = relayed
    BY <1>3, <1>6, <1>9 DEF from
  <2>6. pc' = "until" => from' = Len(stream) - 5
    BY <1>4, <1>6, <2>3, <2>5
  <2>7. pc' = "data" => relayed + left' \in Starts(body)
    BY <1>4, <2>3
  <2>8. pc' # "thrown"
    BY <1>4, <2>3
  <2> QED
    BY <1>3, <1>10, <2>4, <2>6, <2>7, <2>8 DEF Following
<1> QED
  BY <1>8, <1>11, <1>12, <1>13 DEF IInv

LEMMA NoLineKeeps == IInv /\ NoLine => IInv'
<1> SUFFICES ASSUME IInv, NoLine PROVE IInv'
  OBVIOUS
<1> USE DEF source
<1>1. TypeOK /\ LineNext /\ Searching /\ Following /\ pc = "size"
  BY DEF IInv, NoLine
<1>2. /\ body' = body /\ stream' = stream /\ loaded' = loaded /\ relayed' = relayed
      /\ closed' = closed /\ line' = line /\ left' = left /\ kmp' = kmp
      /\ checked' = checked /\ pc' = "thrown"
  BY DEF NoLine
<1>3. TypeOK'
  BY <1>1, <1>2 DEF TypeOK
<1>4. LineNext' /\ Waiting' /\ Searching' /\ LastLine'
  BY <1>2 DEF LineNext, Waiting, Searching, LastLine
<1>5. ~Ordinary(body)
  <2> SUFFICES ASSUME Ordinary(body) PROVE FALSE
    OBVIOUS
  <2>1. relayed \in Starts(body) /\ body \in Bodies /\ stream = Bytes(body)
    BY <1>1 DEF Following, TypeOK
  <2>2. PICK n \in Nat, r \in Nat : n = Len(line) /\ r = relayed
    BY <1>1, LineIs, Numbers
  <2>3. /\ line \in Seq(Byte)
        /\ \A i \in 1 .. n : line[i] = stream[r + i]
    BY <1>1, <2>2, LineIs
  <2>4. LineEnds(line) = {} /\ n >= LineMax
    BY <2>2 DEF NoLine
  <2>5. ASSUME NEW q \in Nat, q + 2 <= LineMax,
               stream[r + q + 1] = "CR", stream[r + q + 2] = "LF"
        PROVE  FALSE
    <3>1. q + 1 \in 1 .. n /\ q + 2 \in 1 .. n /\ q + 2 <= n
      BY <2>4, <2>5, RelayAssumption
    <3>2. r + (q + 1) = r + q + 1 /\ r + (q + 2) = r + q + 2
      OBVIOUS
    <3>3. line[q + 1] = "CR" /\ line[q + 2] = "LF"
      BY <2>3, <2>5, <3>1, <3>2
    <3>4. q \in Int /\ q >= 0 /\ q + 2 <= Len(line)
      BY <2>2, <3>1
    <3>5. q \in LineEnds(line)
      BY <2>3, <3>3, <3>4, LineEndsIs
    <3> QED
      BY <2>4, <3>5
  <2>6. CASE \E l \in Seq(Byte) : LineAt(stream, r, l)
    <3>1. PICK l \in Seq(Byte) : LineAt(stream, r, l)
      BY <2>6
    <3>2. PICK m \in Nat : m = Len(l)
      OBVIOUS
    <3>3. m + 2 <= LineMax /\ stream[r + m + 1] = "CR" /\ stream[r + m + 2] = "LF"
      BY <3>1, <3>2 DEF LineAt
    <3> QED
      BY <2>5, <3>3
  <2>7. CASE EndAt(stream, r)
    <3>1. r + 1 + 1 = r + 2 /\ r + 1 + 2 = r + 3 /\ 1 + 2 <= LineMax
      BY RelayAssumption
    <3>2. stream[r + 2] = "CR" /\ stream[r + 3] = "LF"
      BY <2>7 DEF EndAt
    <3> QED
      BY <2>5, <3>1, <3>2
  <2>8. (\E l \in Seq(Byte) : LineAt(stream, r, l)) \/ EndAt(stream, r)
    BY <2>1, <2>2, AtStart
  <2> QED
    BY <2>6, <2>7, <2>8
<1>6. Following'
  BY <1>2, <1>5 DEF Following
<1> QED
  BY <1>3, <1>4, <1>6 DEF IInv

LEMMA LoadLineKeeps ==
  ASSUME IInv, NEW n \in 0 .. MaxPiece, LoadLine(n)
  PROVE  IInv'
<1> USE DEF source
<1>1. TypeOK /\ LineNext /\ Searching /\ Following /\ pc = "size"
  BY DEF IInv, LoadLine
<1>2. /\ body' = body /\ stream' = stream /\ loaded' = loaded + n /\ relayed' = relayed
      /\ loaded + n <= Len(stream) /\ closed' = (n = 0)
      /\ line' = Lengthened(SubSeq(stream, loaded + 1, loaded + n)) /\ left' = left
      /\ kmp' = kmp /\ checked' = checked /\ pc' = "size" /\ Len(line) < LineMax
  BY <1>1 DEF LoadLine, Piece
<1>3. PICK L \in Nat, o \in Nat, r \in Nat, e \in Nat :
        /\ L = Len(line) /\ o = Len(stream) /\ r = relayed /\ e = loaded
        /\ e + n <= o /\ n \in Nat /\ L < LineMax
  BY <1>1, <1>2, LineIs, Numbers, RelayAssumption
<1>4. e = r + L /\ line = SubSeq(stream, r + 1, r + L)
  BY <1>1, <1>3 DEF LineNext
<1>5. LineMax \in Nat
  BY RelayAssumption
<1>6. PICK m \in Nat : m = IF LineMax - L < n THEN LineMax - L ELSE n
  <2>1. n \in Nat /\ LineMax - L \in Nat
    BY <1>3, <1>5
  <2>2. (IF LineMax - L < n THEN LineMax - L ELSE n) \in Nat
    BY <2>1
  <2> QED
    BY <2>2
<1>7. /\ m <= n /\ e + n <= Len(stream) /\ e + m <= Len(stream) /\ L + m <= LineMax
      /\ L + m < LineMax => m = n
  BY <1>3, <1>5, <1>6
<1>8. stream \in Seq(Byte)
  BY <1>1, Numbers
<1>9. substr(SubSeq(stream, e + 1, e + n), LineMax - L) = SubSeq(stream, e + 1, e + m)
  <2>1. PICK t : t = SubSeq(stream, e + 1, e + n)
    OBVIOUS
  <2>2. Len(t) = n
    <3>1. e \in Nat /\ n \in Nat /\ e + n <= Len(stream)
      BY <1>3, <1>7
    <3>2. Len(SubSeq(stream, e + 1, e + n)) = n
      BY <1>8, <3>1, PieceIs
    <3> QED
      BY <2>1, <3>2
  <2>3. substr(t, LineMax - L) = SubSeq(t, 1, m)
    BY <1>6, <2>2 DEF substr
  <2>4. SubSeq(SubSeq(stream, e + 1, e + n), 1, m) = SubSeq(stream, e + 1, e + m)
    BY <1>3, <1>7, <1>8, SliceOfSlice
  <2> QED
    BY <2>1, <2>3, <2>4
<1>10. line' = SubSeq(stream, r + 1, r + L + m)
  <2>1. line' = line \o SubSeq(stream, e + 1, e + m)
    BY <1>2, <1>3, <1>9 DEF Lengthened
  <2>2. SubSeq(stream, r + 1, r + L) \o SubSeq(stream, r + L + 1, r + L + m)
          = SubSeq(stream, r + 1, r + L + m)
    <3>1. r + L + m <= Len(stream)
      BY <1>4, <1>7
    <3> QED
      BY <1>8, <3>1, SliceJoin
  <2> QED
    BY <1>4, <2>1, <2>2
<1>11. PICK k \in Nat : k = L + m /\ r + k = r + L + m
  OBVIOUS
<1>12. line' = SubSeq(stream, r + 1, r + k) /\ line' \in Seq(Byte) /\ Len(line') = k
  <2>1. r + k <= Len(stream)
    BY <1>4, <1>7, <1>11
  <2>2. /\ SubSeq(stream, r + 1, r + k) \in Seq(Byte)
        /\ Len(SubSeq(stream, r + 1, r + k)) = k
    BY <1>8, <2>1, PieceIs
  <2> QED
    BY <1>10, <1>11, <2>2
<1>13. TypeOK'
  <2>1. loaded' \in 0 .. Len(stream) /\ relayed \in 0 .. loaded' /\ checked \in 0 .. loaded'
    BY <1>1, <1>2, <1>3, Numbers
  <2> QED
    BY <1>1, <1>2, <1>12, <2>1 DEF TypeOK
<1>14. LineNext'
  <2>1. k <= (e + n) - r /\ (k < LineMax => k = (e + n) - r)
    BY <1>3, <1>4, <1>5, <1>7, <1>11
  <2>2. /\ line' = SubSeq(stream', relayed' + 1, relayed' + Len(line'))
        /\ Len(line') <= loaded' - relayed'
        /\ Len(line') < LineMax => Len(line') = loaded' - relayed'
    BY <1>2, <1>3, <1>12, <2>1
  <2> QED
    BY <2>2 DEF LineNext
<1>15. Waiting' /\ Searching' /\ LastLine' /\ Following'
  BY <1>1, <1>2 DEF Waiting, Searching, LastLine, Following
<1> QED
  BY <1>13, <1>14, <1>15 DEF IInv

\* What Moved does, of all that was buffered or of bytes that have come: the
\* end of the chunk stays where it is.
LEMMA MovedKeeps ==
  ASSUME IInv, pc = "data", NEW n \in Nat, n <= left, Moved(n),
         UNCHANGED <<source, kmp, checked>>, closed' \in BOOLEAN,
         loaded' \in Nat, loaded <= loaded', relayed + n <= loaded',
         loaded' <= Len(stream)
  PROVE  IInv'
<1> USE DEF source
<1>1. TypeOK /\ Searching /\ Following
  BY DEF IInv
<1>2. /\ body' = body /\ stream' = stream /\ kmp' = kmp /\ checked' = checked
      /\ relayed' = relayed + n /\ left' = left - n
      /\ \/ /\ n = left /\ pc' = "size"
            /\ line' = SubSeq(stream, relayed + n + 1, loaded')
         \/ n # left /\ pc' = "data" /\ line' = line
  BY DEF Moved
<1>3. PICK r \in Nat, e \in Nat, o \in Nat, k \in Nat :
        r = relayed + n /\ e = loaded' /\ o = Len(stream) /\ k = left - n
  <2>1. relayed \in Nat /\ left \in Nat /\ Len(stream) \in Nat
    BY <1>1, Numbers
  <2>2. relayed + n \in Nat /\ left - n \in Nat /\ loaded' \in Nat
    BY <2>1
  <2> QED
    BY <2>1, <2>2
<1>4. /\ SubSeq(stream, r + 1, e) \in Seq(Byte)
      /\ Len(SubSeq(stream, r + 1, e)) = e - r
  BY <1>1, <1>3, Numbers, SliceIs
<1>5. line' \in Seq(Byte)
  BY <1>1, <1>2, <1>3, <1>4 DEF TypeOK
<1>6. pc' \in {"size", "data"}
  BY <1>2
<1>7. TypeOK'
  <2>1. /\ loaded' \in 0 .. Len(stream) /\ relayed' \in 0 .. loaded'
        /\ checked \in 0 .. loaded' /\ left' \in Nat
    BY <1>1, <1>2, <1>3, Numbers
  <2>2. pc' \in {"size", "data", "until", "loop", "done", "thrown"}
    BY <1>6
  <2> QED
    BY <1>1, <1>2, <1>5, <2>1, <2>2 DEF TypeOK
<1>8. LineNext'
  <2>1. SUFFICES ASSUME pc' = "size"
        PROVE  /\ line' = SubSeq(stream', relayed' + 1, relayed' + Len(line'))
               /\ Len(line') = loaded' - relayed'
    <3>1. loaded' - relayed' <= loaded' - relayed'
      BY <1>2, <1>3
    <3> QED
      BY <2>1, <3>1 DEF LineNext
  <2>2. line' = SubSeq(stream, r + 1, e)
    BY <1>2, <1>3, <2>1
  <2>3. Len(line') = e - r /\ r + Len(line') = e
    BY <1>3, <1>4, <2>2
  <2> QED
    BY <1>2, <1>3, <2>2, <2>3
<1>9. Waiting'
  <2>1. n # left => k > 0
    BY <1>1, <1>3, Numbers
  <2> QED
    BY <1>2, <1>3, <2>1 DEF Waiting
<1>10. Searching' /\ LastLine'
  BY <1>1, <1>2, <1>6 DEF Searching, LastLine
<1>11. Following'
  <2> SUFFICES ASSUME Ordinary(body)
               PROVE  /\ pc' = "size" => relayed' \in Starts(body)
                      /\ pc' = "data" => relayed' + left' \in Starts(body)
    BY <1>2, <1>6 DEF Following
  <2>1. relayed + left \in Starts(body)
    BY <1>1 DEF Following
  <2>2. relayed' + left' = relayed + left
    BY <1>1, <1>2, Numbers
  <2> QED
    BY <1>2, <2>1, <2>2
<1> QED
  BY <1>7, <1>8, <1>9, <1>10, <1>11 DEF IInv

LEMMA MoveBufferedKeeps == IInv /\ MoveBuffered => IInv'
<1> SUFFICES ASSUME IInv, MoveBuffered PROVE IInv'
  OBVIOUS
<1>1. TypeOK /\ pc = "data" /\ loaded' = loaded /\ closed' = closed
  BY DEF IInv, MoveBuffered
<1>2. /\ loaded \in Nat /\ relayed \in Nat /\ left \in Nat /\ relayed <= loaded
      /\ loaded <= Len(stream) /\ stream \in Seq(Byte) /\ closed \in BOOLEAN
  BY <1>1, Numbers DEF TypeOK
<1>3. Len(Buffer) = loaded - relayed
  BY <1>2, SliceIs DEF Buffer
<1>4. PICK n : n = IF Len(Buffer) > left THEN left ELSE Len(Buffer)
  OBVIOUS
<1>5. n \in Nat /\ n <= left /\ relayed + n <= loaded
  BY <1>2, <1>3, <1>4
<1>6. Moved(n) /\ UNCHANGED <<source, kmp, checked>>
  BY <1>4 DEF MoveBuffered
<1> QED
  BY <1>1, <1>2, <1>5, <1>6, MovedKeeps

LEMMA LoadDataKeeps ==
  ASSUME IInv, NEW n \in 0 .. MaxPiece, LoadData(n)
  PROVE  IInv'
<1>1. TypeOK /\ pc = "data" /\ Buffer = <<>>
  BY DEF IInv, LoadData
<1>2. /\ loaded \in Nat /\ relayed \in Nat /\ left \in Nat /\ relayed <= loaded
      /\ loaded <= Len(stream) /\ stream \in Seq(Byte) /\ n \in Nat
  BY <1>1, Numbers, RelayAssumption
<1>3. relayed = loaded
  <2>1. Len(Buffer) = loaded - relayed
    BY <1>2, SliceIs DEF Buffer
  <2> QED
    BY <1>1, <1>2, <2>1
<1>4. /\ n <= IF left < MaxPiece THEN left ELSE MaxPiece
      /\ loaded' = loaded + n /\ loaded + n <= Len(stream) /\ closed' \in BOOLEAN
      /\ Moved(n) /\ UNCHANGED <<source, kmp, checked>>
  BY DEF LoadData, Piece
<1>5. n <= left
  BY <1>2, <1>4, RelayAssumption
<1> QED
  BY <1>1, <1>2, <1>3, <1>4, <1>5, MovedKeeps

\* The end of a body of the usual form.
LEMMA OrdinaryTail ==
  ASSUME NEW b \in Bodies, Ordinary(b)
  PROVE  \E r \in Nat : r = Len(Bytes(b)) - Len(b.end) /\ EndAt(Bytes(b), r)
<1>1. PICK r : r = Len(Fronts(b)[Len(b.chunks)])
  OBVIOUS
<1>2. /\ r \in Nat /\ r + Len(b.end) = Len(Bytes(b))
      /\ \A q \in 1 .. Len(b.end) : Bytes(b)[r + q] = b.end[q]
  BY <1>1, EndIs
<1>3. PICK u : u = b.end
  OBVIOUS
<1>4. Len(u) = 5
  BY <1>3, OrdinaryEnd
<1>5. r + 5 = Len(Bytes(b)) /\ \A q \in 1 .. 5 : Bytes(b)[r + q] = u[q]
  BY <1>2, <1>3, <1>4
<1>6. /\ Bytes(b)[r + 1] = u[1] /\ Bytes(b)[r + 2] = u[2] /\ Bytes(b)[r + 3] = u[3]
      /\ Bytes(b)[r + 4] = u[4] /\ Bytes(b)[r + 5] = u[5]
  BY <1>5
<1>7. EndAt(Bytes(b), r)
  BY <1>3, <1>5, <1>6, OrdinaryEnd DEF EndAt
<1>8. r = Len(Bytes(b)) - Len(b.end)
  BY <1>2, <1>3, <1>4, <1>5
<1> QED
  BY <1>2, <1>7, <1>8

\* How far the search is in it: 2 bytes of the pattern behind the first 3, 3
\* behind the first 4, and all behind the fifth.
LEMMA TailPartial ==
  ASSUME NEW s \in Seq(Byte), NEW b \in Nat, EndAt(s, b), NEW j \in 0 .. M
  PROVE  /\ Partial(j, s, b, b + 3) => j = 2
         /\ Partial(j, s, b, b + 4) => j = 3
         /\ Partial(j, s, b, b + 5) => j = M
<1>1. /\ s[b + 1] = "0" /\ s[b + 2] = "CR" /\ s[b + 3] = "LF"
      /\ s[b + 4] = "CR" /\ s[b + 5] = "LF"
  BY DEF EndAt
<1>2. EndsIn(2, s, b, b + 3) /\ ~EndsIn(3, s, b, b + 3) /\ ~EndsIn(4, s, b, b + 3)
  <2>1. b + 3 - 2 + 1 = b + 2 /\ b + 3 - 2 + 2 = b + 3 /\ b + 3 - 3 + 1 = b + 1
    OBVIOUS
  <2>2. EndsIn(2, s, b, b + 3)
    BY <1>1, <2>1, PatternIs DEF EndsIn
  <2>3. ~EndsIn(3, s, b, b + 3)
    BY <1>1, <2>1, PatternIs DEF EndsIn
  <2>4. ~EndsIn(4, s, b, b + 3)
    BY DEF EndsIn
  <2> QED
    BY <2>2, <2>3, <2>4
<1>3. EndsIn(3, s, b, b + 4) /\ ~EndsIn(4, s, b, b + 4)
  <2>1. /\ b + 4 - 3 + 1 = b + 2 /\ b + 4 - 3 + 2 = b + 3 /\ b + 4 - 3 + 3 = b + 4
        /\ b + 4 - 4 + 1 = b + 1
    OBVIOUS
  <2>2. EndsIn(3, s, b, b + 4)
    BY <1>1, <2>1, PatternIs DEF EndsIn
  <2>3. ~EndsIn(4, s, b, b + 4)
    BY <1>1, <2>1, PatternIs DEF EndsIn
  <2> QED
    BY <2>2, <2>3
<1>4. EndsIn(4, s, b, b + 5)
  <2>1. /\ b + 5 - 4 + 1 = b + 2 /\ b + 5 - 4 + 2 = b + 3 /\ b + 5 - 4 + 3 = b + 4
        /\ b + 5 - 4 + 4 = b + 5
    OBVIOUS
  <2> QED
    BY <1>1, <2>1, PatternIs DEF EndsIn
<1>5. /\ Partial(j, s, b, b + 3) => EndsIn(j, s, b, b + 3) /\ 2 <= j
      /\ Partial(j, s, b, b + 4) => EndsIn(j, s, b, b + 4) /\ 3 <= j
      /\ Partial(j, s, b, b + 5) => 4 <= j
  BY <1>2, <1>3, <1>4, PatternIs DEF Partial
<1>6. j \in {0, 1, 2, 3, 4}
  BY PatternIs
<1> QED
  BY <1>2, <1>3, <1>5, <1>6, PatternIs

\* All of the pattern is found no earlier.
LEMMA TailWhole ==
  ASSUME NEW s \in Seq(Byte), NEW b \in Nat, EndAt(s, b), NEW m \in 0 .. 5,
         Partial(M, s, b, b + m)
  PROVE  m = 5
<1>1. ~(m \in 0 .. 3)
  BY PatternIs DEF Partial, EndsIn
<1>2. m # 4
  BY TailPartial, PatternIs
<1> QED
  BY <1>1, <1>2

LEMMA UntilKeeps == IInv /\ Until => IInv'
<1> SUFFICES ASSUME IInv, Until PROVE IInv'
  OBVIOUS
<1> USE DEF source
<1>1. TypeOK /\ Searching /\ LastLine /\ Following /\ pc = "until"
  BY DEF IInv, Until
<1>2. PICK b \in Nat, n \in Nat, L \in Nat :
        b = relayed /\ b + n = loaded /\ n = loaded - b /\ L = Len(stream) /\ b + n <= L
  <2>1. relayed \in Nat /\ loaded - relayed \in Nat
    BY <1>1, Numbers
  <2>2. relayed + (loaded - relayed) = loaded
    BY <1>1, Numbers
  <2> QED
    BY <1>1, <2>1, <2>2, Numbers
<1>3. stream \in Seq(Byte)
  BY <1>1, Numbers
<1>4. kmp = [j |-> 0, at |-> -1, len |-> 0, i |-> 0] /\ checked = 0
  BY <1>1 DEF Searching
<1>5. kmp \in Kmp /\ kmp.j = 0 /\ kmp.j < M /\ kmp.at = -1 /\ kmp.len = 0
  BY <1>4, PatternIs DEF Kmp
<1>6. Partial(kmp.j, stream, b, b)
  BY <1>5, PatternIs DEF Partial, EndsIn
<1>7. PICK k : k = search(kmp, SubSeq(stream, b + 1, b + n))
  OBVIOUS
<1>8. /\ k \in Kmp /\ k.i <= n /\ k.len = 0
      /\ k.j # M => k.i = n
      /\ Partial(k.j, stream, b, b + k.i)
      /\ k.at = -1 \/ k.at \in 0 .. n - 1
      /\ k.j # 0 /\ k.j <= k.i => k.at = k.i - k.j
  BY <1>2, <1>3, <1>5, <1>6, <1>7, SearchIs
<1>9. Buffer = SubSeq(stream, b + 1, b + n) /\ Len(Buffer) = n
  BY <1>2, <1>3, PieceIs DEF Buffer
<1>10. /\ kmp' = Counted(k, n) /\ checked' = n /\ relayed' = loaded
       /\ pc' = IF n - Found(k) < M THEN "loop" ELSE "done"
       /\ body' = body /\ stream' = stream /\ loaded' = loaded /\ closed' = closed
       /\ line' = line /\ left' = left
  BY <1>7, <1>9 DEF Until
<1>11. /\ k.j \in 0 .. 4 /\ k.at \in Int /\ k.i \in Nat /\ k.len = 0
       /\ k.j = M <=> k.j = 4
  BY <1>8, PatternIs DEF Kmp
<1>12. /\ k.j = M => ~(n - Found(k) < M)
       /\ k.j # M => Found(k) = k.at
  BY <1>8, <1>11, PatternIs DEF Found
<1>13. pc' = "loop" => k.j # M /\ k.i = n
  BY <1>8, <1>10, <1>12, PatternIs
<1>14. /\ kmp'.j = k.j /\ kmp'.at = k.at /\ kmp'.i = k.i
       /\ kmp'.len = IF k.j = M THEN 0 ELSE n
       /\ kmp' \in Kmp
  <2>1. CASE k.j = M
    BY <1>8, <1>10, <2>1 DEF Counted
  <2>2. CASE k.j # M
    <3>1. kmp' = [k EXCEPT !.len = 0 + n]
      BY <1>8, <1>10, <2>2 DEF Counted
    <3> QED
      BY <1>8, <2>2, <3>1 DEF Kmp
  <2> QED
    BY <2>1, <2>2
<1>15. TypeOK'
  <2>1. kmp' \in [j : 0 .. M, at : -1 .. L, len : 0 .. L, i : 0 .. L]
    <3>1. kmp' = [j |-> kmp'.j, at |-> kmp'.at, len |-> kmp'.len, i |-> kmp'.i]
      BY <1>14 DEF Kmp
    <3>2. kmp'.j \in 0 .. M
      BY <1>11, <1>14, PatternIs
    <3>3. kmp'.at \in -1 .. L
      BY <1>2, <1>8, <1>11, <1>14
    <3>4. kmp'.len \in 0 .. L /\ kmp'.i \in 0 .. L
      BY <1>2, <1>8, <1>11, <1>14
    <3> QED
      BY <3>1, <3>2, <3>3, <3>4
  <2>2. loaded \in 0 .. L /\ relayed' \in 0 .. loaded /\ checked' \in 0 .. loaded
    BY <1>2, <1>10
  <2>3. pc' \in {"size", "data", "until", "loop", "done", "thrown"}
    BY <1>10
  <2> QED
    BY <1>1, <1>2, <1>10, <2>1, <2>2, <2>3 DEF TypeOK
<1>16. from = b /\ from' = b
  BY <1>2, <1>4, <1>10 DEF from
<1>17. pc' \in {"loop", "done"}
  BY <1>10
<1>18. LineNext' /\ Waiting'
  BY <1>17 DEF LineNext, Waiting
<1>19. Searching'
  <2> SUFFICES ASSUME pc' = "loop"
               PROVE  /\ relayed' = loaded' /\ kmp'.j < M /\ kmp'.len = checked'
                      /\ Partial(kmp'.j, stream', from', relayed')
    BY <1>17 DEF Searching
  <2>1. kmp'.j < M /\ kmp'.len = checked'
    BY <1>10, <1>11, <1>13, <1>14, PatternIs
  <2>2. Partial(k.j, stream, b, b + n)
    BY <1>8, <1>13
  <2> QED
    BY <1>2, <1>10, <1>14, <1>16, <2>1, <2>2
<1>20. LastLine'
  BY <1>1, <1>10, <1>16, <1>17 DEF LastLine
<1>21. Following'
  <2> SUFFICES ASSUME Ordinary(body) PROVE Following'
    BY <1>10 DEF Following
  <2>1. body \in Bodies /\ stream = Bytes(body)
    BY <1>1 DEF TypeOK
  <2>2. b = L - Len(body.end) /\ n >= 3
    BY <1>1, <1>2, <1>16 DEF Following, LastLine
  <2>3. EndAt(stream, b)
    BY <1>2, <2>1, <2>2, OrdinaryTail
  <2>4. b + 5 = L /\ n \in {3, 4, 5}
    BY <1>2, <2>2, <2>3 DEF EndAt
  <2>5. n = 3 => k.j = 2 /\ k.at = 1
    <3> SUFFICES ASSUME n = 3 PROVE k.j = 2 /\ k.at = 1
      OBVIOUS
    <3>1. k.j # M
      <4> SUFFICES ASSUME k.j = M PROVE FALSE
        OBVIOUS
      <4>1. k.i \in 0 .. 5 /\ k.i # 5
        BY <1>8, <1>11
      <4> QED
        BY <1>3, <1>8, <2>3, <4>1, TailWhole
    <3>2. k.i = 3 /\ Partial(k.j, stream, b, b + 3)
      BY <1>8, <3>1
    <3>3. k.j = 2
      BY <1>3, <1>11, <2>3, <3>2, TailPartial, PatternIs
    <3> QED
      BY <1>8, <3>2, <3>3
  <2>6. n = 4 => k.j = 3 /\ k.at = 1
    <3> SUFFICES ASSUME n = 4 PROVE k.j = 3 /\ k.at = 1
      OBVIOUS
    <3>1. k.j # M
      <4> SUFFICES ASSUME k.j = M PROVE FALSE
        OBVIOUS
      <4>1. k.i \in 0 .. 5 /\ k.i # 5
        BY <1>8, <1>11
      <4> QED
        BY <1>3, <1>8, <2>3, <4>1, TailWhole
    <3>2. k.i = 4 /\ Partial(k.j, stream, b, b + 4)
      BY <1>8, <3>1
    <3>3. k.j = 3
      BY <1>3, <1>11, <2>3, <3>2, TailPartial, PatternIs
    <3> QED
      BY <1>8, <3>2, <3>3
  <2>7. n = 5 => k.j = M
    <3> SUFFICES ASSUME n = 5, k.j # M PROVE FALSE
      OBVIOUS
    <3>1. Partial(k.j, stream, b, b + 5)
      BY <1>8
    <3> QED
      BY <1>3, <1>11, <2>3, <3>1, TailPartial, PatternIs
  <2>8. n \in 3 .. 4 => /\ pc' = "loop" /\ kmp'.at = 1 /\ checked' = kmp'.j + 1
                        /\ checked' \in 3 .. 4
    BY <1>10, <1>12, <1>14, <2>5, <2>6, PatternIs
  <2>9. n = 5 => pc' = "done" /\ relayed' = L
    <3> SUFFICES ASSUME n = 5 PROVE pc' = "done" /\ relayed' = L
      OBVIOUS
    <3>1. pc' # "loop"
      BY <1>13, <2>7
    <3> QED
      BY <1>2, <1>10, <1>17, <2>4, <3>1
  <2>10. from' = Len(stream') - Len(body'.end)
    BY <1>2, <1>10, <1>16, <2>2
  <2>11. /\ pc' = "loop" => kmp'.at = 1 /\ checked' = kmp'.j + 1 /\ checked' \in 3 .. 4
         /\ pc' = "done" => relayed' = Len(stream')
    BY <1>2, <1>10, <2>4, <2>8, <2>9
  <2> QED
    BY <1>17, <2>10, <2>11 DEF Following
<1> QED
  BY <1>15, <1>18, <1>19, <1>20, <1>21 DEF IInv

LEMMA LoadRestKeeps ==
  ASSUME IInv, NEW n \in 0 .. MaxPiece, LoadRest(n)
  PROVE  IInv'
<1> USE DEF source
<1>1. TypeOK /\ Searching /\ LastLine /\ Following /\ pc = "loop"
  BY DEF IInv, LoadRest
<1>2. /\ relayed = loaded /\ kmp.j < M /\ kmp.len = checked
      /\ Partial(kmp.j, stream, from, relayed)
  BY <1>1 DEF Searching
<1>3. PICK b \in Nat, e \in Nat, c \in Nat, L \in Nat :
        /\ b = from /\ e = relayed /\ e = loaded /\ c = checked /\ b + c = e
        /\ b = e - c /\ L = Len(stream)
  <2>1. /\ relayed \in Nat /\ checked \in Nat /\ checked <= relayed
        /\ Len(stream) \in Nat
    BY <1>1, <1>2, Numbers
  <2>2. relayed - checked \in Nat /\ relayed - checked + checked = relayed
    BY <2>1
  <2> QED
    BY <1>2, <2>1, <2>2 DEF from
<1>4. n \in Nat /\ e + n <= L /\ stream \in Seq(Byte) /\ b <= e
  BY <1>1, <1>3, Numbers, RelayAssumption DEF LoadRest, Piece
<1>5. kmp \in Kmp /\ kmp.at \in -1 .. L /\ kmp.len = c
  BY <1>1, <1>2, <1>3 DEF TypeOK, Kmp
<1>6. PICK k : k = search(kmp, SubSeq(stream, e + 1, e + n))
  OBVIOUS
<1>7. /\ k \in Kmp /\ k.i <= n /\ k.len = c
      /\ k.j # M => k.i = n
      /\ Partial(k.j, stream, b, e + k.i)
      /\ k.at = kmp.at \/ k.at \in 0 .. n - 1
      /\ k.j > k.i => k.at = kmp.at
  BY <1>2, <1>3, <1>4, <1>5, <1>6, SearchIs
<1>8. /\ k.j \in 0 .. 4 /\ k.at \in Int /\ k.i \in Nat
      /\ k.j = M <=> k.j = 4
  BY <1>7, PatternIs DEF Kmp
<1>9. PICK at \in Int : at = Found(k) - c /\ at = IF k.j = M THEN k.i - 4 ELSE k.at
  <2>1. PICK i \in Int, a \in Int : i = k.i /\ a = k.at
    BY <1>8
  <2>2. CASE k.j = M
    <3>1. Found(k) = i - 4 + c
      BY <1>3, <1>7, <2>1, <2>2, PatternIs DEF Found
    <3>2. i - 4 + c - c = i - 4 /\ i - 4 \in Int
      BY <1>3
    <3> QED
      BY <2>1, <2>2, <3>1, <3>2
  <2>3. CASE k.j # M
    <3>1. Found(k) = a + c
      BY <1>3, <1>7, <2>1, <2>3 DEF Found
    <3>2. a + c - c = a
      BY <1>3
    <3> QED
      BY <2>1, <2>3, <3>1, <3>2
  <2> QED
    BY <2>2, <2>3
<1>10. at = IF k.j = M THEN k.i - 4 ELSE k.at
  BY <1>9
<1>11. /\ kmp' = Counted(k, n) /\ checked' = c + n
       /\ closed' = (n = 0) /\ loaded' = e + n
       /\ \/ GoesOn(n, at) /\ relayed' = e + n /\ pc' = "loop"
          \/ ~GoesOn(n, at) /\ relayed' = e + Cut(n, at) /\ pc' = "done"
       /\ body' = body /\ stream' = stream /\ line' = line /\ left' = left
  BY <1>3, <1>6, <1>9 DEF LoadRest, Piece
<1>12. GoesOn(n, at) <=> n - at >= 0 /\ n - at < 4
  BY PatternIs DEF GoesOn
<1>13. pc' = "loop" => k.j # M /\ k.i = n
  BY <1>7, <1>8, <1>10, <1>11, <1>12
<1>14. Cut(n, at) = IF at + 4 < n THEN at + 4 ELSE n
  BY PatternIs DEF Cut
<1>15. at >= -4
  BY <1>3, <1>5, <1>7, <1>8, <1>10
<1>16. Cut(n, at) \in 0 .. n
  BY <1>4, <1>14, <1>15
<1>17. /\ kmp'.j = k.j /\ kmp'.at = k.at /\ kmp'.i = k.i
       /\ kmp'.len = IF k.j = M THEN c ELSE c + n
       /\ kmp' \in Kmp
  <2>1. CASE k.j = M
    BY <1>7, <1>11, <2>1 DEF Counted
  <2>2. CASE k.j # M
    <3>1. kmp' = [k EXCEPT !.len = c + n] /\ c + n \in Nat
      BY <1>3, <1>4, <1>7, <1>11, <2>2 DEF Counted
    <3> QED
      BY <1>7, <2>2, <3>1 DEF Kmp
  <2> QED
    BY <2>1, <2>2
<1>18. TypeOK'
  <2>1. kmp' \in [j : 0 .. M, at : -1 .. L, len : 0 .. L, i : 0 .. L]
    <3>1. kmp' = [j |-> kmp'.j, at |-> kmp'.at, len |-> kmp'.len, i |-> kmp'.i]
      BY <1>17 DEF Kmp
    <3>2. kmp'.j \in 0 .. M
      BY <1>8, <1>17, PatternIs
    <3>3. kmp'.at \in -1 .. L
      BY <1>3, <1>4, <1>5, <1>7, <1>8, <1>17
    <3>4. kmp'.len \in 0 .. L /\ kmp'.i \in 0 .. L
      BY <1>3, <1>4, <1>7, <1>8, <1>17
    <3> QED
      BY <3>1, <3>2, <3>3, <3>4
  <2>2. loaded' \in 0 .. L /\ checked' \in 0 .. loaded'
    BY <1>3, <1>4, <1>11
  <2>3. relayed' \in 0 .. loaded'
    BY <1>3, <1>4, <1>11, <1>16
  <2>4. pc' \in {"size", "data", "until", "loop", "done", "thrown"} /\ closed' \in BOOLEAN
    BY <1>11
  <2> QED
    BY <1>1, <1>3, <1>11, <2>1, <2>2, <2>3, <2>4 DEF TypeOK
<1>19. pc' \in {"loop", "done"} /\ (pc' = "loop" => relayed' = e + n)
  BY <1>11
<1>20. pc' = "loop" => from' = b
  <2>1. e + n - (c + n) = b
    BY <1>3, <1>4
  <2> QED
    BY <1>11, <1>19, <2>1 DEF from
<1>21. LineNext' /\ Waiting'
  BY <1>19 DEF LineNext, Waiting
<1>22. Searching'
  <2> SUFFICES ASSUME pc' = "loop"
               PROVE  /\ relayed' = loaded' /\ kmp'.j < M /\ kmp'.len = checked'
                      /\ Partial(kmp'.j, stream', from', relayed')
    BY <1>19 DEF Searching
  <2>1. kmp'.j < M /\ kmp'.len = checked'
    BY <1>8, <1>11, <1>13, <1>17, PatternIs
  <2>2. Partial(k.j, stream, b, e + n)
    BY <1>7, <1>13
  <2> QED
    BY <1>11, <1>17, <1>19, <1>20, <2>1, <2>2
<1>23. c >= 3 /\ (c = 3 => stream[b + 1] \in Digits)
  BY <1>1, <1>3 DEF LastLine
<1>24. LastLine'
  <2> SUFFICES ASSUME pc' = "loop"
               PROVE  /\ loaded' - from' >= 3
                      /\ loaded' - from' = 3 => stream'[from' + 1] \in Digits
    BY <1>19 DEF LastLine
  <2>1. loaded' - from' = c + n
    BY <1>3, <1>4, <1>11, <1>20
  <2>2. c + n >= 3 /\ (c + n = 3 => c = 3)
    BY <1>3, <1>4, <1>23
  <2> QED
    BY <1>11, <1>20, <1>23, <2>1, <2>2
<1>25. Following'
  <2> SUFFICES ASSUME Ordinary(body) PROVE Following'
    BY <1>11 DEF Following
  <2>1. body \in Bodies /\ stream = Bytes(body)
    BY <1>1 DEF TypeOK
  <2>2. /\ b = L - Len(body.end) /\ kmp.at = 1 /\ c = kmp.j + 1 /\ c \in 3 .. 4
    BY <1>1, <1>3 DEF Following
  <2>3. EndAt(stream, b)
    BY <1>3, <2>1, <2>2, OrdinaryTail
  <2>4. b + 5 = L
    BY <1>3, <2>3 DEF EndAt
  <2>5. c + n <= 5
    BY <1>3, <1>4, <2>4
  <2>6. k.j = M => c + k.i = 5 /\ k.i = n
    <3> SUFFICES ASSUME k.j = M PROVE c + k.i = 5 /\ k.i = n
      OBVIOUS
    <3>1. PICK m \in 0 .. 5 : m = c + k.i /\ b + m = e + k.i
      <4>1. c + k.i <= c + n /\ c + k.i \in Nat
        BY <1>3, <1>4, <1>7, <1>8
      <4>2. c + k.i \in 0 .. 5
        BY <1>3, <1>4, <2>5, <4>1
      <4>3. b + (c + k.i) = e + k.i
        BY <1>3, <1>8
      <4> QED
        BY <4>2, <4>3
    <3>2. Partial(M, stream, b, b + m)
      BY <1>7, <3>1
    <3>3. m = 5
      BY <1>4, <2>3, <3>2, TailWhole
    <3> QED
      BY <1>3, <1>4, <1>7, <1>8, <2>5, <3>1, <3>3
  <2>7. c + n = 5 => k.j = M
    <3> SUFFICES ASSUME c + n = 5, k.j # M PROVE FALSE
      OBVIOUS
    <3>1. e + k.i = b + 5
      BY <1>3, <1>4, <1>7
    <3>2. Partial(k.j, stream, b, b + 5)
      BY <1>7, <3>1
    <3> QED
      BY <1>4, <1>8, <2>3, <3>2, TailPartial, PatternIs
  <2>8. n = 0 => pc' = "done" /\ closed'
    <3> SUFFICES ASSUME n = 0 PROVE pc' = "done" /\ closed'
      OBVIOUS
    <3>1. k.j # M
      BY <2>2, <2>6
    <3>2. k.at = 1
      BY <1>7, <2>2
    <3>3. ~GoesOn(n, at)
      BY <1>10, <1>12, <3>1, <3>2
    <3> QED
      BY <1>11, <3>3
  <2>9. n = 1 /\ c = 3 => pc' = "loop" /\ k.at = 1 /\ k.j = 3
    <3> SUFFICES ASSUME n = 1, c = 3 PROVE pc' = "loop" /\ k.at = 1 /\ k.j = 3
      OBVIOUS
    <3>1. k.j # M /\ k.i = 1
      BY <1>7, <2>6
    <3>2. e + k.i = b + 4
      BY <1>3, <3>1
    <3>3. k.j = 3
      BY <1>4, <1>7, <1>8, <2>3, <3>1, <3>2, TailPartial, PatternIs
    <3>4. k.at = 1
      BY <1>7, <2>2, <3>1, <3>3
    <3>5. GoesOn(n, at)
      BY <1>10, <1>12, <3>1, <3>4
    <3> QED
      BY <1>11, <3>3, <3>4, <3>5
  <2>10. c + n = 5 => pc' = "done" /\ relayed' = L
    <3> SUFFICES ASSUME c + n = 5 PROVE pc' = "done" /\ relayed' = L
      OBVIOUS
    <3>1. k.j = M /\ k.i = n
      BY <2>6, <2>7
    <3>2. pc' = "done"
      BY <1>13, <1>19, <3>1
    <3>3. at = n - 4 /\ Cut(n, at) = n
      BY <1>4, <1>10, <1>14, <3>1
    <3>4. e + n = L
      BY <1>3, <2>4
    <3> QED
      BY <1>11, <3>2, <3>3, <3>4
  <2>11. n = 0 \/ (n = 1 /\ c = 3) \/ c + n = 5
    BY <1>4, <2>2, <2>5
  <2>12. pc' = "loop" => /\ from' = Len(stream') - Len(body'.end)
                         /\ kmp'.at = 1 /\ checked' = kmp'.j + 1 /\ checked' \in 3 .. 4
    <3> SUFFICES ASSUME pc' = "loop"
                 PROVE  /\ from' = Len(stream') - Len(body'.end)
                        /\ kmp'.at = 1 /\ checked' = kmp'.j + 1 /\ checked' \in 3 .. 4
      OBVIOUS
    <3>1. n = 1 /\ c = 3
      BY <2>8, <2>10, <2>11
    <3>2. kmp'.at = 1 /\ kmp'.j = 3 /\ checked' = 4
      BY <1>11, <1>17, <2>9, <3>1
    <3>3. from' = Len(stream') - Len(body'.end)
      BY <1>3, <1>11, <1>20, <2>2
    <3> QED
      BY <3>2, <3>3
  <2>13. pc' = "done" /\ ~closed' => relayed' = Len(stream')
    BY <1>3, <1>11, <2>8, <2>9, <2>10, <2>11
  <2> QED
    BY <1>19, <2>12, <2>13 DEF Following
<1> QED
  BY <1>18, <1>21, <1>22, <1>24, <1>25 DEF IInv

LEMMA StutterKeeps == IInv /\ UNCHANGED vars => IInv'
<1> SUFFICES ASSUME IInv, UNCHANGED vars PROVE IInv'
  OBVIOUS
<1>1. /\ body' = body /\ stream' = stream /\ loaded' = loaded /\ relayed' = relayed
      /\ closed' = closed /\ pc' = pc /\ line' = line /\ left' = left /\ kmp' = kmp
      /\ checked' = checked
  BY DEF vars, source
<1>2. TypeOK'
  BY <1>1 DEF IInv, TypeOK
<1>3. LineNext' /\ Waiting' /\ Searching' /\ LastLine' /\ Following'
  BY <1>1 DEF IInv, LineNext, Waiting, Searching, LastLine, Following, from
<1> QED
  BY <1>2, <1>3 DEF IInv

LEMMA Kept == IInv /\ [Next]_vars => IInv'
<1> SUFFICES ASSUME IInv, [Next]_vars PROVE IInv'
  OBVIOUS
<1>1. CASE ReadSize
  BY <1>1, ReadSizeKeeps
<1>2. CASE \E n \in 0 .. MaxPiece : LoadLine(n)
  BY <1>2, LoadLineKeeps
<1>3. CASE NoLine
  BY <1>3, NoLineKeeps
<1>4. CASE MoveBuffered
  BY <1>4, MoveBufferedKeeps
<1>5. CASE \E n \in 0 .. MaxPiece : LoadData(n)
  BY <1>5, LoadDataKeeps
<1>6. CASE Until
  BY <1>6, UntilKeeps
<1>7. CASE \E n \in 0 .. MaxPiece : LoadRest(n)
  BY <1>7, LoadRestKeeps
<1>8. CASE UNCHANGED vars
  BY <1>8, StutterKeeps
<1> QED
  BY <1>1, <1>2, <1>3, <1>4, <1>5, <1>6, <1>7, <1>8 DEF Next

LEMMA Invariant == Spec => []IInv
<1>1. Init => IInv
  BY Initially
<1>2. IInv /\ [Next]_vars => IInv'
  BY Kept
<1> QED
  BY <1>1, <1>2, PTL DEF Spec

-----------------------------------------------------------------------------
(* What the relay does                                                     *)

LEMMA ReverseIs ==
  ASSUME NEW s \in Seq(Byte), NEW n \in Nat, n = Len(s)
  PROVE  /\ Reverse(s) \in Seq(Byte) /\ Len(Reverse(s)) = n
         /\ \A i \in 1 .. n : Reverse(s)[i] = s[n - i + 1]
<1>1. PICK r : r = Reverse(s)
  OBVIOUS
<1>2. r = [i \in 1 .. n |-> s[n - i + 1]]
  BY <1>1 DEF Reverse
<1>3. \A i \in 1 .. n : s[n - i + 1] \in Byte
  <2>1. \A i \in 1 .. n : n - i + 1 \in 1 .. n
    OBVIOUS
  <2>2. \A i \in 1 .. n : s[i] \in Byte
    OBVIOUS
  <2> QED
    BY <2>1, <2>2
<1>4. r \in [1 .. n -> Byte]
  BY <1>2, <1>3
<1>5. r \in Seq(Byte) /\ Len(r) = n
  BY <1>4
<1> QED
  BY <1>1, <1>2, <1>5

\* One text ends another.
LEMMA SuffixOf ==
  ASSUME NEW s \in Seq(Byte), NEW t \in Seq(Byte)
  PROVE  IsSuffix(s, t) <=> /\ Len(s) <= Len(t)
                            /\ \A i \in 1 .. Len(s) : s[i] = t[Len(t) - Len(s) + i]
<1>0. PICK n \in Nat, m \in Nat : n = Len(s) /\ m = Len(t)
  OBVIOUS
<1>1. PICK u \in Seq(Byte) : /\ u = Reverse(s) /\ Len(u) = n
                             /\ \A i \in 1 .. n : u[i] = s[n - i + 1]
  <2>1. /\ Reverse(s) \in Seq(Byte) /\ Len(Reverse(s)) = n
        /\ \A i \in 1 .. n : Reverse(s)[i] = s[n - i + 1]
    BY <1>0, ReverseIs
  <2> QED
    BY <2>1
<1>2. PICK v \in Seq(Byte) : /\ v = Reverse(t) /\ Len(v) = m
                             /\ \A i \in 1 .. m : v[i] = t[m - i + 1]
  <2>1. /\ Reverse(t) \in Seq(Byte) /\ Len(Reverse(t)) = m
        /\ \A i \in 1 .. m : Reverse(t)[i] = t[m - i + 1]
    BY <1>0, ReverseIs
  <2> QED
    BY <2>1
<1>3. IsSuffix(s, t) <=> n <= m /\ SubSeq(u, 1, n) = SubSeq(v, 1, n)
  BY <1>0, <1>1, <1>2 DEF IsSuffix, IsPrefix
<1>4. ASSUME n <= m
      PROVE  SubSeq(u, 1, n) = SubSeq(v, 1, n) <=> \A i \in 1 .. n : u[i] = v[i]
  <2>1. /\ SubSeq(u, 1, n) \in Seq(Byte) /\ Len(SubSeq(u, 1, n)) = n
        /\ \A i \in 1 .. n : SubSeq(u, 1, n)[i] = u[i]
    BY <1>1, HeadIs
  <2>2. /\ SubSeq(v, 1, n) \in Seq(Byte) /\ Len(SubSeq(v, 1, n)) = n
        /\ \A i \in 1 .. n : SubSeq(v, 1, n)[i] = v[i]
    BY <1>2, <1>4, HeadIs
  <2>3. PICK x \in Seq(Byte), y \in Seq(Byte) :
          x = SubSeq(u, 1, n) /\ y = SubSeq(v, 1, n)
    BY <2>1, <2>2
  <2>4. /\ Len(x) = n /\ Len(y) = n
        /\ \A i \in 1 .. n : x[i] = u[i] /\ y[i] = v[i]
    BY <2>1, <2>2, <2>3
  <2>5. x = y <=> \A i \in 1 .. n : x[i] = y[i]
    BY <2>4, SameBytes
  <2> QED
    BY <2>3, <2>4, <2>5
<1>5. ASSUME n <= m
      PROVE  (\A i \in 1 .. n : u[i] = v[i])
               <=> (\A i \in 1 .. n : s[i] = t[m - n + i])
  <2>1. \A i \in 1 .. n : u[i] = s[n - i + 1] /\ v[i] = t[m - i + 1]
    <3>1. \A i \in 1 .. n : i \in 1 .. m
      BY <1>5
    <3> QED
      BY <1>1, <1>2, <3>1
  <2>2. \A i \in 1 .. n : /\ n - i + 1 \in 1 .. n
                          /\ n - (n - i + 1) + 1 = i
                          /\ m - (n - i + 1) + 1 = m - n + i
                          /\ m - n + (n - i + 1) = m - i + 1
    OBVIOUS
  <2>3. ASSUME \A i \in 1 .. n : u[i] = v[i], NEW i \in 1 .. n
        PROVE  s[i] = t[m - n + i]
    <3>1. PICK j \in 1 .. n : j = n - i + 1
      BY <2>2
    <3>2. s[n - j + 1] = t[m - j + 1]
      BY <2>1, <2>3
    <3>3. n - j + 1 = i /\ m - j + 1 = m - n + i
      BY <2>2, <3>1
    <3> QED
      BY <3>2, <3>3
  <2>4. ASSUME \A i \in 1 .. n : s[i] = t[m - n + i], NEW i \in 1 .. n
        PROVE  u[i] = v[i]
    <3>1. PICK j \in 1 .. n : j = n - i + 1
      BY <2>2
    <3>2. s[j] = t[m - n + j]
      BY <2>4
    <3>3. m - n + j = m - i + 1
      BY <2>2, <3>1
    <3> QED
      BY <2>1, <3>1, <3>2, <3>3
  <2> QED
    BY <2>3, <2>4
<1> QED
  BY <1>0, <1>3, <1>4, <1>5

\* Of a text that ends in s, being its bytes behind b up to e: the beginnings
\* of the pattern that are a suffix of it.
LEMMA SuffixIs ==
  ASSUME NEW s \in Seq(Byte), NEW b \in Nat, NEW e \in Nat, b <= e, e <= Len(s),
         NEW n \in 0 .. M
  PROVE  IsSuffix(SubSeq(Pattern, 1, n), SubSeq(s, b + 1, e)) <=> EndsIn(n, s, b, e)
<1>1. n \in Nat /\ n <= 4 /\ Len(Pattern) = 4 /\ Pattern \in Seq(Byte)
  BY PatternIs
<1>2. PICK t \in Seq(Byte) : /\ t = SubSeq(Pattern, 1, n) /\ Len(t) = n
                             /\ \A i \in 1 .. n : t[i] = Pattern[i]
  <2>1. /\ SubSeq(Pattern, 1, n) \in Seq(Byte) /\ Len(SubSeq(Pattern, 1, n)) = n
        /\ \A i \in 1 .. n : SubSeq(Pattern, 1, n)[i] = Pattern[i]
    BY <1>1, HeadIs
  <2> QED
    BY <2>1
<1>3. PICK m \in Nat : m = e - b /\ b + m = e
  OBVIOUS
<1>4. PICK u \in Seq(Byte) : /\ u = SubSeq(s, b + 1, e) /\ Len(u) = m
                             /\ \A i \in 1 .. m : u[i] = s[b + i]
  <2>1. /\ SubSeq(s, b + 1, e) \in Seq(Byte) /\ Len(SubSeq(s, b + 1, e)) = e - b
        /\ \A i \in 1 .. e - b : SubSeq(s, b + 1, e)[i] = s[b + i]
    BY SliceIs
  <2> QED
    BY <1>3, <2>1
<1>5. IsSuffix(t, u) <=> n <= m /\ \A i \in 1 .. n : t[i] = u[m - n + i]
  <2>1. IsSuffix(t, u) <=> /\ Len(t) <= Len(u)
                           /\ \A i \in 1 .. Len(t) : t[i] = u[Len(u) - Len(t) + i]
    BY SuffixOf
  <2> QED
    BY <1>2, <1>4, <2>1
<1>6. n <= m => \A i \in 1 .. n : m - n + i \in 1 .. m /\ b + (m - n + i) = e - n + i
  BY <1>1, <1>3
<1>7. n <= m => \A i \in 1 .. n : u[m - n + i] = s[e - n + i]
  BY <1>4, <1>6
<1> QED
  BY <1>2, <1>3, <1>4, <1>5, <1>7 DEF EndsIn

\* A body ends with an empty line.
LEMMA EmptyLine ==
  ASSUME NEW b \in Bodies, NEW L \in Nat, L = Len(Bytes(b))
  PROVE  L >= 4 /\ \A i \in 1 .. 4 : Bytes(b)[L - 4 + i] = Pattern[i]
<1>1. PICK s \in Seq(Byte), n \in Nat : s = b.end /\ n = Len(s)
  BY BodyType
<1>2. n >= 4 /\ \A i \in 1 .. 4 : Pattern[i] = s[n - 4 + i]
  <2>1. IsSuffix(Pattern, s)
    BY <1>1, RelayAssumption
  <2>2. IsSuffix(Pattern, s) <=> /\ Len(Pattern) <= Len(s)
                                 /\ \A i \in 1 .. Len(Pattern) :
                                      Pattern[i] = s[Len(s) - Len(Pattern) + i]
    BY PatternIs, SuffixOf
  <2> QED
    BY <1>1, <2>1, <2>2, PatternIs
<1>3. PICK r : r = Len(Fronts(b)[Len(b.chunks)])
  OBVIOUS
<1>4. /\ r \in Nat /\ r + Len(b.end) = Len(Bytes(b))
      /\ \A q \in 1 .. Len(b.end) : Bytes(b)[r + q] = b.end[q]
  BY <1>3, EndIs
<1>5. r \in Nat /\ r + n = L /\ \A q \in 1 .. n : Bytes(b)[r + q] = s[q]
  BY <1>1, <1>4
<1>6. \A i \in 1 .. 4 : n - 4 + i \in 1 .. n /\ r + (n - 4 + i) = L - 4 + i
  <2>1. r \in Nat /\ r + n = L /\ n >= 4
    BY <1>2, <1>5
  <2> QED
    BY <2>1
<1>7. \A i \in 1 .. 4 : Bytes(b)[L - 4 + i] = s[n - 4 + i]
  BY <1>5, <1>6
<1>8. L >= 4
  BY <1>2, <1>5
<1>9. \A i \in 1 .. 4 : Bytes(b)[L - 4 + i] = Pattern[i]
  BY <1>2, <1>7
<1> QED
  BY <1>8, <1>9

LEMMA ExactSearch == IInv => KmpExact
<1> SUFFICES ASSUME IInv, pc = "loop" PROVE KmpExact
  BY DEF KmpExact
<1>1. /\ TypeOK /\ relayed = loaded /\ kmp.j < M
      /\ Partial(kmp.j, stream, from, relayed)
  BY DEF IInv, Searching
<1>2. PICK b \in Nat, e \in Nat, j \in 0 .. M :
        b = from /\ e = relayed /\ j = kmp.j /\ b <= e /\ b = relayed - checked
  <2>1. relayed \in Nat /\ checked \in Nat /\ checked <= relayed
    BY <1>1, Numbers
  <2>2. relayed - checked \in Nat /\ relayed - checked <= relayed
    BY <2>1
  <2>3. kmp.j \in 0 .. M
    BY <1>1 DEF TypeOK
  <2> QED
    BY <2>1, <2>2, <2>3 DEF from
<1>3. stream \in Seq(Byte) /\ e <= Len(stream)
  BY <1>1, <1>2, Numbers
<1>4. PICK seen : seen = SubSeq(stream, b + 1, e)
  OBVIOUS
<1>5. \A n \in 0 .. M : IsSuffix(SubSeq(Pattern, 1, n), seen) <=> EndsIn(n, stream, b, e)
  BY <1>2, <1>3, <1>4, SuffixIs
<1>6. /\ EndsIn(j, stream, b, e)
      /\ \A n \in 0 .. M : EndsIn(n, stream, b, e) => n <= j
  BY <1>1, <1>2 DEF Partial
<1>7. IsSuffix(SubSeq(Pattern, 1, j), seen)
  BY <1>5, <1>6
<1>8. ASSUME NEW n \in (j + 1) .. M PROVE ~IsSuffix(SubSeq(Pattern, 1, n), seen)
  <2>1. n \in 0 .. M /\ ~(n <= j)
    BY PatternIs
  <2> QED
    BY <1>5, <1>6, <2>1
<1>9. seen = SubSeq(stream, relayed - checked + 1, relayed)
  BY <1>2, <1>4
<1> QED
  BY <1>2, <1>7, <1>8, <1>9 DEF KmpExact

LEMMA FramedThen == IInv => Framed
<1> SUFFICES ASSUME IInv PROVE Framed
  OBVIOUS
<1>1. TypeOK /\ Searching /\ LastLine /\ Following
  BY DEF IInv
<1>2. ASSUME Ordinary(body), pc = "until" PROVE relayed \in Starts(body)
  <2>1. body \in Bodies /\ stream = Bytes(body)
    BY <1>1 DEF TypeOK
  <2>2. relayed = Len(stream) - Len(body.end)
    <3>1. checked = 0 /\ from = Len(stream) - Len(body.end)
      BY <1>1, <1>2 DEF Searching, Following
    <3>2. from = relayed
      BY <1>1, <3>1, Numbers DEF from
    <3> QED
      BY <3>1, <3>2
  <2>3. PICK r : r = Len(Fronts(body)[Len(body.chunks)])
    OBVIOUS
  <2>4. r \in Nat /\ r + Len(body.end) = Len(stream)
    BY <2>1, <2>3, EndIs
  <2>5. Len(body.end) = 5
    BY <1>2, <2>1, OrdinaryEnd
  <2>6. r = relayed
    BY <2>2, <2>4, <2>5
  <2>7. Len(body.chunks) \in 0 .. Len(body.chunks)
    BY <2>1, BodyType
  <2> QED
    BY <2>3, <2>6, <2>7 DEF Starts
<1>3. ASSUME pc = "loop" PROVE relayed < Len(stream)
  <2>1. body \in Bodies /\ stream = Bytes(body) /\ stream \in Seq(Byte)
    BY <1>1, Numbers DEF TypeOK
  <2>2. /\ relayed = loaded /\ kmp.j < M /\ Partial(kmp.j, stream, from, relayed)
    BY <1>1, <1>3 DEF Searching
  <2>3. PICK e \in Nat, c \in Nat, L \in Nat, b \in Int :
          e = relayed /\ c = checked /\ L = Len(stream) /\ e <= L /\ b = from /\ b = e - c
    <3>1. relayed \in Nat /\ checked \in Nat /\ Len(stream) \in Nat /\ relayed <= Len(stream)
      BY <1>1, Numbers
    <3>2. relayed - checked \in Int
      BY <3>1
    <3> QED
      BY <3>1, <3>2 DEF from
  <2> SUFFICES ASSUME e = L PROVE FALSE
    BY <2>3
  <2>4. L >= 4 /\ \A i \in 1 .. 4 : stream[L - 4 + i] = Pattern[i]
    BY <2>1, <2>3, EmptyLine
  <2>5. e - b >= 3 /\ (e - b = 3 => stream[b + 1] \in Digits)
    BY <1>1, <1>3, <2>2, <2>3 DEF LastLine
  <2>6. CASE e - b = 3
    <3>1. stream[L - 4 + 2] = "LF" /\ L - 4 + 2 = b + 1
      BY <2>3, <2>4, <2>6, PatternIs
    <3> QED
      BY <2>5, <2>6, <3>1 DEF Digits
  <2>7. CASE e - b >= 4
    <3>1. EndsIn(4, stream, b, e)
      BY <2>4, <2>7 DEF EndsIn
    <3>2. 4 <= kmp.j
      BY <2>2, <2>3, <3>1, PatternIs DEF Partial
    <3>3. kmp.j \in 0 .. M
      BY <1>1 DEF TypeOK
    <3> QED
      BY <2>2, <3>2, <3>3, PatternIs
  <2> QED
    BY <2>3, <2>5, <2>6, <2>7
<1> QED
  BY <1>1, <1>2, <1>3 DEF Following, Framed

\* Whatever the origin sends and however it comes in pieces, the positions and
\* counters of transfer_chunk, transfer_mem and transfer_mem_until stay within
\* what was loaded: in particular the length to which the last piece is cut,
\* computed from a position that may be stale, never reaches behind the piece.
THEOREM TypeCorrect == Spec => []TypeOK
<1>1. IInv => TypeOK
  BY DEF IInv
<1> QED
  BY <1>1, Invariant, PTL

\* Between two calls of search (kmp.h) matchIndex is the longest beginning of
\* the pattern that ends the bytes seen so far, for any body and any division
\* into pieces: a pattern that is cut anywhere is neither missed nor made up.
THEOREM SearchIsExact == Spec => []KmpExact
<1> QED
  BY Invariant, ExactSearch, PTL

\* transfer_chunk follows the chunks of a body of the usual form, of any number
\* and sizes, to its last byte and no further, and of no body does
\* transfer_mem_until wait for more when all of it is there.
THEOREM RelayIsFramed == Spec => []Framed
<1> QED
  BY Invariant, FramedThen, PTL
=============================================================================
