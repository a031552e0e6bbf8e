------------------------ MODULE SocketMemoryProofs ------------------------
(***************************************************************************)
(* The buffer of socket_memory loses, repeats and reorders nothing as long *)
(* as the stream is shorter than what an int can index: for streams and    *)
(* loads of any length.  IInv adds to the checked invariants that the      *)
(* blocks are pairwise disjoint intervals that end after read_index.  From *)
(* it follows that the buffer implements ByteStream.                       *)
(***************************************************************************)
EXTENDS SocketMemory, FiniteSetTheorems, TLAPS

Shaped ==
  \A b \in buffs :
    /\ b \in [begin : Nat, data : SUBSET Nat]
    /\ End(b) \in Nat
    /\ b.begin < End(b)
    /\ End(b) <= write_index
    /\ b.data = (base + b.begin) .. (base + End(b) - 1)

Live == \A b \in buffs : read_index < End(b)

Disjoint ==
  \A b, c \in buffs : b # c => End(b) <= c.begin \/ End(c) <= b.begin

Rest == (base + read_index) .. (base + write_index - 1)
Covered == Rest \subseteq UNION {b.data : b \in buffs}

Counters ==
  /\ received \in Nat /\ base \in Nat
  /\ read_index \in Nat /\ write_index \in Nat
  /\ received <= StreamLen
  /\ read_index <= write_index
  /\ base + write_index <= received
  /\ read_ok \in BOOLEAN
  /\ read_ok => base + write_index = received

IInv == Counters /\ Shaped /\ Live /\ Disjoint /\ Covered

LEMMA IntervalSize ==
  ASSUME NEW lo \in Nat, NEW hi \in Nat, lo <= hi
  PROVE  Cardinality(lo .. (hi - 1)) = hi - lo
<1>1. lo \in Int /\ hi - 1 \in Int
  OBVIOUS
<1>2. Cardinality(lo .. (hi - 1)) =
        IF lo > hi - 1 THEN 0 ELSE hi - 1 - lo + 1
  BY <1>1, FS_Interval
<1> QED
  BY <1>2

\* The size of a block is what its bounds say.
LEMMA BlockEnd ==
  ASSUME NEW s \in Nat, NEW i \in Nat, NEW e \in Nat, i < e
  PROVE  LET b == [begin |-> i, data |-> (s + i) .. (s + e - 1)]
         IN  End(b) = e /\ b \in [begin : Nat, data : SUBSET Nat]
<1>1. Cardinality((s + i) .. (s + e - 1)) = e - i
  <2>1. s + i \in Nat /\ s + e \in Nat /\ s + i <= s + e
    OBVIOUS
  <2>2. Cardinality((s + i) .. ((s + e) - 1)) = (s + e) - (s + i)
    BY <2>1, IntervalSize
  <2> QED
    BY <2>2
<1> QED
  BY <1>1 DEF End, Size

\* Below 2^(w-1) the narrowed key is the key itself.
LEMMA NoNarrowing ==
  ASSUME NEW b \in [begin : Nat, data : SUBSET Nat], NEW k \in Nat,
         k < IntMax, End(b) \in Nat
  PROVE  Holds(b, k) <=> (b.begin <= k /\ k < End(b))
<1>1. k % (2 * IntMax) = k
  BY BoundsAssumption
<1> QED
  BY <1>1 DEF Holds

\* The block that holds read_index comes before all others.
LEMMA FrontBlock ==
  ASSUME IInv, read_index < write_index
  PROVE  \E b \in buffs :
           /\ b.begin <= read_index /\ read_index < End(b)
           /\ \A c \in buffs : c # b => End(b) <= c.begin /\ b.begin < c.begin
<1>1. base + read_index \in Rest
  BY DEF IInv, Counters, Rest
<1>2. PICK b \in buffs : base + read_index \in b.data
  BY <1>1 DEF IInv, Covered
<1>3. b.begin <= read_index /\ read_index < End(b)
  BY <1>2 DEF IInv, Counters, Shaped
<1>4. ASSUME NEW c \in buffs, c # b
      PROVE  End(b) <= c.begin /\ b.begin < c.begin
  BY <1>3, <1>4 DEF IInv, Counters, Shaped, Live, Disjoint
<1> QED
  BY <1>3, <1>4

\* When everything is read there is no block left.
LEMMA NoBlockLeft ==
  ASSUME IInv, ~(read_index < write_index)
  PROVE  buffs = {}
BY DEF IInv, Counters, Shaped, Live

\* The offset of a byte in its block.
LEMMA OffsetIs ==
  ASSUME IInv, NEW b \in buffs, NEW x \in b.data
  PROVE  x \in Nat /\ Offset(b, x) = x - (base + b.begin)
<1>1. x \in Nat /\ base + b.begin <= x /\ x <= base + End(b) - 1
  BY DEF IInv, Counters, Shaped
<1>2. {y \in b.data : y < x} = (base + b.begin) .. (x - 1)
  BY <1>1 DEF IInv, Counters, Shaped
<1>3. base \in Nat /\ b.begin \in Nat
  BY DEF IInv, Counters, Shaped
<1>4. Cardinality((base + b.begin) .. (x - 1)) = x - (base + b.begin)
  BY <1>1, <1>3, IntervalSize
<1> QED
  BY <1>1, <1>2, <1>4 DEF Offset

\* What get_some returns.
LEMMA GetSomeFront ==
  ASSUME IInv, StreamLen <= IntMax, NEW b \in buffs,
         b.begin <= read_index, read_index < End(b),
         \A c \in buffs : c # b => End(b) <= c.begin
  PROVE  GetSome = (base + read_index) .. (base + End(b) - 1)
<1>1. read_index < IntMax
  BY BoundsAssumption DEF IInv, Counters, Shaped
<1>2. {c \in buffs : Holds(c, read_index)} = {b}
  <2>1. ASSUME NEW c \in buffs
        PROVE  Holds(c, read_index) <=> c = b
    BY <1>1, NoNarrowing, SMTT(30) DEF IInv, Counters, Shaped
  <2> QED
    BY <2>1
<1>3. ASSUME NEW x \in b.data
      PROVE  Offset(b, x) >= read_index - b.begin <=> x >= base + read_index
  <2>1. x \in Nat /\ Offset(b, x) = x - (base + b.begin)
    BY OffsetIs
  <2>2. base \in Nat /\ b.begin \in Nat /\ read_index \in Nat
    BY DEF IInv, Counters, Shaped
  <2> QED
    BY <2>1, <2>2
<1>4. {x \in b.data : Offset(b, x) >= read_index - b.begin}
        = (base + read_index) .. (base + End(b) - 1)
  BY <1>3 DEF IInv, Counters, Shaped
<1> QED
  BY <1>2, <1>4 DEF GetSome

-----------------------------------------------------------------------------
LEMMA InitIInv == Init => IInv
  BY BoundsAssumption
  DEF Init, IInv, Counters, Shaped, Live, Disjoint, Covered, Rest

LEMMA LoadSomeIInv ==
  ASSUME IInv, NEW n \in 1 .. StreamLen, LoadSome(n)
  PROVE  IInv'
<1> DEFINE nb == [begin |-> write_index,
                  data |-> received .. (received + n - 1)]
<1>1. base + write_index = received
  BY DEF IInv, Counters, LoadSome
<1>2. nb = [begin |-> write_index,
            data |-> (base + write_index) .. (base + (write_index + n) - 1)]
  BY <1>1, BoundsAssumption DEF IInv, Counters
<1>3. End(nb) = write_index + n /\ nb \in [begin : Nat, data : SUBSET Nat]
  <2>1. /\ base \in Nat /\ write_index \in Nat /\ write_index + n \in Nat
        /\ write_index < write_index + n
    BY BoundsAssumption DEF IInv, Counters
  <2> HIDE DEF nb
  <2> QED
    BY <1>2, <2>1, BlockEnd
<1>4. buffs' = buffs \cup {nb}
  <2>1. \A b \in buffs : b.begin # write_index
    BY DEF IInv, Counters, Shaped
  <2> QED
    BY <2>1 DEF LoadSome, Emplaced
<1> HIDE DEF nb
<1>5. Counters'
  BY <1>1, BoundsAssumption DEF IInv, Counters, LoadSome
<1>6. nb.begin = write_index
      /\ nb.data = (base + nb.begin) .. (base + End(nb) - 1)
  BY <1>1, <1>2, <1>3 DEF nb
<1>7. Shaped'
  BY <1>3, <1>4, <1>6, BoundsAssumption DEF IInv, Counters, Shaped, LoadSome
<1>8. Live'
  BY <1>3, <1>4, BoundsAssumption DEF IInv, Counters, Live, LoadSome
<1>9. Disjoint'
  BY <1>3, <1>4, <1>6 DEF IInv, Counters, Shaped, Disjoint, LoadSome
<1>10. Covered'
  <2>1. Rest' \subseteq Rest \cup nb.data
    BY <1>3, <1>6, BoundsAssumption DEF IInv, Counters, Rest, LoadSome
  <2> QED
    BY <2>1, <1>4 DEF IInv, Covered
<1> QED
  BY <1>5, <1>7, <1>8, <1>9, <1>10 DEF IInv

LEMMA RemoveSomeIInv ==
  ASSUME IInv, StreamLen <= IntMax, NEW n \in 0 .. StreamLen, RemoveSome(n)
  PROVE  IInv'
<1> USE DEF RemoveSome
<1>1. CASE ~(read_index < write_index)
  <2>1. buffs = {} /\ GetSome = {}
    BY <1>1, NoBlockLeft DEF GetSome
  <2>2. n = 0
    BY <2>1, FS_EmptySet, BoundsAssumption
  <2> QED
    BY <1>1, <2>1, <2>2
    DEF IInv, Counters, Shaped, Live, Disjoint, Covered, Rest
<1>2. CASE read_index < write_index
  <2>1. PICK b \in buffs :
          /\ b.begin <= read_index /\ read_index < End(b)
          /\ \A c \in buffs : c # b => End(b) <= c.begin /\ b.begin < c.begin
    BY <1>2, FrontBlock
  <2>2. GetSome = (base + read_index) .. (base + End(b) - 1)
    BY <2>1, GetSomeFront
  <2>3. base \in Nat /\ read_index \in Nat /\ End(b) \in Nat
    BY DEF IInv, Counters, Shaped
  <2>4. n \in Nat /\ read_index + n <= End(b)
    <3>1. base + read_index <= base + End(b)
      BY <2>1, <2>3
    <3>2. Cardinality(GetSome) = (base + End(b)) - (base + read_index)
      <4>1. base + read_index \in Nat /\ base + End(b) \in Nat
        BY <2>3
      <4> DEFINE lo == base + read_index
                 hi == base + End(b)
      <4>2. GetSome = lo .. (hi - 1) /\ lo <= hi
        BY <2>2, <2>3, <3>1
      <4> HIDE DEF lo, hi
      <4>3. lo \in Nat /\ hi \in Nat
        BY <4>1 DEF lo, hi
      <4>4. Cardinality(GetSome) = hi - lo
        BY <4>2, <4>3, IntervalSize
      <4> QED
        BY <4>4 DEF lo, hi
    <3> QED
      BY <2>1, <2>3, <3>2, BoundsAssumption
  <2>5. Removed(read_index + n) = {c \in {b} : read_index + n >= End(b)}
    <3>1. ASSUME NEW c \in buffs, c # b
          PROVE  c \notin Removed(read_index + n)
      <4>1. b.begin <= c.begin /\ End(b) <= c.begin /\ c.begin < End(c)
        BY <2>1, <3>1 DEF IInv, Counters, Shaped
      <4>2. ~(read_index + n >= End(c))
        BY <4>1, <2>3, <2>4, <3>1 DEF IInv, Shaped
      <4> QED
        BY <4>2, <3>1 DEF Removed, IInv, Shaped
    <3>2. b \in Removed(read_index + n) <=> read_index + n >= End(b)
      <4>1. \A c \in buffs : c.begin <= b.begin => c = b
        BY <2>1 DEF IInv, Shaped
      <4> QED
        BY <4>1, <2>3 DEF Removed, IInv, Shaped
    <3> QED
      BY <3>1, <3>2 DEF Removed
  <2>6. Counters'
    BY <2>1, <2>4 DEF IInv, Counters, Shaped
  <2>7. Shaped' /\ Disjoint'
    BY DEF IInv, Shaped, Disjoint
  <2>8. Live'
    <3>1. ASSUME NEW c \in buffs'
          PROVE  read_index + n < End(c)
      <4>1. CASE c = b
        BY <4>1, <2>3, <2>4, <2>5, <3>1
      <4>2. CASE c # b
        <5>1. End(b) <= c.begin /\ c.begin < End(c)
              /\ c.begin \in Nat /\ End(c) \in Nat
          BY <2>1, <4>2 DEF IInv, Shaped
        <5> QED
          BY <5>1, <2>3, <2>4
      <4> QED
        BY <4>1, <4>2
    <3> QED
      BY <3>1 DEF Live
  <2>9. Covered'
    <3>1. Rest' \subseteq Rest
      BY <2>4 DEF IInv, Counters, Rest
    <3>2. ASSUME NEW x \in Rest'
          PROVE  \E c \in buffs' : x \in c.data
      <4>1. PICK c \in buffs : x \in c.data
        BY <3>1, <3>2 DEF IInv, Covered
      <4>2. c \notin Removed(read_index + n)
        BY <4>1, <2>4, <2>5, <3>2 DEF IInv, Counters, Shaped, Rest
      <4> QED
        BY <4>1, <4>2
    <3> QED
      BY <3>2 DEF Covered
  <2> QED
    BY <2>6, <2>7, <2>8, <2>9 DEF IInv
<1> QED
  BY <1>1, <1>2

LEMMA MergeSomeIInv ==
  ASSUME IInv, MergeSome
  PROVE  IInv'
<1> USE DEF MergeSome
<1>1. buffs # {}
  BY FS_EmptySet
<1>2. read_index < write_index
  BY <1>1, NoBlockLeft
<1>3. PICK b \in buffs :
        /\ b.begin <= read_index /\ read_index < End(b)
        /\ \A c \in buffs : c # b => End(b) <= c.begin /\ b.begin < c.begin
  BY <1>2, FrontBlock
<1>4. First = b
  BY <1>3 DEF First, IInv, Shaped
<1>5. UNION {c.data : c \in buffs}
        = (base + b.begin) .. (base + write_index - 1)
  <2>1. ASSUME NEW c \in buffs, NEW x \in c.data
        PROVE  x \in (base + b.begin) .. (base + write_index - 1)
    BY <1>3, SMTT(30) DEF IInv, Counters, Shaped
  <2>2. ASSUME NEW x \in (base + b.begin) .. (base + write_index - 1)
        PROVE  \E c \in buffs : x \in c.data
    <3>1. CASE x < base + read_index
      BY <1>3, <3>1 DEF IInv, Counters, Shaped
    <3>2. CASE x >= base + read_index
      BY <3>2 DEF IInv, Counters, Covered, Rest
    <3> QED
      BY <3>1, <3>2 DEF IInv, Counters, Shaped
  <2> QED
    BY <2>1, <2>2
<1>6. b.begin \in Nat /\ b.begin < write_index
  BY <1>3 DEF IInv, Counters, Shaped
<1>7. Merged = [begin |-> b.begin,
                data |-> (base + b.begin) .. (base + write_index - 1)]
  BY <1>4, <1>5 DEF Merged
<1>8. /\ End(Merged) = write_index
      /\ Merged \in [begin : Nat, data : SUBSET Nat]
  BY <1>6, <1>7, BlockEnd DEF IInv, Counters
<1>9. Counters' /\ Live' /\ Disjoint'
  BY <1>2, <1>8 DEF IInv, Counters, Live, Disjoint
<1>10. Shaped'
  BY <1>6, <1>7, <1>8 DEF IInv, Counters, Shaped
<1>11. Covered'
  BY <1>5, <1>6, <1>7, <1>3 DEF IInv, Counters, Covered, Rest
<1> QED
  BY <1>9, <1>10, <1>11 DEF IInv

LEMMA StepIInv ==
  ASSUME StreamLen <= IntMax, IInv, [Next]_vars
  PROVE  IInv'
<1>1. ASSUME NEW n \in 1 .. StreamLen, LoadSome(n) PROVE IInv'
  BY <1>1, LoadSomeIInv
<1>2. CASE LoadSomeFail
  BY <1>2
  DEF LoadSomeFail, IInv, Counters, Shaped, Live, Disjoint, Covered, Rest
<1>3. ASSUME NEW k \in 0 .. StreamLen, LoadUntilFail(k) PROVE IInv'
  <2>1. Counters'
    <3>1. ~read_ok' /\ read_ok' \in BOOLEAN
      BY <1>3 DEF LoadUntilFail
    <3>2. /\ received' \in Nat /\ received' <= StreamLen
          /\ base + write_index <= received'
      BY <1>3, BoundsAssumption DEF LoadUntilFail, IInv, Counters
    <3> QED
      BY <1>3, <3>1, <3>2 DEF LoadUntilFail, IInv, Counters
  <2>2. Shaped' /\ Live' /\ Disjoint' /\ Covered'
    BY <1>3
    DEF LoadUntilFail, IInv, Shaped, Live, Disjoint, Covered, Rest
  <2> QED
    BY <2>1, <2>2 DEF IInv
<1>4. ASSUME NEW n \in 0 .. StreamLen, RemoveSome(n) PROVE IInv'
  BY <1>4, RemoveSomeIInv
<1>5. CASE MergeSome
  BY <1>5, MergeSomeIInv
<1>6. CASE Reset
  BY <1>6
  DEF Reset, IInv, Counters, Shaped, Live, Disjoint, Covered, Rest
<1>7. CASE UNCHANGED vars
  BY <1>7
  DEF vars, IInv, Counters, Shaped, Live, Disjoint, Covered, Rest
<1> QED
  BY <1>1, <1>2, <1>3, <1>4, <1>5, <1>6, <1>7 DEF Next

-----------------------------------------------------------------------------
\* The strengthening holds as long as an int can index the stream.
THEOREM Invariance ==
  ASSUME StreamLen <= IntMax
  PROVE  Spec => []IInv
BY InitIInv, StepIInv, PTL DEF Spec

\* Type correctness.
THEOREM TypeCorrect ==
  ASSUME StreamLen <= IntMax
  PROVE  Spec => []TypeOK
<1>1. IInv => TypeOK
  <2> SUFFICES ASSUME IInv
               PROVE  TypeOK
    OBVIOUS
  <2>1. ASSUME NEW b \in buffs
        PROVE  b.begin \in 0 .. StreamLen /\ base + b.begin \in b.data
    BY BoundsAssumption DEF IInv, Counters, Shaped
  <2>2. /\ received \in 0 .. StreamLen /\ base \in 0 .. received
        /\ read_index \in 0 .. write_index /\ write_index \in 0 .. StreamLen
    BY BoundsAssumption DEF IInv, Counters
  <2> QED
    BY <2>1, <2>2 DEF TypeOK, IInv, Counters
<1> QED
  BY <1>1, Invariance, PTL

\* The assertion of async_load_some holds, and so would the one commented out
\* in async_load_until.
THEOREM InsertionNeverFails ==
  ASSUME StreamLen <= IntMax
  PROVE  Spec => []AlwaysInserted
<1>1. IInv => AlwaysInserted
  BY DEF IInv, Counters, Shaped, AlwaysInserted
<1> QED
  BY <1>1, Invariance, PTL

-----------------------------------------------------------------------------
(* The buffer implements the stream                                        *)

\* What the blocks hold from the read index on is what arrived since the reset
\* and is not consumed.
LEMMA UnreadIsRest ==
  ASSUME IInv
  PROVE  Unread = Rest
<1>1. ASSUME NEW b \in buffs, NEW x \in b.data, x >= base + read_index
      PROVE  x \in Rest
  BY <1>1 DEF IInv, Counters, Shaped, Rest
<1>2. \A x \in Rest : x >= base + read_index
  BY DEF IInv, Counters, Rest
<1> QED
  BY <1>1, <1>2 DEF Unread, IInv, Covered

\* What get_some returns is a beginning of it.
LEMMA FrontIsShown ==
  ASSUME IInv, StreamLen <= IntMax
  PROVE  /\ Stream!Shown(GetSome, Unread)
         /\ \E e \in Nat : GetSome = (base + read_index) .. (base + e - 1)
                          /\ read_index <= e /\ e <= write_index
<1>1. CASE read_index < write_index
  <2>1. PICK b \in buffs :
          /\ b.begin <= read_index /\ read_index < End(b)
          /\ \A c \in buffs : c # b => End(b) <= c.begin /\ b.begin < c.begin
    BY <1>1, FrontBlock
  <2>2. GetSome = (base + read_index) .. (base + End(b) - 1)
    BY <2>1, GetSomeFront
  <2>3. End(b) \in Nat /\ End(b) <= write_index
    BY DEF IInv, Shaped
  <2>4. base \in Nat /\ read_index \in Nat /\ write_index \in Nat
    BY DEF IInv, Counters
  <2>5. Stream!Begins(GetSome, Rest)
    BY <2>2, <2>3, <2>4 DEF Stream!Begins, Rest
  <2>6. GetSome # {}
    <3>1. base + read_index \in GetSome
      BY <2>1, <2>2, <2>3, <2>4
    <3> QED
      BY <3>1
  <2>7. read_index <= End(b)
    BY <2>1, <2>3, <2>4
  <2> QED
    BY <2>2, <2>3, <2>5, <2>6, <2>7, UnreadIsRest DEF Stream!Shown
<1>2. CASE ~(read_index < write_index)
  <2>1. buffs = {} /\ GetSome = {} /\ Unread = {}
    BY <1>2, NoBlockLeft DEF GetSome, Unread
  <2>2. GetSome = (base + read_index) .. (base + read_index - 1)
    BY <2>1 DEF IInv, Counters
  <2> QED
    BY <2>1, <2>2 DEF Stream!Shown, Stream!Begins, IInv, Counters
<1> QED
  BY <1>1, <1>2

LEMMA LoadSomeImplements ==
  ASSUME StreamLen <= IntMax, IInv, IInv', Stream!Shown(GetSome, Unread)',
         Unread' = Rest', NEW n \in 1 .. StreamLen, LoadSome(n)
  PROVE  Stream!Arrive(n)
<1>1. base + write_index = received
  BY DEF IInv, Counters, LoadSome
<1>2. Unread' = Unread \cup (received .. (received + n - 1))
  BY <1>1, UnreadIsRest DEF Rest, LoadSome, IInv, Counters
<1>3. buffs \subseteq buffs'
  BY DEF LoadSome, Emplaced
<1>4. GetSome \subseteq GetSome'
  BY <1>3, SMTT(30) DEF GetSome, LoadSome, Holds, End, Size, Offset
<1> QED
  BY <1>2, <1>4 DEF Stream!Arrive, LoadSome

LEMMA RemoveSomeImplements ==
  ASSUME StreamLen <= IntMax, IInv, IInv', Stream!Shown(GetSome, Unread)',
         Unread' = Rest', NEW n \in 0 .. StreamLen, RemoveSome(n)
  PROVE  \E P \in SUBSET GetSome : Stream!Take(P)
<1> DEFINE P == (base + read_index) .. (base + read_index + n - 1)
<1>1. PICK e \in Nat : GetSome = (base + read_index) .. (base + e - 1)
                        /\ read_index <= e /\ e <= write_index
  BY FrontIsShown
<1>2. read_index + n <= e
  <2> DEFINE lo == base + read_index
             hi == base + e
  <2>1. lo \in Nat /\ hi \in Nat /\ lo <= hi
    BY <1>1 DEF IInv, Counters
  <2>2. GetSome = lo .. (hi - 1)
    BY <1>1 DEF IInv, Counters
  <2> HIDE DEF lo, hi
  <2>3. Cardinality(GetSome) = hi - lo
    BY <2>1, <2>2, IntervalSize
  <2> QED
    BY <2>3, BoundsAssumption, <1>1 DEF RemoveSome, lo, hi, IInv, Counters
<1>3. Stream!Begins(P, GetSome)
  BY <1>1, <1>2 DEF Stream!Begins, IInv, Counters
<1>4. Unread' = Unread \ P
  BY UnreadIsRest, BoundsAssumption DEF Rest, RemoveSome, IInv, Counters
<1>5. GetSome \ P \subseteq GetSome'
  <2>1. CASE read_index + n = e
    BY <1>1, <2>1 DEF IInv, Counters
  <2>2. CASE read_index + n < e
    <3>1. PICK b \in buffs :
            /\ b.begin <= read_index /\ read_index < End(b)
            /\ \A c \in buffs : c # b => End(b) <= c.begin /\ b.begin < c.begin
      BY <1>1, <2>2, FrontBlock, BoundsAssumption DEF IInv, Counters
    <3>2. GetSome = (base + read_index) .. (base + End(b) - 1)
      BY <3>1, GetSomeFront
    <3>3. e = End(b)
      BY <1>1, <2>2, <3>1, <3>2, SMTT(30) DEF IInv, Counters, Shaped
    <3>4. b \in buffs'
      <4>1. ~(read_index + n >= End(b)) /\ b.begin <= b.begin
        BY <2>2, <3>3, BoundsAssumption DEF IInv, Counters, Shaped
      <4>2. b \notin Removed(read_index + n)
        BY <4>1 DEF Removed
      <4> QED
        BY <4>2 DEF RemoveSome
    <3>5. UNCHANGED base /\ read_index' = read_index + n
      BY DEF RemoveSome
    <3>6. Holds(b, read_index')
      <4>1. read_index + n \in Nat /\ read_index + n < IntMax
        BY <1>1, <2>2, BoundsAssumption DEF IInv, Counters
      <4> QED
        BY <2>2, <3>1, <3>3, <3>5, <4>1, NoNarrowing, BoundsAssumption
        DEF IInv, Counters, Shaped
    <3>7. ASSUME NEW x \in GetSome \ P
          PROVE  x \in GetSome'
      <4>1. x \in b.data /\ x >= base + read_index + n
        BY <3>1, <3>2, <3>7, BoundsAssumption, SMTT(30) DEF IInv, Counters, Shaped
      <4>2. Offset(b, x) >= read_index' - b.begin
        BY <3>5, <4>1, OffsetIs, BoundsAssumption DEF IInv, Counters, Shaped
      <4> QED
        BY <3>4, <3>6, <4>1, <4>2 DEF GetSome
    <3> QED
      BY <3>7
  <2>3. n \in Nat /\ read_index \in Nat
    BY BoundsAssumption DEF IInv, Counters
  <2> QED
    BY <1>2, <2>1, <2>2, <2>3
<1>6. P \in SUBSET GetSome /\ Stream!Take(P)
  BY <1>3, <1>4, <1>5 DEF Stream!Take, Stream!Begins, RemoveSome
<1> QED
  BY <1>6

\* get_some shows all of a single block that is unread.
LEMMA OneBlockIsShown ==
  ASSUME IInv, StreamLen <= IntMax, NEW m, buffs = {m}
  PROVE  GetSome = Unread
<1>1. CASE read_index < write_index
  <2>1. PICK b \in buffs :
          /\ b.begin <= read_index /\ read_index < End(b)
          /\ \A c \in buffs : c # b => End(b) <= c.begin /\ b.begin < c.begin
    BY <1>1, FrontBlock
  <2>2. GetSome = (base + read_index) .. (base + End(b) - 1)
    BY <2>1, GetSomeFront
  <2>3. /\ base \in Nat /\ read_index \in Nat /\ write_index \in Nat
        /\ End(b) \in Nat /\ End(b) <= write_index
        /\ b.data = (base + b.begin) .. (base + End(b) - 1)
    BY DEF IInv, Counters, Shaped
  <2>4. Rest \subseteq b.data
    BY DEF IInv, Covered
  <2>5. base + write_index - 1 \in b.data
    BY <1>1, <2>3, <2>4 DEF Rest
  <2>6. End(b) = write_index
    BY <2>3, <2>5
  <2> QED
    BY <2>2, <2>6, UnreadIsRest DEF Rest
<1>2. CASE ~(read_index < write_index)
  BY <1>2, NoBlockLeft
<1> QED
  BY <1>1, <1>2

LEMMA MergeSomeImplements ==
  ASSUME IInv, Unread' = Rest', MergeSome,
         \A m : buffs' = {m} => GetSome' = Unread'
  PROVE  Stream!Gather
<1>1. Unread' = Unread
  BY UnreadIsRest DEF Rest, MergeSome
<1>2. GetSome' = Unread'
  BY DEF MergeSome
<1> QED
  BY <1>1, <1>2 DEF MergeSome, Stream!Gather

\* socket_memory gives its reader the stream of the peer, each byte once and in
\* its order, for streams and reads of any length an int can index.
THEOREM Implementation ==
  ASSUME StreamLen <= IntMax
  PROVE  Spec => ImplementsByteStream
<1>1. Init => Stream!Init
  BY DEF Init, Stream!Init, Unread, GetSome
<1>2. IInv => Unread = Rest
  BY UnreadIsRest
<1>3. IInv => Stream!Shown(GetSome, Unread)
  BY FrontIsShown
<1> DEFINE AllShown == \A m : buffs = {m} => GetSome = Unread
<1>4. IInv => AllShown
  BY OneBlockIsShown
<1> HIDE DEF AllShown
<1>5. IInv' => (Unread = Rest)'
  BY <1>2, PTL
<1>6. IInv' => Stream!Shown(GetSome, Unread)'
  BY <1>3, PTL
<1>7. IInv' => AllShown'
  BY <1>4, PTL
<1>8. IInv /\ IInv' /\ [Next]_vars => [Stream!Next]_Stream!vars
  <2> SUFFICES ASSUME IInv, IInv', [Next]_vars
               PROVE  [Stream!Next]_Stream!vars
    OBVIOUS
  <2>1. ASSUME NEW n \in 1 .. StreamLen, LoadSome(n) PROVE Stream!Next
    BY <1>5, <1>6, <2>1, LoadSomeImplements DEF Stream!Next
  <2>2. ASSUME NEW n \in 0 .. StreamLen, RemoveSome(n) PROVE Stream!Next
    BY <1>5, <1>6, <2>2, RemoveSomeImplements DEF Stream!Next
  <2>3. CASE MergeSome
    BY <1>5, <1>7, <2>3, MergeSomeImplements DEF Stream!Next, AllShown
  <2>4. CASE Reset
    <3>1. Unread' = {} /\ GetSome' = {}
      BY <2>4 DEF Reset, Unread, GetSome
    <3> QED
      BY <2>4, <3>1 DEF Reset, Stream!Next, Stream!Forget
  <2>5. ASSUME NEW k \in 0 .. StreamLen, LoadUntilFail(k) PROVE Stream!Next
    <3>1. Unread' = Unread /\ GetSome' = GetSome
      BY <2>5 DEF LoadUntilFail, Unread, GetSome
    <3> QED
      BY <2>5, <3>1 DEF LoadUntilFail, Stream!Next, Stream!Lose
  <2>6. CASE LoadSomeFail
    <3>1. Unread' = Unread /\ GetSome' = GetSome
      BY <2>6 DEF LoadSomeFail, Unread, GetSome
    <3>2. 0 \in 0 .. StreamLen /\ received + 0 = received /\ received <= StreamLen
      BY BoundsAssumption DEF IInv, Counters
    <3>3. Stream!Lose(0)
      BY <2>6, <3>1, <3>2 DEF LoadSomeFail, Stream!Lose
    <3> QED
      BY <3>2, <3>3 DEF Stream!Next
  <2>7. CASE UNCHANGED vars
    BY <2>7 DEF vars, Stream!vars, Unread, GetSome
  <2> QED
    BY <2>1, <2>2, <2>3, <2>4, <2>5, <2>6, <2>7 DEF Next
<1> QED
  BY <1>1, <1>8, Invariance, PTL DEF Spec, ImplementsByteStream, Stream!Spec
=============================================================================
