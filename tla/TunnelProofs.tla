---------------------------- MODULE TunnelProofs ----------------------------
(***************************************************************************)
(* The tunnel keeps each direction in order and loses nothing without a    *)
(* failure, for streams and chunks of any length.  The inductive invariant *)
(* adds to the type where the bytes of a direction are: delivered, then in *)
(* the hands of its pump, then still in the socket.                        *)
(***************************************************************************)
EXTENDS Tunnel, SequenceTheorems, TLAPS

Counts ==
  /\ early \in Nat /\ early <= MaxEarly
  /\ loaded \in [Dirs -> Nat] /\ sent \in [Dirs -> Nat]
  /\ \A d \in Dirs : loaded[d] <= sent[d]

Flags ==
  /\ rok \in [Dirs -> BOOLEAN] /\ wok \in [Dirs -> BOOLEAN]
  /\ fin \in [Dirs -> BOOLEAN]
  /\ gone \in [{"client", "server"} -> BOOLEAN]

Control ==
  /\ maker \in {"connecting", "failed", "replying", "done"}
  /\ pump \in [Dirs -> {"none", "check", "loading", "writing", "ended"}]
  /\ maker = "connecting" => \A d \in Dirs : pump[d] = "none"

Texts == chunk \in [Dirs -> Seq(Nat)] /\ delivered \in [Dirs -> Seq(Nat)]

\* A pump has bytes in hand between its load and its write only, and they
\* are the last it took from the socket.
InHand ==
  \A d \in Dirs :
    /\ pump[d] # "writing" => chunk[d] = <<>>
    /\ \A i \in 1 .. Len(chunk[d]) :
         chunk[d][i] = loaded[d] - Len(chunk[d]) + i

\* Unless a write of this direction failed, what is delivered and what is in
\* hand is all that was taken; a pump whose write failed loads no more.
Accounted ==
  \A d \in Dirs :
    wok[d] \/ pump[d] \in {"none", "loading", "writing"} =>
      Start(d) + Len(delivered[d]) + Len(chunk[d]) = loaded[d]

\* A failed load has a reason, and a pump ends after a failure only.
Reasons ==
  \A d \in Dirs :
    /\ ~rok[d] => gone[Sender(d)] \/ (fin[d] /\ loaded[d] = sent[d])
    /\ pump[d] = "ended" => ~Ok

IInv ==
  /\ Counts /\ Flags /\ Control /\ Texts
  /\ InHand /\ Accounted /\ Reasons /\ InOrder

LEMMA Sides ==
  ASSUME NEW d \in Dirs
  PROVE  Sender(d) \in {"client", "server"} /\ Receiver(d) \in {"client", "server"}
  BY DEF Dirs, Sender, Receiver

LEMMA StartNat == ASSUME Counts, NEW d \in Dirs PROVE Start(d) \in Nat
  BY DEF Counts, Start

LEMMA Appended ==
  ASSUME NEW s \in Seq(Nat), NEW t \in Seq(Nat), NEW a \in Nat,
         \A i \in 1 .. Len(s) : s[i] = a + i,
         \A i \in 1 .. Len(t) : t[i] = a + Len(s) + i
  PROVE  /\ s \o t \in Seq(Nat)
         /\ Len(s \o t) = Len(s) + Len(t)
         /\ \A i \in 1 .. Len(s \o t) : (s \o t)[i] = a + i
<1>1. s \o t \in Seq(Nat) /\ Len(s \o t) = Len(s) + Len(t)
  OBVIOUS
<1>2. Len(s) \in Nat /\ Len(t) \in Nat
  OBVIOUS
<1>3. ASSUME NEW i \in 1 .. (Len(s) + Len(t))
      PROVE  (s \o t)[i] = a + i
  <2>1. CASE i <= Len(s)
    <3>1. (s \o t)[i] = s[i] /\ i \in 1 .. Len(s)
      BY <1>2, <2>1
    <3> QED
      BY <3>1
  <2>2. CASE ~(i <= Len(s))
    <3>1. (s \o t)[i] = t[i - Len(s)]
      BY <1>2, <2>2
    <3>2. i - Len(s) \in 1 .. Len(t)
      BY <1>2, <2>2
    <3>3. t[i - Len(s)] = a + Len(s) + (i - Len(s))
      BY <3>2
    <3> QED
      BY <1>2, <3>1, <3>3
  <2> QED
    BY <2>1, <2>2
<1> QED
  BY <1>1, <1>3

LEMMA Initially == Init => IInv
<1> SUFFICES ASSUME Init
             PROVE  IInv
  OBVIOUS
<1>1. ClientLen \in Nat /\ ServerLen \in Nat /\ early \in Nat
      /\ early <= MaxEarly
  BY LengthAssumption DEF Init
<1>2. Counts /\ Flags /\ Control /\ Texts
  <2>1. Counts
    BY <1>1 DEF Init, Counts, Dirs, Len0
  <2> QED
    BY <2>1 DEF Init, Flags, Control, Texts
<1>3. InHand /\ Reasons /\ InOrder
  BY DEF Init, InHand, Reasons, InOrder
<1>4. Accounted
  BY <1>1 DEF Init, Accounted, Start
<1> QED
  BY <1>2, <1>3, <1>4 DEF IInv

\* The peers change what is in the sockets, not what the tunnel holds.
LEMMA PeersIInv ==
  ASSUME IInv, NEW d \in Dirs, Send(d) \/ HalfClose(d) \/ Leave(d)
  PROVE  IInv'
<1> USE DEF IInv
<1>1. UNCHANGED <<early, maker, pump, chunk, rok, wok, loaded, delivered>>
  BY DEF Send, HalfClose, Leave
<1>2. Counts'
  BY <1>1 DEF Counts, Send, HalfClose, Leave
<1>3. Flags'
  BY <1>1, Sides DEF Flags, Send, HalfClose, Leave
<1>4. Control' /\ Texts' /\ InHand' /\ InOrder' /\ Accounted'
  BY <1>1 DEF Control, Texts, InHand, InOrder, Accounted, Start
<1>5. ASSUME NEW e \in Dirs, ~rok'[e]
      PROVE  gone'[Sender(e)] \/ (fin'[e] /\ loaded'[e] = sent'[e])
  <2>1. gone[Sender(e)] \/ (fin[e] /\ loaded[e] = sent[e])
    BY <1>1, <1>5 DEF Reasons
  <2>2. CASE gone[Sender(e)]
    BY <2>2, Sides DEF Flags, Send, HalfClose, Leave
  <2>3. CASE fin[e] /\ loaded[e] = sent[e]
    BY <1>1, <2>3 DEF Flags, Counts, Send, HalfClose, Leave
  <2> QED
    BY <2>1, <2>2, <2>3
<1>6. Reasons'
  BY <1>1, <1>5 DEF Reasons, Ok
<1> QED
  BY <1>2, <1>3, <1>4, <1>6

\* make_tunnel: until it has connected there are no pumps.
LEMMA MakerIInv ==
  ASSUME IInv, ConnectFail \/ ConnectOk \/ ReplyOk \/ ReplyFail
  PROVE  IInv'
<1> USE DEF IInv
<1>1. UNCHANGED <<early, chunk, rok, loaded, delivered, sent, fin, gone>>
  BY DEF ConnectFail, ConnectOk, ReplyOk, ReplyFail, peers
<1>2. Counts' /\ Texts' /\ InOrder'
  BY <1>1 DEF Counts, Texts, InOrder, Start
<1>3. Flags' /\ Control'
  BY <1>1 DEF Flags, Control, ConnectFail, ConnectOk, ReplyOk, ReplyFail
<1>4. \A d \in Dirs : wok'[d] => wok[d]
  BY DEF Flags, ConnectFail, ConnectOk, ReplyOk, ReplyFail
<1>5. CASE pump' = pump
  <2>1. InHand' /\ Accounted'
    BY <1>1, <1>4, <1>5 DEF InHand, Accounted, Start
  <2>2. Reasons'
    BY <1>1, <1>4, <1>5 DEF Reasons, Ok
  <2> QED
    BY <1>2, <1>3, <2>1, <2>2
<1>6. CASE ConnectOk
  <2>1. \A d \in Dirs : pump[d] = "none" /\ pump'[d] = "check"
    BY <1>6 DEF Control, ConnectOk
  <2>2. wok' = wok
    BY <1>6 DEF ConnectOk
  <2>3. InHand' /\ Accounted' /\ Reasons'
    BY <1>1, <2>1, <2>2 DEF InHand, Accounted, Reasons, Start
  <2> QED
    BY <1>2, <1>3, <2>3
<1> QED
  BY <1>5, <1>6 DEF ConnectFail, ReplyOk, ReplyFail

\* A pump goes on only when no flag is down, which accounts for its bytes.
LEMMA CheckIInv ==
  ASSUME IInv, NEW d \in Dirs, Check(d)
  PROVE  IInv'
<1> USE DEF IInv
<1>1. UNCHANGED <<early, maker, chunk, rok, wok, loaded, delivered, sent, fin,
                  gone>>
  BY DEF Check, peers
<1>2. pump[d] = "check" /\ pump' = [pump EXCEPT ![d] =
                                     IF Ok THEN "loading" ELSE "ended"]
  BY DEF Check
<1>3. Counts' /\ Flags' /\ Texts' /\ InOrder'
  BY <1>1 DEF Counts, Flags, Texts, InOrder, Start
<1>4. Control' /\ InHand'
  BY <1>1, <1>2 DEF Control, InHand
<1>5. Accounted'
  BY <1>1, <1>2 DEF Control, Accounted, Start, Ok
<1>6. Reasons'
  BY <1>1, <1>2 DEF Control, Reasons, Ok
<1> QED
  BY <1>3, <1>4, <1>5, <1>6

\* A load moves the next n bytes from the socket into the pump's hands.
LEMMA LoadIInv ==
  ASSUME IInv, NEW d \in Dirs, NEW n \in 1 .. MaxChunk, Load(d, n)
  PROVE  IInv'
<1> USE DEF IInv
<1> DEFINE new == [i \in 1 .. n |-> loaded[d] + i]
<1>1. UNCHANGED <<early, maker, rok, wok, delivered, sent, fin, gone>>
  BY DEF Load, peers
<1>2. /\ pump[d] = "loading" /\ pump' = [pump EXCEPT ![d] = "writing"]
      /\ chunk' = [chunk EXCEPT ![d] = new]
      /\ loaded' = [loaded EXCEPT ![d] = @ + n]
      /\ loaded[d] + n <= sent[d]
  BY DEF Load
<1>3. n \in Nat /\ n > 0 /\ loaded[d] \in Nat
  BY LengthAssumption DEF Counts
<1>4. new \in Seq(Nat) /\ Len(new) = n
  BY <1>3
<1>5. Counts' /\ Flags' /\ InOrder'
  BY <1>1, <1>2, <1>3 DEF Counts, Flags, InOrder, Start
<1>6. Control' /\ Texts'
  <2>1. Control'
    BY <1>1, <1>2 DEF Control
  <2>2. Texts'
    BY <1>1, <1>2, <1>4 DEF Texts
  <2> QED
    BY <2>1, <2>2
<1>7. InHand'
  <2>1. ASSUME NEW e \in Dirs, e # d
        PROVE  chunk'[e] = chunk[e] /\ pump'[e] = pump[e] /\ loaded'[e] = loaded[e]
    BY <1>2, <2>1 DEF Control, Texts, Counts
  <2>2. chunk'[d] = new /\ loaded'[d] = loaded[d] + n /\ pump'[d] = "writing"
    BY <1>2 DEF Control, Texts, Counts
  <2>3. \A i \in 1 .. n : new[i] = (loaded[d] + n) - n + i
    BY <1>3
  <2> HIDE DEF new
  <2>4. \A i \in 1 .. Len(chunk'[d]) :
          chunk'[d][i] = loaded'[d] - Len(chunk'[d]) + i
    <3>1. Len(chunk'[d]) = n
      BY <1>4, <2>2
    <3> QED
      BY <2>2, <2>3, <3>1
  <2>5. ASSUME NEW e \in Dirs, e # d
        PROVE  /\ pump'[e] # "writing" => chunk'[e] = <<>>
               /\ \A i \in 1 .. Len(chunk'[e]) :
                    chunk'[e][i] = loaded'[e] - Len(chunk'[e]) + i
    <3>1. /\ pump[e] # "writing" => chunk[e] = <<>>
          /\ \A i \in 1 .. Len(chunk[e]) :
               chunk[e][i] = loaded[e] - Len(chunk[e]) + i
      BY DEF InHand
    <3> QED
      BY <2>1, <2>5, <3>1
  <2> QED
    BY <2>2, <2>4, <2>5 DEF InHand
<1>8. Accounted'
  <2>1. ASSUME NEW e \in Dirs, e # d,
               wok'[e] \/ pump'[e] \in {"none", "loading", "writing"}
        PROVE  Start(e)' + Len(delivered'[e]) + Len(chunk'[e]) = loaded'[e]
    BY <1>1, <1>2, <2>1 DEF Accounted, Control, Texts, Counts, Start
  <2>2. Start(d) + Len(delivered[d]) + 0 = loaded[d]
    BY <1>2 DEF Accounted, InHand
  <2>3. Start(d)' + Len(delivered'[d]) + Len(chunk'[d]) = loaded'[d]
    <3>1. chunk'[d] = new /\ loaded'[d] = loaded[d] + n /\ Start(d)' = Start(d)
      BY <1>1, <1>2 DEF Texts, Counts, Start
    <3>2. Len(delivered[d]) \in Nat /\ Start(d) \in Nat
      BY StartNat DEF Texts
    <3> QED
      BY <1>1, <1>3, <1>4, <2>2, <3>1, <3>2
  <2> QED
    BY <2>1, <2>3 DEF Accounted
<1>9. Reasons'
  BY <1>1, <1>2, <1>3 DEF Reasons, Ok, Counts, Control
<1> QED
  BY <1>5, <1>6, <1>7, <1>8, <1>9

LEMMA LoadFailIInv ==
  ASSUME IInv, NEW d \in Dirs, LoadFail(d)
  PROVE  IInv'
<1> USE DEF IInv
<1>1. UNCHANGED <<early, maker, chunk, wok, loaded, delivered, sent, fin, gone>>
  BY DEF LoadFail, peers
<1>2. /\ pump[d] = "loading" /\ pump' = [pump EXCEPT ![d] = "writing"]
      /\ rok' = [rok EXCEPT ![d] = FALSE]
      /\ gone[Sender(d)] \/ (fin[d] /\ loaded[d] = sent[d])
  BY DEF LoadFail
<1>3. Counts' /\ Texts' /\ InOrder'
  BY <1>1 DEF Counts, Texts, InOrder, Start
<1>4. Flags' /\ Control'
  BY <1>1, <1>2 DEF Flags, Control
<1>5. InHand' /\ Accounted'
  BY <1>1, <1>2 DEF Control, InHand, Accounted, Start
<1>6. Reasons'
  BY <1>1, <1>2 DEF Reasons, Ok, Flags, Control
<1> QED
  BY <1>3, <1>4, <1>5, <1>6

\* What a write delivers are the first k bytes in hand: they follow what was
\* delivered before.
LEMMA Delivers ==
  ASSUME IInv, NEW d \in Dirs, pump[d] = "writing",
         NEW k \in 0 .. Len(chunk[d]),
         UNCHANGED early,
         delivered' = [delivered EXCEPT ![d] = @ \o SubSeq(chunk[d], 1, k)]
  PROVE  /\ InOrder'
         /\ delivered' \in [Dirs -> Seq(Nat)]
         /\ Len(delivered'[d]) = Len(delivered[d]) + k
<1> USE DEF IInv
<1> DEFINE old == delivered[d]
           out == SubSeq(chunk[d], 1, k)
<1>1. /\ old \in Seq(Nat) /\ chunk[d] \in Seq(Nat)
      /\ Len(old) \in Nat /\ Len(chunk[d]) \in Nat
      /\ Start(d) \in Nat /\ loaded[d] \in Nat /\ k \in Nat
  BY StartNat DEF Texts, Counts
<1>2. out \in Seq(Nat) /\ Len(out) = k
  BY <1>1
<1>3. \A i \in 1 .. k : out[i] = Start(d) + Len(old) + i
  <2>1. Start(d) + Len(old) + Len(chunk[d]) = loaded[d]
    BY DEF Accounted
  <2>2. \A i \in 1 .. k : chunk[d][i] = loaded[d] - Len(chunk[d]) + i
    BY <1>1 DEF InHand
  <2>3. \A i \in 1 .. k : out[i] = chunk[d][i]
    BY <1>1
  <2> QED
    BY <1>1, <2>1, <2>2, <2>3
<1>4. delivered'[d] = old \o out
  BY DEF Texts
<1>5. \A i \in 1 .. Len(old) : old[i] = Start(d) + i
  BY DEF InOrder
<1> HIDE DEF old, out
<1>6. /\ old \o out \in Seq(Nat) /\ Len(old \o out) = Len(old) + k
      /\ \A i \in 1 .. Len(old \o out) : (old \o out)[i] = Start(d) + i
  BY <1>1, <1>2, <1>3, <1>5, Appended
<1>7. InOrder'
  <2>1. ASSUME NEW e \in Dirs, e # d
        PROVE  delivered'[e] = delivered[e]
    BY <2>1 DEF Texts
  <2>2. \A e \in Dirs : Start(e)' = Start(e)
    BY DEF Start
  <2> QED
    BY <1>4, <1>6, <2>1, <2>2, ZenonT(30) DEF InOrder
<1>8. delivered' \in [Dirs -> Seq(Nat)]
  BY <1>6 DEF Texts, old, out
<1> QED
  BY <1>4, <1>6, <1>7, <1>8 DEF old

\* A write that succeeds delivers all that is in hand.
LEMMA WriteIInv ==
  ASSUME IInv, NEW d \in Dirs, Write(d)
  PROVE  IInv'
<1> USE DEF IInv
<1>1. UNCHANGED <<early, maker, rok, wok, loaded, sent, fin, gone>>
  BY DEF Write, peers
<1>2. /\ pump[d] = "writing" /\ pump' = [pump EXCEPT ![d] = "check"]
      /\ chunk' = [chunk EXCEPT ![d] = <<>>]
      /\ delivered' = [delivered EXCEPT ![d] = @ \o chunk[d]]
  BY DEF Write
<1>3. chunk[d] \in Seq(Nat) /\ Len(chunk[d]) \in Nat
  BY DEF Texts
<1>4. chunk[d] = SubSeq(chunk[d], 1, Len(chunk[d]))
  BY <1>3, SubSeqFull
<1>4a. Len(chunk[d]) \in 0 .. Len(chunk[d])
  BY <1>3
<1>5. delivered' = [delivered EXCEPT ![d] =
                      @ \o SubSeq(chunk[d], 1, Len(chunk[d]))]
  BY <1>2, <1>4, Zenon
<1>6. /\ InOrder' /\ delivered' \in [Dirs -> Seq(Nat)]
      /\ Len(delivered'[d]) = Len(delivered[d]) + Len(chunk[d])
  BY <1>1, <1>2, <1>3, <1>5, <1>4a, Delivers
<1>7. chunk' \in [Dirs -> Seq(Nat)] /\ chunk'[d] = <<>>
  BY <1>2 DEF Texts
<1>8. Counts' /\ Flags' /\ Control' /\ Texts'
  BY <1>1, <1>2, <1>6, <1>7 DEF Counts, Flags, Control, Texts
<1>9. ASSUME NEW e \in Dirs, e # d
      PROVE  delivered'[e] = delivered[e] /\ chunk'[e] = chunk[e]
             /\ pump'[e] = pump[e]
  BY <1>2, <1>9 DEF Texts, Control
<1>10. InHand'
  BY <1>1, <1>2, <1>7, <1>9 DEF InHand
<1>11. Accounted'
  <2>1. Start(d) + Len(delivered[d]) + Len(chunk[d]) = loaded[d]
    BY <1>2 DEF Accounted
  <2>2. Start(d)' + Len(delivered'[d]) + Len(chunk'[d]) = loaded'[d]
    <3>1. Start(d) \in Nat /\ Len(delivered[d]) \in Nat /\ Start(d)' = Start(d)
      BY <1>1, StartNat DEF Texts, Start
    <3>2. Len(chunk'[d]) = 0
      BY <1>7
    <3>3. Len(delivered'[d]) = Len(delivered[d]) + Len(chunk[d])
      BY <1>6
    <3>4. loaded'[d] = loaded[d]
      BY <1>1
    <3>5. Start(d)' + Len(delivered'[d]) + Len(chunk'[d])
            = Start(d) + (Len(delivered[d]) + Len(chunk[d])) + 0
      BY <3>1, <3>2, <3>3, Zenon
    <3>6. Start(d) + (Len(delivered[d]) + Len(chunk[d])) + 0
            = Start(d) + Len(delivered[d]) + Len(chunk[d])
      <4>1. \A x, y, z \in Nat : x + (y + z) + 0 = x + y + z
        OBVIOUS
      <4> QED
        BY <1>3, <3>1, <4>1, Zenon
    <3> QED
      BY <2>1, <3>4, <3>5, <3>6, Zenon
  <2> QED
    BY <1>1, <1>9, <2>2 DEF Accounted, Start
<1>12. Reasons'
  BY <1>1, <1>2 DEF Reasons, Ok, Control
<1> QED
  BY <1>6, <1>8, <1>10, <1>11, <1>12

\* One that fails delivers a beginning of it, and the flag says so.
LEMMA WriteFailIInv ==
  ASSUME IInv, NEW d \in Dirs, NEW n \in 0 .. MaxChunk - 1, WriteFail(d, n)
  PROVE  IInv'
<1> USE DEF IInv
<1>1. UNCHANGED <<early, maker, rok, loaded, sent, fin, gone>>
  BY DEF WriteFail, peers
<1>2. /\ pump[d] = "writing" /\ pump' = [pump EXCEPT ![d] = "check"]
      /\ chunk' = [chunk EXCEPT ![d] = <<>>]
      /\ delivered' = [delivered EXCEPT ![d] = @ \o SubSeq(chunk[d], 1, n)]
      /\ wok' = [wok EXCEPT ![d] = FALSE]
      /\ n < Len(chunk[d])
  BY DEF WriteFail
<1>3. n \in 0 .. Len(chunk[d])
  BY <1>2, LengthAssumption DEF Texts
<1>4. InOrder' /\ delivered' \in [Dirs -> Seq(Nat)]
  BY <1>1, <1>2, <1>3, Delivers
<1>5. chunk' \in [Dirs -> Seq(Nat)] /\ chunk'[d] = <<>>
  BY <1>2 DEF Texts
<1>6. Counts' /\ Control' /\ Texts'
  BY <1>1, <1>2, <1>4, <1>5 DEF Counts, Control, Texts
<1>7. Flags'
  BY <1>1, <1>2 DEF Flags
<1>8. pump'[d] = "check" /\ ~wok'[d]
  BY <1>2 DEF Control, Flags
<1>9. ASSUME NEW e \in Dirs, e # d
      PROVE  delivered'[e] = delivered[e] /\ chunk'[e] = chunk[e]
             /\ pump'[e] = pump[e] /\ (wok'[e] <=> wok[e])
  BY <1>2, <1>9 DEF Texts, Control, Flags
<1>10. InHand'
  BY <1>1, <1>5, <1>8, <1>9, SMTT(30) DEF InHand
<1>11. Accounted'
  BY <1>1, <1>8, <1>9 DEF Accounted, Start
<1>12. Reasons'
  BY <1>1, <1>8, <1>9 DEF Reasons, Ok
<1> QED
  BY <1>4, <1>6, <1>7, <1>10, <1>11, <1>12

LEMMA StepIInv == IInv /\ [Next]_vars => IInv'
<1> SUFFICES ASSUME IInv, [Next]_vars
             PROVE  IInv'
  OBVIOUS
<1>1. ASSUME NEW d \in Dirs, Send(d) \/ HalfClose(d) \/ Leave(d)
      PROVE  IInv'
  BY <1>1, PeersIInv
<1>2. CASE ConnectFail \/ ConnectOk \/ ReplyOk \/ ReplyFail
  BY <1>2, MakerIInv
<1>3. ASSUME NEW d \in Dirs, Check(d)
      PROVE  IInv'
  BY <1>3, CheckIInv
<1>4. ASSUME NEW d \in Dirs, NEW n \in 1 .. MaxChunk, Load(d, n)
      PROVE  IInv'
  BY <1>4, LoadIInv
<1>5. ASSUME NEW d \in Dirs, LoadFail(d)
      PROVE  IInv'
  BY <1>5, LoadFailIInv
<1>6. ASSUME NEW d \in Dirs, Write(d)
      PROVE  IInv'
  BY <1>6, WriteIInv
<1>7. ASSUME NEW d \in Dirs, NEW n \in 0 .. MaxChunk - 1, WriteFail(d, n)
      PROVE  IInv'
  BY <1>7, WriteFailIInv
<1>8. CASE UNCHANGED vars
  BY <1>8 DEF vars, peers, IInv, Counts, Flags, Control, Texts, InHand,
              Accounted, Reasons, InOrder, Start, Ok
<1> QED
  BY <1>1, <1>2, <1>3, <1>4, <1>5, <1>6, <1>7, <1>8 DEF Next

\* The inductive invariant holds in every behaviour.
THEOREM Invariance == Spec => []IInv
  BY Initially, StepIInv, PTL DEF Spec

\* Type correctness.
THEOREM TypeCorrect == Spec => []TypeOK
<1>1. IInv => TypeOK
  <2> SUFFICES ASSUME IInv
               PROVE  TypeOK
    OBVIOUS
  <2>1. MaxEarly \in Nat
    BY LengthAssumption
  <2>2. early \in 0 .. MaxEarly
    BY <2>1 DEF IInv, Counts
  <2> QED
    BY <2>2 DEF IInv, Counts, Flags, Control, Texts, TypeOK
<1> QED
  BY <1>1, Invariance, PTL

\* Each receiver gets what its pump loaded, in order and once (tunnel.cpp:105
\* and 115), for streams and chunks of any length.
THEOREM DeliveredInOrder == Spec => []InOrder
<1>1. IInv => InOrder
  BY DEF IInv
<1> QED
  BY <1>1, Invariance, PTL

\* A pump whose sender ended cleanly and whose tunnel did not otherwise fail
\* has delivered everything but the bytes that came in with the CONNECT header
\* (tunnel.cpp:115-139): those are lost though nothing failed.
THEOREM OnlyEarlyBytesLost == Spec => []OnlyEarlyLost
<1>1. IInv => OnlyEarlyLost
  <2> SUFFICES ASSUME IInv, NEW d \in Dirs, NEW o \in Dirs,
                      o = (CHOOSE x \in Dirs : x # d),
                      pump[d] = "ended", ~gone[Sender(d)],
                      wok[d], wok[o], rok[o]
               PROVE  /\ fin[d]
                      /\ delivered[d] =
                           [i \in 1 .. sent[d] - Start(d) |-> Start(d) + i]
    <3>1. \A x \in Dirs : (CHOOSE y \in Dirs : y # x) \in Dirs
      BY DEF Dirs
    <3> QED
      BY <3>1 DEF OnlyEarlyLost
  <2> USE DEF IInv
  <2>1. o # d /\ \A x \in Dirs : x = d \/ x = o
    <3>1. \E x \in Dirs : x # d
      BY DEF Dirs
    <3>2. o # d
      BY <3>1
    <3> QED
      BY <3>2 DEF Dirs
  <2>2. ~rok[d]
    BY <2>1 DEF Reasons, Ok
  <2>3. fin[d] /\ loaded[d] = sent[d]
    BY <2>2 DEF Reasons
  <2>4. chunk[d] = <<>>
    BY DEF InHand
  <2>5. Start(d) + Len(delivered[d]) + Len(chunk[d]) = loaded[d]
    BY DEF Accounted
  <2>6. Start(d) \in Nat /\ Len(delivered[d]) \in Nat /\ sent[d] \in Nat
    BY StartNat DEF Texts, Counts
  <2>7. Len(delivered[d]) = sent[d] - Start(d)
    BY <2>3, <2>4, <2>5, <2>6
  <2>8. delivered[d] = [i \in 1 .. Len(delivered[d]) |-> delivered[d][i]]
    <3>1. delivered[d] \in Seq(Nat)
      BY DEF Texts
    <3> QED
      BY <3>1
  <2>9. \A i \in 1 .. Len(delivered[d]) : delivered[d][i] = Start(d) + i
    BY DEF InOrder
  <2> QED
    BY <2>3, <2>7, <2>8, <2>9
<1> QED
  BY <1>1, Invariance, PTL
=============================================================================
