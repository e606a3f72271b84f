---------------------------- MODULE StreamsProofs ----------------------------
(* What the programs beside the streaming process promise, for every size of   *)
(* their blocks, rings and slots, however long they run: an inductive           *)
(* invariant for each of them, its preservation step by step, and the           *)
(* properties read off it.                                                      *)
EXTENDS UdpSender, Ad936xTcp, LegacyRx, AxiLite, RingLemmas, SequenceTheorems
-----------------------------------------------------------------------------
(* A ring somebody else writes, as both servers see it. *)

\* The last size positions of w written ones are in the ring f, each at its place.
Written(f, w, size) == \A p \in 0 .. w - 1 : p >= w - size => f[p % size] = p + 1

\* The next one goes over what was there a ring ago.
LEMMA WrittenNext ==
  ASSUME NEW size \in Nat, size > 0, NEW f \in [0 .. size - 1 -> Nat], NEW w \in Nat,
         Written(f, w, size)
  PROVE  /\ [f EXCEPT ![w % size] = w + 1] \in [0 .. size - 1 -> Nat]
         /\ Written([f EXCEPT ![w % size] = w + 1], w + 1, size)
<1>1. w % size \in 0 .. size - 1
  BY DivMod
<1>2. SUFFICES ASSUME NEW p \in 0 .. w, p >= (w + 1) - size
               PROVE  [f EXCEPT ![w % size] = w + 1][p % size] = p + 1
  BY <1>1 DEF Written
<1>3. p \in Int /\ p % size \in 0 .. size - 1
  BY DivMod
<1>4. CASE p = w
  BY <1>1, <1>4
<1>5. CASE p < w
  <2>1. w - p < size /\ p \in Int /\ w \in Int
    BY <1>2, <1>3
  <2>2. p % size # w % size
    BY <1>5, <2>1, ModDiffer
  <2>3. f[p % size] = p + 1
    BY <1>2, <1>3, <1>5 DEF Written
  <2> QED
    BY <1>1, <1>3, <2>2, <2>3
<1> QED
  BY <1>3, <1>4, <1>5

\* What a reader at place x counts between itself and the writer: the true distance, and 0
\* when the writer is exactly a ring ahead.
LEMMA CountedDistance ==
  ASSUME NEW size \in Nat, size > 0, NEW x \in Nat, NEW w \in Nat, NEW p,
         At(x, p, size), x <= w, w - x <= size
  PROVE  /\ Ahead(p, w % size, size) \in Nat
         /\ Ahead(p, w % size, size) = w - x \/ Ahead(p, w % size, size) = 0
<1>1. w % size \in 0 .. size - 1 /\ p \in 0 .. size - 1
  BY DivMod DEF At
<1>2. At(w, w % size, size)
  BY <1>1 DEF At
<1>3. Ahead(p, w % size, size) \in Nat
  BY <1>1 DEF Ahead
<1>4. CASE w - x < size
  <2>1. On(x, p, size) /\ On(w, w % size, size)
    BY <1>2, AtOn
  <2>2. Ahead(p, w % size, size) = w - x
    BY <1>4, <2>1, AheadExact
  <2> QED
    BY <1>3, <2>2
<1>5. CASE w - x = size
  <2>1. \E k \in Int : w = x + k * size
    <3>1. w = x + 1 * size
      BY <1>5
    <3> QED
      BY <3>1
  <2>2. w % size = x % size
    <3>1. w \in Int /\ x \in Int
      OBVIOUS
    <3> QED
      BY <2>1, <3>1, ModSame
  <2>3. w % size = p
    BY <2>2 DEF At
  <2> QED
    BY <1>1, <1>3, <2>3 DEF Ahead
<1> QED
  BY <1>4, <1>5

\* Two positions as far apart as their places are, but for a round.
LEMMA Follows ==
  ASSUME NEW size \in Nat, NEW x \in Int, NEW p, At(x, p, size),
         NEW y \in Int, NEW q \in 0 .. size - 1,
         y - q = x - p \/ y - q = (x - p) + size \/ y - q = (x - p) - size
  PROVE  At(y, q, size)
<1>1. PICK k \in Int : x = p + k * size /\ p \in 0 .. size - 1
  <2>1. On(x, p, size)
    BY AtOn
  <2> QED
    BY <2>1 DEF On
<1>2. PICK e \in {0, 1, -1} : y - q = (x - p) + e * size
  <2>1. p \in Int /\ q \in Int /\ size \in Int
    BY <1>1
  <2>2. 0 * size = 0 /\ 1 * size = size /\ (-1) * size = -size
    BY <2>1
  <2>3. y - q = (x - p) + 0 * size \/ y - q = (x - p) + 1 * size \/ y - q = (x - p) + (-1) * size
    BY <2>1, <2>2
  <2> QED
    BY <2>3
<1>3. (k + e) * size = k * size + e * size /\ k * size \in Int /\ e * size \in Int
      /\ (k + e) * size \in Int
  BY MulDist
<1>4. y = q + (k + e) * size
  BY <1>1, <1>2, <1>3
<1>5. On(y, q, size)
  BY <1>4 DEF On
<1> QED
  BY <1>5, AtOn
-----------------------------------------------------------------------------
(* The UDP sender. *)

Bytes == Nat \X Nat

UdpTypeOK ==
  /\ session \in Nat /\ next \in 0 .. MaxUdpBlocks + 1 /\ upc \in {"run", "sendmmsg", "read"}
  /\ wrap \in Seq(Bytes) /\ wrap0 \in Seq(Bytes) /\ got \in Seq(Bytes) /\ wire \in Seq(Bytes)
  /\ short \in BOOLEAN /\ before \in {"none", "sendmmsg", "read"}

\* A failed send leaves nothing carried, so what is carried in the session after it is its
\* own.
OwnBytesCarried ==
  /\ upc = "sendmmsg" => wrap = <<>>
  /\ before = "sendmmsg" => \A j \in DOMAIN wrap : wrap[j][1] = session

UdpInv ==
  /\ UdpTypeOK /\ CarryFits /\ BytesConserved /\ OwnBytesAfterFailedSend /\ OwnBytesCarried

\* What the assumption says of the sizes.
LEMMA UdpSizes ==
  /\ B \in Nat /\ D \in Nat /\ M \in Nat /\ MaxUdpBlocks \in Nat
  /\ B > 0 /\ D > 0 /\ M > 0 /\ D <= B /\ (B + D - 1) \div D <= M
  BY UdpAssumption

\* As many whole datagrams as fit are no more than the quotient.
LEMMA QuotientBounds ==
  ASSUME NEW q \in Int, NEW x \in Nat, q * D <= x
  PROVE  q <= x \div D
<1> USE UdpSizes
<1>1. PICK e \in Int : e = x \div D /\ x < (e + 1) * D
  <2>1. PICK e \in Int, r \in 0 .. D - 1 : e = x \div D /\ x = e * D + r
    BY DivMod
  <2>2. (e + 1) * D = e * D + 1 * D /\ e * D \in Int
    BY MulDist
  <2>3. x < (e + 1) * D
    BY <2>1, <2>2
  <2> QED
    BY <2>1, <2>3
<1>2. q * D < (e + 1) * D /\ e + 1 \in Int
  <2>1. q * D \in Int /\ (e + 1) * D \in Int
    BY MulDist
  <2> QED
    BY <1>1, <2>1
<1>3. q < e + 1
  BY <1>2, MulCancel
<1> QED
  BY <1>1, <1>3

\* What follows the head of the first message is the rest of the bytes to send; the head has
\* a datagram of them.
LEMMA HeadAndRest ==
  ASSUME NEW w \in Seq(Bytes), Len(w) < D, NEW data \in Seq(Bytes), Len(data) = B
  PROVE  LET s == w \o data
             head == WrapMsg(w, data)
             rest == Rest(head, w, data)
         IN  /\ head \in Seq(Seq(Bytes)) /\ Len(head) \in {0, 1}
             /\ Len(head) = 1 => Len(head[1]) = D /\ \A r \in 1 .. D : head[1][r] = s[r]
             /\ rest \in Seq(Bytes) /\ Len(rest) = Len(s) - Len(head) * D
             /\ \A i \in 1 .. Len(rest) : rest[i] = s[Len(head) * D + i]
             /\ Len(s) = Len(w) + B /\ Len(w) \in Nat /\ (Len(head) = 1 <=> Len(w) > 0)
<1> USE UdpSizes
<1> DEFINE s == w \o data
           head == WrapMsg(w, data)
           rest == Rest(head, w, data)
<1>1. /\ Len(s) = Len(w) + B /\ Len(w) \in Nat
      /\ \A i \in 1 .. Len(w) + B : s[i] = IF i <= Len(w) THEN w[i] ELSE data[i - Len(w)]
  <2>1. /\ Len(w \o data) = Len(w) + Len(data) /\ Len(w) \in Nat
        /\ \A i \in 1 .. Len(w) + Len(data) :
             (w \o data)[i] = IF i <= Len(w) THEN w[i] ELSE data[i - Len(w)]
    BY ConcatProperties, LenProperties
  <2> QED
    BY <2>1
<1> HIDE DEF s
<1>2. CASE w = <<>>
  <2>1. head = <<>> /\ Len(w) = 0
    BY <1>2 DEF WrapMsg
  <2>2. rest = SubSeq(data, 1, Len(data))
    BY <2>1 DEF Rest
  <2> HIDE DEF head, rest
  <2>3. rest = data
    BY <2>2, SubSeqFull
  <2>4. \A i \in 1 .. B : s[i] = data[i]
    BY <1>1, <2>1
  <2>5. head \in Seq(Seq(Bytes)) /\ Len(head) = 0
    BY <2>1
  <2>6. Len(rest) = Len(s) - 0 * D /\ \A i \in 1 .. Len(rest) : rest[i] = s[0 * D + i]
    BY <1>1, <2>1, <2>3, <2>4
  <2> QED
    BY <1>1, <2>1, <2>3, <2>5, <2>6 DEF head, rest, s
<1>3. CASE w # <<>>
  <2>1. Len(w) > 0
    BY <1>1, <1>3, EmptySeq
  <2> DEFINE fill == SubSeq(data, 1, D - Len(w))
  <2>2. head = <<w \o fill>>
    BY <1>3 DEF WrapMsg
  <2>7. rest = SubSeq(data, D - Len(w) + 1, Len(data))
    BY <2>2 DEF Rest
  <2> HIDE DEF head, rest
  <2>3. /\ fill \in Seq(Bytes) /\ Len(fill) = D - Len(w)
        /\ \A i \in 1 .. D - Len(w) : fill[i] = data[i]
    <3>1. \A i \in 1 .. D - Len(w) : data[i] \in Bytes
      BY <1>1
    <3> QED
      BY <1>1, <3>1, SubSeqProperties
  <2> HIDE DEF fill
  <2>4. /\ w \o fill \in Seq(Bytes) /\ Len(w \o fill) = D
        /\ \A r \in 1 .. D : (w \o fill)[r] = IF r <= Len(w) THEN w[r] ELSE fill[r - Len(w)]
    <3>1. Len(w) + Len(fill) = D
      BY <1>1, <2>3
    <3> QED
      BY <2>3, <3>1, ConcatProperties
  <2>5. \A r \in 1 .. D : (w \o fill)[r] = s[r]
    BY <1>1, <2>3, <2>4
  <2>6. head \in Seq(Seq(Bytes)) /\ Len(head) = 1 /\ head[1] = w \o fill
    <3>1. PICK x \in Seq(Bytes) : x = w \o fill
      BY <2>4
    <3>2. head = <<x>>
      BY <2>2, <3>1
    <3>3. <<x>> \in Seq(Seq(Bytes)) /\ Len(<<x>>) = 1 /\ <<x>>[1] = x
      OBVIOUS
    <3> QED
      BY <3>1, <3>2, <3>3
  <2>8. /\ rest \in Seq(Bytes) /\ Len(rest) = Len(s) - 1 * D
        /\ \A i \in 1 .. Len(rest) : rest[i] = data[D - Len(w) + i]
    <3>1. PICK m \in Int : m = D - Len(w) + 1 /\ m >= 1 /\ m <= B
      <4>1. D - Len(w) + 1 \in Int /\ D - Len(w) + 1 >= 1 /\ D - Len(w) + 1 <= B
        BY <1>1, <2>1
      <4> QED
        BY <4>1
    <3>2. \A i \in m .. B : data[i] \in Bytes
      BY <3>1
    <3>3. /\ SubSeq(data, m, B) \in Seq(Bytes)
          /\ Len(SubSeq(data, m, B)) = B - m + 1
          /\ \A i \in 1 .. B - m + 1 : SubSeq(data, m, B)[i] = data[m + i - 1]
      BY <3>1, <3>2, SubSeqProperties
    <3> QED
      BY <1>1, <2>7, <3>1, <3>3
  <2>9. ASSUME NEW i \in 1 .. Len(rest)
        PROVE  rest[i] = s[1 * D + i]
    <3>1. 1 * D + i \in 1 .. Len(w) + B /\ ~(1 * D + i <= Len(w)) /\ (1 * D + i) - Len(w) = D - Len(w) + i
      BY <1>1, <2>1, <2>8
    <3>2. s[1 * D + i] = data[(1 * D + i) - Len(w)]
      BY <1>1, <3>1
    <3> QED
      BY <2>8, <3>1, <3>2
  <2>10. Len(head[1]) = D /\ \A r \in 1 .. D : head[1][r] = s[r]
    BY <2>4, <2>5, <2>6
  <2> QED
    BY <1>1, <2>1, <2>6, <2>8, <2>9, <2>10 DEF head, rest, s
<1> QED
  BY <1>2, <1>3

\* 64 messages are enough: the block is cut until less than a datagram is left.
LEMMA MessagesSuffice ==
  ASSUME NEW w \in Nat, w < D, NEW h \in {0, 1}, h = 1 <=> w > 0, NEW x \in Nat, x = w + B - h * D
  PROVE  Least(x \div D, M - h) = x \div D
<1> USE UdpSizes
<1>1. PICK q \in Nat : q = x \div D /\ q * D <= x /\ q * D \in Nat
  BY DivNat
<1>2. (q + h) * D = q * D + h * D /\ h * D = (IF h = 1 THEN D ELSE 0)
  BY MulDist
<1>3. (q + h) * D <= B + D - 1
  BY <1>1, <1>2
<1>4. q + h <= (B + D - 1) \div D
  <2>1. q + h \in Int /\ B + D - 1 \in Nat
    OBVIOUS
  <2> QED
    BY <1>3, <2>1, QuotientBounds
<1>5. (B + D - 1) \div D \in Int
  BY DivMod
<1>6. q <= M - h
  BY <1>4, <1>5
<1> QED
  BY <1>1, <1>6 DEF Least

\* The messages of a call are the carried and the new bytes, datagram by datagram, and what
\* is left over follows them.
LEMMA CutWhole ==
  ASSUME NEW w \in Seq(Bytes), Len(w) < D, NEW data \in Seq(Bytes), Len(data) = B
  PROVE  LET s == w \o data
             msgs == Msgs(w, data)
             left == Leftover(w, data)
         IN  /\ s \in Seq(Bytes) /\ Len(msgs) \in Nat
             /\ Len(msgs) * D \in Nat /\ Len(msgs) * D <= Len(s)
             /\ \A i \in 1 .. Len(msgs) : \A r \in 1 .. D : msgs[i][r] = s[(i - 1) * D + r]
             /\ left \in Seq(Bytes) /\ Len(left) = Len(s) - Len(msgs) * D /\ Len(left) < D
             /\ \A i \in 1 .. Len(left) : left[i] = s[Len(msgs) * D + i]
<1> USE UdpSizes
<1> DEFINE s == w \o data
           msgs == Msgs(w, data)
           left == Leftover(w, data)
           head == WrapMsg(w, data)
           rest == Rest(head, w, data)
           bm == BlockMsgs(head, rest)
<1>3. /\ head \in Seq(Seq(Bytes)) /\ Len(head) \in {0, 1}
      /\ Len(head) = 1 => Len(head[1]) = D /\ \A r \in 1 .. D : head[1][r] = s[r]
      /\ rest \in Seq(Bytes) /\ Len(rest) = Len(s) - Len(head) * D
      /\ \A i \in 1 .. Len(rest) : rest[i] = s[Len(head) * D + i]
      /\ Len(s) = Len(w) + B /\ Len(w) \in Nat /\ (Len(head) = 1 <=> Len(w) > 0)
  BY HeadAndRest
<1>1. msgs = head \o bm /\ left = SubSeq(rest, D * Len(bm) + 1, Len(rest))
  BY DEF Msgs, Leftover
<1>2. s \in Seq(Bytes)
  BY ConcatProperties
<1> HIDE DEF head, rest, s, msgs, left
<1>4. Len(rest) \in Nat /\ \A i \in 1 .. Len(rest) : rest[i] \in Bytes
  BY <1>3
<1>5. PICK q \in Nat : q = Len(rest) \div D /\ q * D <= Len(rest) /\ q * D \in Nat
  BY <1>4, DivNat
<1>6. Len(rest) < q * D + D
  BY <1>4, <1>5, DivMod
<1>8. bm = [j \in 1 .. q |-> SubSeq(rest, (j - 1) * D + 1, j * D)]
  <2>1. PICK h \in {0, 1} : h = Len(head)
    BY <1>3
  <2>2. PICK n \in Nat : n = Len(w)
    BY <1>3
  <2>3. PICK x \in Nat : x = Len(rest)
    BY <1>4
  <2>4. x = n + B - h * D /\ (h = 1 <=> n > 0) /\ n < D
    BY <1>3, <2>1, <2>2, <2>3
  <2>5. Least(x \div D, M - h) = x \div D
    BY <2>4, MessagesSuffice
  <2>6. bm = [j \in 1 .. Least(x \div D, M - h) |-> SubSeq(rest, (j - 1) * D + 1, j * D)]
    BY <2>1, <2>3 DEF BlockMsgs
  <2> QED
    BY <1>5, <2>3, <2>5, <2>6
<1> HIDE DEF bm
<1>9. ASSUME NEW j \in 1 .. q
      PROVE  /\ bm[j] \in Seq(Bytes)
             /\ \A r \in 1 .. D : bm[j][r] = rest[(j - 1) * D + r] /\ (j - 1) * D + r \in 1 .. Len(rest)
  <2>1. PICK a \in Int, b \in Int :
          a = (j - 1) * D + 1 /\ b = j * D /\ b = a + D - 1 /\ a >= 1 /\ b <= Len(rest)
    <3>1. (j - 1) * D = j * D - 1 * D /\ j * D \in Int /\ (j - 1) * D \in Int
      BY MulDist
    <3>2. j * D <= q * D /\ 0 * D <= (j - 1) * D
      BY MulMono
    <3>3. (j - 1) * D + 1 \in Int /\ j * D = ((j - 1) * D + 1) + D - 1 /\ (j - 1) * D + 1 >= 1
          /\ j * D <= Len(rest)
      BY <1>4, <1>5, <3>1, <3>2
    <3> QED
      BY <3>1, <3>3
  <2>2. bm[j] = SubSeq(rest, a, b)
    <3>1. bm[j] = SubSeq(rest, (j - 1) * D + 1, j * D)
      BY <1>8, Zenon
    <3> QED
      BY <2>1, <3>1
  <2>3. ASSUME NEW i \in a .. b
        PROVE  rest[i] \in Bytes
    <3>1. a >= 1 /\ b <= Len(rest)
      BY <2>1
    <3>2. i \in 1 .. Len(rest)
      BY <1>4, <3>1
    <3> QED
      BY <1>4, <3>2
  <2>4. /\ SubSeq(rest, a, b) \in Seq(Bytes)
        /\ \A i \in 1 .. b - a + 1 : SubSeq(rest, a, b)[i] = rest[a + i - 1]
    BY <2>1, <2>3, SubSeqProperties
  <2>5. ASSUME NEW r \in 1 .. D
        PROVE  bm[j][r] = rest[(j - 1) * D + r] /\ (j - 1) * D + r \in 1 .. Len(rest)
    <3>1. r \in 1 .. b - a + 1 /\ a + r - 1 \in 1 .. Len(rest) /\ a + r - 1 = (j - 1) * D + r
      <4>1. PICK e \in Int : e = (j - 1) * D
        BY MulDist
      <4>2. a = e + 1 /\ b = a + D - 1 /\ a >= 1 /\ b <= Len(rest)
        BY <2>1, <4>1
      <4>3. r \in 1 .. b - a + 1 /\ a + r - 1 \in 1 .. Len(rest) /\ a + r - 1 = e + r
        BY <1>4, <4>2
      <4> QED
        BY <4>1, <4>3
    <3>2. SubSeq(rest, a, b)[r] = rest[a + r - 1]
      BY <2>4, <3>1
    <3> QED
      BY <2>2, <3>1, <3>2
  <2> QED
    BY <2>2, <2>4, <2>5
<1>10. bm \in Seq(Seq(Bytes)) /\ Len(bm) = q
  <2>1. bm \in [1 .. q -> Seq(Bytes)]
    BY <1>8, <1>9
  <2> QED
    BY <2>1
<1>12. /\ Len(msgs) = Len(head) + q
       /\ \A i \in 1 .. Len(head) + q : msgs[i] = IF i <= Len(head) THEN head[i] ELSE bm[i - Len(head)]
  <2>1. head \in Seq(Seq(Bytes)) /\ bm \in Seq(Seq(Bytes))
    BY <1>3, <1>10
  <2>2. /\ Len(head \o bm) = Len(head) + Len(bm)
        /\ \A i \in 1 .. Len(head) + Len(bm) :
             (head \o bm)[i] = IF i <= Len(head) THEN head[i] ELSE bm[i - Len(head)]
    BY <2>1, ConcatProperties
  <2> QED
    BY <1>1, <1>10, <2>2
<1>13. PICK h \in {0, 1} : h = Len(head) /\ (h = 0 \/ h = 1)
  BY <1>3
<1>14. /\ (h + q) * D = h * D + q * D /\ (h + q) * D \in Nat /\ Len(msgs) = h + q
       /\ h * D = (IF h = 1 THEN D ELSE 0)
  <2>1. (h + q) * D = h * D + q * D
    BY MulDist
  <2>2. h * D = (IF h = 1 THEN D ELSE 0)
    OBVIOUS
  <2> QED
    BY <1>5, <1>12, <1>13, <2>1, <2>2
<1>15. ASSUME NEW i \in 1 .. Len(msgs), NEW r \in 1 .. D
       PROVE  msgs[i][r] = s[(i - 1) * D + r]
  <2>1. CASE i <= h
    <3>1. i = 1 /\ h = 1 /\ (i - 1) * D + r = r
      BY <1>13, <2>1
    <3>2. msgs[i] = head[1]
      BY <1>12, <1>13, <1>14, <2>1, <3>1
    <3> QED
      BY <1>3, <1>13, <3>1, <3>2
  <2>2. CASE i > h
    <3>1. PICK j \in 1 .. q : j = i - h /\ i = j + h
      <4>1. i - h \in 1 .. q /\ i = (i - h) + h
        BY <1>14, <2>2
      <4> QED
        BY <4>1
    <3>2. msgs[i] = bm[j]
      BY <1>12, <1>13, <1>14, <2>2, <3>1
    <3>3. bm[j][r] = rest[(j - 1) * D + r] /\ (j - 1) * D + r \in 1 .. Len(rest)
      BY <1>9
    <3>4. rest[(j - 1) * D + r] = s[h * D + ((j - 1) * D + r)]
      BY <1>3, <1>13, <3>3
    <3>5. h * D + ((j - 1) * D + r) = (i - 1) * D + r
      <4>1. (h + (j - 1)) * D = h * D + (j - 1) * D /\ h * D \in Int /\ (j - 1) * D \in Int
        BY MulDist
      <4>2. h + (j - 1) = i - 1
        BY <3>1
      <4> QED
        BY <4>1, <4>2
    <3> QED
      BY <3>2, <3>3, <3>4, <3>5
  <2> QED
    BY <2>1, <2>2
<1>16. /\ left \in Seq(Bytes) /\ Len(left) = Len(rest) - q * D
       /\ \A i \in 1 .. Len(left) : left[i] = rest[q * D + i]
  <2>1. PICK a \in Nat : a = q * D /\ a = D * Len(bm) /\ a <= Len(rest)
    BY <1>5, <1>10
  <2>2. left = SubSeq(rest, a + 1, Len(rest))
    BY <1>1, <2>1
  <2>3. ASSUME NEW i \in a + 1 .. Len(rest)
        PROVE  rest[i] \in Bytes
    <3>1. i \in 1 .. Len(rest)
      BY <1>4
    <3> QED
      BY <1>4, <3>1
  <2>4. /\ SubSeq(rest, a + 1, Len(rest)) \in Seq(Bytes)
        /\ Len(SubSeq(rest, a + 1, Len(rest))) =
             IF a + 1 <= Len(rest) THEN Len(rest) - (a + 1) + 1 ELSE 0
        /\ \A i \in 1 .. Len(rest) - (a + 1) + 1 :
             SubSeq(rest, a + 1, Len(rest))[i] = rest[(a + 1) + i - 1]
    <3>1. a + 1 \in Int /\ Len(rest) \in Int
      BY <1>4
    <3> QED
      BY <2>3, <3>1, SubSeqProperties
  <2>5. left \in Seq(Bytes) /\ Len(left) = Len(rest) - a
    <3>1. PICK n \in Nat : n = Len(rest) /\ a <= n
      BY <1>4, <2>1
    <3>2. (IF a + 1 <= n THEN n - (a + 1) + 1 ELSE 0) = n - a
      BY <3>1
    <3>3. Len(left) = n - a
      BY <2>2, <2>4, <3>1, <3>2
    <3> QED
      BY <2>2, <2>4, <3>1, <3>3
  <2>6. ASSUME NEW i \in 1 .. Len(left)
        PROVE  left[i] = rest[a + i]
    <3>1. i \in 1 .. Len(rest) - (a + 1) + 1 /\ (a + 1) + i - 1 = a + i
      BY <1>4, <2>5
    <3> QED
      BY <2>2, <2>4, <3>1
  <2> QED
    BY <2>1, <2>5, <2>6
<1>17. Len(left) = Len(s) - (h + q) * D /\ Len(left) < D /\ (h + q) * D <= Len(s)
  <2>1. PICK a \in Nat, e \in Nat : a = q * D /\ e = h * D
    BY <1>5, <1>14
  <2>2. PICK n \in Nat, m \in Nat, g \in Int : n = Len(rest) /\ m = Len(s) /\ g = (h + q) * D
    BY <1>2, <1>4, <1>14
  <2>3. Len(left) = n - a
    BY <1>16, <2>1, <2>2
  <2>4. n = m - e
    BY <1>3, <1>13, <2>1, <2>2
  <2>5. n < a + D /\ a <= n
    BY <1>5, <1>6, <2>1, <2>2
  <2>6. g = e + a
    BY <1>14, <2>1, <2>2
  <2>7. Len(left) = m - g /\ Len(left) < D /\ g <= m
    BY <2>3, <2>4, <2>5, <2>6
  <2> QED
    BY <2>2, <2>7
<1>18. ASSUME NEW i \in 1 .. Len(left)
       PROVE  left[i] = s[(h + q) * D + i]
  <2>1. PICK a \in Nat, e \in Nat : a = q * D /\ e = h * D /\ (h + q) * D = e + a
    BY <1>5, <1>14
  <2>2. left[i] = rest[a + i] /\ Len(left) = Len(rest) - a
    BY <1>16, <2>1
  <2>3. a + i \in 1 .. Len(rest)
    BY <1>4, <2>2
  <2>4. rest[a + i] = s[e + (a + i)]
    BY <1>3, <1>13, <2>1, <2>3
  <2>5. e + (a + i) = (h + q) * D + i
    BY <2>1
  <2> QED
    BY <2>2, <2>4, <2>5
<1>19. /\ s \in Seq(Bytes) /\ Len(msgs) \in Nat
       /\ Len(msgs) * D \in Nat /\ Len(msgs) * D <= Len(s)
       /\ left \in Seq(Bytes) /\ Len(left) = Len(s) - Len(msgs) * D /\ Len(left) < D
       /\ \A i \in 1 .. Len(left) : left[i] = s[Len(msgs) * D + i]
  <2>1. PICK m \in Nat : m = h + q /\ m = Len(msgs)
    BY <1>13, <1>14
  <2>2. m * D \in Nat /\ m * D <= Len(s) /\ Len(left) = Len(s) - m * D /\ Len(left) < D
    BY <1>14, <1>17, <2>1
  <2>3. \A i \in 1 .. Len(left) : left[i] = s[m * D + i]
    BY <1>18, <2>1
  <2> QED
    BY <1>2, <1>16, <2>1, <2>2, <2>3
<1> QED
  BY <1>15, <1>19 DEF s, msgs, left
\* What the socket takes of the first k messages are the first k datagrams of the bytes.
LEMMA TakenIs ==
  ASSUME NEW w \in Seq(Bytes), Len(w) < D, NEW data \in Seq(Bytes), Len(data) = B,
         NEW k \in 0 .. Len(Msgs(w, data))
  PROVE  LET s == w \o data
             t == Taken(Msgs(w, data), k)
         IN  /\ k * D \in Nat /\ k * D <= Len(s)
             /\ t \in Seq(Bytes) /\ Len(t) = k * D /\ \A j \in 1 .. k * D : t[j] = s[j]
<1> USE UdpSizes
<1> DEFINE s == w \o data
           msgs == Msgs(w, data)
           t == Taken(msgs, k)
<1>1. /\ s \in Seq(Bytes) /\ Len(msgs) \in Nat
      /\ Len(msgs) * D \in Nat /\ Len(msgs) * D <= Len(s)
      /\ \A i \in 1 .. Len(msgs) : \A r \in 1 .. D : msgs[i][r] = s[(i - 1) * D + r]
  BY CutWhole
<1>2. t = [j \in 1 .. k * D |-> msgs[((j - 1) \div D) + 1][((j - 1) % D) + 1]]
  BY DEF Taken
<1> HIDE DEF s, msgs, t
<1>3. k \in Nat /\ k <= Len(msgs)
  BY <1>1 DEF msgs
<1>4. PICK e \in Nat : e = k * D /\ e <= Len(s)
  <2>1. k * D <= Len(msgs) * D /\ 0 * D <= k * D /\ k * D \in Int
    <3>1. PICK m \in Int : m = Len(msgs)
      BY <1>1
    <3>2. k * D <= m * D
      BY <1>3, <3>1, MulMono
    <3>3. 0 * D <= k * D
      BY <1>3, MulMono
    <3>4. k * D \in Int
      BY <1>3, MulDist
    <3> QED
      BY <3>1, <3>2, <3>3, <3>4
  <2>2. 0 * D = 0
    OBVIOUS
  <2>3. PICK z \in Int : z = k * D
    BY <2>1
  <2>4. Len(s) \in Nat /\ z >= 0 /\ z <= Len(s)
    BY <1>1, <2>1, <2>2, <2>3
  <2> QED
    BY <2>3, <2>4
<1>5. ASSUME NEW j \in 1 .. e
      PROVE  t[j] = s[j] /\ s[j] \in Bytes
  <2>1. PICK i \in Int, r \in 0 .. D - 1 : i = (j - 1) \div D /\ r = (j - 1) % D /\ j - 1 = i * D + r
    BY DivMod
  <2>2. i \in Nat /\ i < k
    <3>1. i * D \in Int /\ (i + 1) * D = i * D + 1 * D
      BY MulDist
    <3>2. PICK z \in Int : z = i * D
      BY <3>1
    <3>3. z < e /\ -D < z
      BY <2>1, <3>2
    <3>4. i * D < k * D /\ (-1) * D < i * D
      BY <1>4, <3>2, <3>3
    <3>5. -1 < i /\ i < k
      BY <1>3, <3>4, MulCancel
    <3> QED
      BY <3>5
  <2>3. i + 1 \in 1 .. Len(msgs) /\ r + 1 \in 1 .. D /\ (i + 1) - 1 = i
    BY <1>1, <1>3, <2>2
  <2>4. msgs[i + 1][r + 1] = s[((i + 1) - 1) * D + (r + 1)]
    BY <1>1, <2>3
  <2>5. i * D + (r + 1) = j
    <3>1. PICK z \in Int : z = i * D
      BY MulDist
    <3>2. j - 1 = z + r
      BY <2>1, <3>1
    <3>3. z + (r + 1) = j
      BY <3>2
    <3> QED
      BY <3>1, <3>3
  <2>6. t[j] = msgs[i + 1][r + 1]
    BY <1>2, <1>4, <2>1
  <2>7. s[j] \in Bytes
    BY <1>1, <1>4
  <2> QED
    BY <2>3, <2>4, <2>5, <2>6, <2>7
<1>6. t \in Seq(Bytes) /\ Len(t) = e
  <2>1. t = [j \in 1 .. e |-> t[j]]
    BY <1>2, <1>4
  <2>2. t \in [1 .. e -> Bytes]
    BY <1>5, <2>1
  <2> QED
    BY <1>4, <2>2
<1>7. /\ k * D \in Nat /\ k * D <= Len(s)
      /\ t \in Seq(Bytes) /\ Len(t) = k * D /\ \A j \in 1 .. k * D : t[j] = s[j]
  BY <1>4, <1>5, <1>6
<1> QED
  BY <1>7 DEF s, t, msgs

\* All the messages and what is left over are the carried and the new bytes, in order.
LEMMA NothingLost ==
  ASSUME NEW w \in Seq(Bytes), Len(w) < D, NEW data \in Seq(Bytes), Len(data) = B
  PROVE  Taken(Msgs(w, data), Len(Msgs(w, data))) \o Leftover(w, data) = w \o data
<1> USE UdpSizes
<1> DEFINE s == w \o data
           msgs == Msgs(w, data)
           left == Leftover(w, data)
           t == Taken(msgs, Len(msgs))
<1>1. /\ s \in Seq(Bytes) /\ Len(msgs) \in Nat
      /\ left \in Seq(Bytes) /\ Len(left) = Len(s) - Len(msgs) * D
      /\ \A i \in 1 .. Len(left) : left[i] = s[Len(msgs) * D + i]
  BY CutWhole
<1>2. /\ Len(msgs) * D \in Nat /\ Len(msgs) * D <= Len(s)
      /\ t \in Seq(Bytes) /\ Len(t) = Len(msgs) * D
      /\ \A j \in 1 .. Len(msgs) * D : t[j] = s[j]
  <2>1. Len(msgs) \in 0 .. Len(Msgs(w, data))
    BY <1>1
  <2> HIDE DEF s, msgs, left
  <2>2. PICK k \in 0 .. Len(Msgs(w, data)) : k = Len(msgs)
    BY <2>1
  <2>3. /\ k * D \in Nat /\ k * D <= Len(w \o data)
        /\ Taken(Msgs(w, data), k) \in Seq(Bytes) /\ Len(Taken(Msgs(w, data), k)) = k * D
        /\ \A j \in 1 .. k * D : Taken(Msgs(w, data), k)[j] = (w \o data)[j]
    BY TakenIs
  <2> QED
    BY <2>2, <2>3, Zenon DEF s, msgs
<1> HIDE DEF s, msgs, left, t
<1>3. PICK e \in Nat, n \in Nat : e = Len(msgs) * D /\ n = Len(s) /\ e <= n
  <2>1. Len(s) \in Nat
    BY <1>1
  <2> QED
    BY <1>2, <2>1
<1>4. Len(t) = e /\ Len(left) = n - e
  BY <1>1, <1>2, <1>3
<1>5. /\ t \o left \in Seq(Bytes) /\ Len(t \o left) = n
      /\ \A i \in 1 .. n : (t \o left)[i] = IF i <= e THEN t[i] ELSE left[i - e]
  <2>1. /\ t \o left \in Seq(Bytes) /\ Len(t \o left) = Len(t) + Len(left)
        /\ \A i \in 1 .. Len(t) + Len(left) :
             (t \o left)[i] = IF i <= Len(t) THEN t[i] ELSE left[i - Len(t)]
    <3>1. t \in Seq(Bytes) /\ left \in Seq(Bytes)
      BY <1>1, <1>2
    <3> QED
      BY <3>1, ConcatProperties
  <2>2. Len(t) + Len(left) = n
    BY <1>4
  <2> QED
    BY <1>4, <2>1, <2>2
<1>6. ASSUME NEW i \in 1 .. n
      PROVE  (t \o left)[i] = s[i]
  <2>1. CASE i <= e
    BY <1>2, <1>3, <1>5, <2>1
  <2>2. CASE i > e
    <3>1. i - e \in 1 .. Len(left) /\ e + (i - e) = i
      BY <1>4, <2>2
    <3>2. left[i - e] = s[e + (i - e)]
      BY <1>1, <1>3, <3>1
    <3> QED
      BY <1>5, <2>2, <3>1, <3>2
  <2>3. i <= e \/ i > e
    BY <1>3
  <2> QED
    BY <2>1, <2>2, <2>3
<1>7. t \o left = s
  BY <1>1, <1>3, <1>5, <1>6, SeqEqual
<1> QED
  BY <1>7 DEF s, msgs, left, t

\* Putting byte sequences one after the other needs no brackets.
LEMMA ConcatBytes ==
  ASSUME NEW a \in Seq(Bytes), NEW b \in Seq(Bytes), NEW c \in Seq(Bytes)
  PROVE  (a \o b) \o c = a \o (b \o c)
  BY ConcatAssociative

\* A sequence put together of two holds the bytes of both.
LEMMA ConcatFrom ==
  ASSUME NEW a \in Seq(Bytes), NEW b \in Seq(Bytes), NEW n,
         \A j \in DOMAIN a : a[j][1] = n, \A j \in DOMAIN b : b[j][1] = n
  PROVE  \A j \in DOMAIN (a \o b) : (a \o b)[j][1] = n
<1>1. /\ DOMAIN a = 1 .. Len(a) /\ DOMAIN b = 1 .. Len(b) /\ DOMAIN (a \o b) = 1 .. Len(a \o b)
      /\ Len(a) \in Nat /\ Len(b) \in Nat
  <2>1. a \o b \in Seq(Bytes)
    BY ConcatProperties
  <2> QED
    BY <2>1, LenProperties
<1>2. /\ Len(a \o b) = Len(a) + Len(b)
      /\ \A j \in 1 .. Len(a) + Len(b) : (a \o b)[j] = IF j <= Len(a) THEN a[j] ELSE b[j - Len(a)]
  BY ConcatProperties
<1>3. SUFFICES ASSUME NEW j \in 1 .. Len(a) + Len(b) PROVE (a \o b)[j][1] = n
  BY <1>1, <1>2
<1>4. CASE j <= Len(a)
  BY <1>1, <1>2, <1>4
<1>5. CASE j > Len(a)
  <2>1. j - Len(a) \in 1 .. Len(b)
    BY <1>1, <1>5
  <2>2. (a \o b)[j] = b[j - Len(a)]
    BY <1>1, <1>2, <1>5
  <2> QED
    BY <1>1, <2>1, <2>2
<1> QED
  BY <1>1, <1>4, <1>5

\* The sender starts with nothing carried and nothing sent.
LEMMA UdpInitEstablishes == UdpInit => UdpInv
<1> SUFFICES ASSUME UdpInit PROVE UdpInv
  OBVIOUS
<1> USE UdpSizes DEF UdpInit
<1>1. UdpTypeOK
  <2>1. <<>> \in Seq(Bytes)
    OBVIOUS
  <2>2. 0 \in 0 .. MaxUdpBlocks + 1
    OBVIOUS
  <2> QED
    BY <2>1, <2>2 DEF UdpTypeOK
<1>2. CarryFits
  BY DEF CarryFits
<1>3. BytesConserved
  <2>1. <<>> \o <<>> = <<>>
    OBVIOUS
  <2> QED
    BY <2>1 DEF BytesConserved
<1>4. OwnBytesAfterFailedSend /\ OwnBytesCarried
  BY DEF OwnBytesAfterFailedSend, OwnBytesCarried
<1> QED
  BY <1>1, <1>2, <1>3, <1>4 DEF UdpInv

\* A call of udp_send_ring that sends.
LEMMA SendRingPreserves == UdpInv /\ SendRing => UdpInv'
<1> SUFFICES ASSUME UdpInv, SendRing PROVE UdpInv'
  OBVIOUS
<1> USE UdpSizes
<1>1. /\ UdpTypeOK /\ Len(wrap) < D /\ (upc = "run" /\ ~short => wrap0 \o got = wire \o wrap)
      /\ (before = "sendmmsg" => \A j \in DOMAIN wire : wire[j][1] = session)
      /\ (before = "sendmmsg" => \A j \in DOMAIN wrap : wrap[j][1] = session)
  BY DEF UdpInv, CarryFits, BytesConserved, OwnBytesAfterFailedSend, OwnBytesCarried
<1>2. PICK skip \in 0 .. 1 : \E k \in 1 .. Len(Msgs(wrap, Block(next + skip))) :
        /\ wire' = wire \o Taken(Msgs(wrap, Block(next + skip)), k)
        /\ short' = (short \/ k < Len(Msgs(wrap, Block(next + skip))))
        /\ got' = got \o Block(next + skip)
        /\ next' = next + skip + 1
        /\ wrap' = Leftover(wrap, Block(next + skip))
  BY DEF SendRing
<1>3. upc = "run" /\ next < MaxUdpBlocks /\ UNCHANGED <<session, upc, wrap0, before>>
  BY DEF SendRing
<1> DEFINE data == Block(next + skip)
<1>4. /\ data \in Seq(Bytes) /\ Len(data) = B /\ \A j \in DOMAIN data : data[j][1] = session
  <2>1. PICK n \in Nat : n = next + skip
    BY <1>1 DEF UdpTypeOK
  <2>2. session \in Nat /\ n * B \in Nat
    BY <1>1 DEF UdpTypeOK
  <2>3. data = [j \in 1 .. B |-> <<session, n * B + j>>]
    BY <2>1 DEF Block
  <2> HIDE DEF data
  <2>4. \A j \in 1 .. B : <<session, n * B + j>> \in Bytes
    BY <2>2 DEF Bytes
  <2>5. data \in [1 .. B -> Bytes]
    BY <2>3, <2>4
  <2>6. DOMAIN data = 1 .. B /\ \A j \in 1 .. B : data[j][1] = session
    BY <2>3
  <2> QED
    BY <2>5, <2>6
<1>5. PICK k \in 1 .. Len(Msgs(wrap, data)) :
        /\ wire' = wire \o Taken(Msgs(wrap, data), k)
        /\ short' = (short \/ k < Len(Msgs(wrap, data)))
        /\ got' = got \o data /\ next' = next + skip + 1 /\ wrap' = Leftover(wrap, data)
  BY <1>2
<1> HIDE DEF data
<1>6. wrap \in Seq(Bytes) /\ wire \in Seq(Bytes) /\ got \in Seq(Bytes) /\ wrap0 \in Seq(Bytes)
  BY <1>1 DEF UdpTypeOK
<1> DEFINE s == wrap \o data
           msgs == Msgs(wrap, data)
           left == Leftover(wrap, data)
           t == Taken(msgs, k)
<1>7. /\ s \in Seq(Bytes) /\ Len(msgs) \in Nat
      /\ Len(msgs) * D \in Nat /\ Len(msgs) * D <= Len(s)
      /\ left \in Seq(Bytes) /\ Len(left) = Len(s) - Len(msgs) * D /\ Len(left) < D
      /\ \A i \in 1 .. Len(left) : left[i] = s[Len(msgs) * D + i]
  BY <1>1, <1>4, <1>6, CutWhole
<1>8. /\ k * D <= Len(s) /\ k * D \in Nat
      /\ t \in Seq(Bytes) /\ Len(t) = k * D /\ \A j \in 1 .. k * D : t[j] = s[j]
  <2>1. k \in 0 .. Len(Msgs(wrap, data))
    BY <1>7
  <2> QED
    BY <1>1, <1>4, <1>6, <2>1, TakenIs
<1>9. k = Len(msgs) => t \o left = s
  BY <1>1, <1>4, <1>6, NothingLost
<1>10. /\ wire' = wire \o t /\ short' = (short \/ k < Len(msgs)) /\ got' = got \o data
       /\ next' = next + skip + 1 /\ wrap' = left
  BY <1>5
<1> HIDE DEF s, msgs, left, t
<1>11. UdpTypeOK'
  <2>1. wire' \in Seq(Bytes) /\ got' \in Seq(Bytes) /\ wrap' \in Seq(Bytes) /\ wrap0' \in Seq(Bytes)
    BY <1>3, <1>4, <1>6, <1>7, <1>8, <1>10, ConcatProperties
  <2>2. next' \in 0 .. MaxUdpBlocks + 1 /\ short' \in BOOLEAN
    BY <1>1, <1>3, <1>10 DEF UdpTypeOK
  <2> QED
    BY <1>1, <1>3, <2>1, <2>2 DEF UdpTypeOK
<1>12. CarryFits'
  BY <1>7, <1>10 DEF CarryFits
<1>13. BytesConserved'
  <2> SUFFICES ASSUME ~short' PROVE wrap0' \o got' = wire' \o wrap'
    BY DEF BytesConserved
  <2>1. ~short /\ k = Len(msgs)
    <3>1. k \in 1 .. Len(msgs) /\ Len(msgs) \in Nat
      BY <1>5, <1>7 DEF msgs
    <3>2. ~(short \/ k < Len(msgs))
      BY <1>10
    <3> QED
      BY <3>1, <3>2
  <2>2. wrap0 \o got = wire \o wrap
    BY <1>1, <1>3, <2>1
  <2>3. (wire \o t) \o left = wire \o (t \o left)
    <3>1. t \in Seq(Bytes) /\ left \in Seq(Bytes)
      BY <1>7, <1>8, Zenon
    <3> QED
      BY <1>6, <3>1, ConcatBytes
  <2>4. (wire \o wrap) \o data = wire \o (wrap \o data) /\ (wrap0 \o got) \o data = wrap0 \o (got \o data)
    BY <1>4, <1>6, ConcatBytes
  <2>5. t \o left = wrap \o data
    BY <1>9, <2>1 DEF s
  <2> QED
    BY <1>3, <1>10, <2>2, <2>3, <2>4, <2>5
<1>14. ASSUME before = "sendmmsg"
       PROVE  \A j \in DOMAIN s : s[j][1] = session
  BY <1>1, <1>4, <1>6, <1>14, ConcatFrom DEF s
<1>15. OwnBytesAfterFailedSend'
  <2> SUFFICES ASSUME before = "sendmmsg" PROVE \A j \in DOMAIN wire' : wire'[j][1] = session
    BY <1>3 DEF OwnBytesAfterFailedSend
  <2>1. \A j \in DOMAIN t : t[j][1] = session
    <3>1. DOMAIN t = 1 .. Len(t) /\ DOMAIN s = 1 .. Len(s) /\ Len(s) \in Nat
      BY <1>7, <1>8, LenProperties
    <3>2. PICK e \in Nat : e = k * D
      BY <1>8
    <3>3. \A j \in 1 .. e : t[j] = s[j] /\ j \in DOMAIN s
      BY <1>8, <3>1, <3>2
    <3> QED
      BY <1>8, <1>14, <3>1, <3>2, <3>3
  <2>2. \A j \in DOMAIN (wire \o t) : (wire \o t)[j][1] = session
    BY <1>1, <1>6, <1>8, <2>1, ConcatFrom
  <2> QED
    BY <1>10, <2>2
<1>16. OwnBytesCarried'
  <2>1. ASSUME before = "sendmmsg", NEW j \in DOMAIN left
        PROVE  left[j][1] = session
    <3>1. PICK e \in Nat, n \in Nat : e = Len(msgs) * D /\ n = Len(s) /\ Len(left) = n - e
      <4>1. Len(s) \in Nat
        BY <1>7
      <4> QED
        BY <1>7, <4>1
    <3>2. j \in 1 .. Len(left) /\ DOMAIN s = 1 .. n
      BY <1>7, <2>1, <3>1, LenProperties
    <3>3. e + j \in DOMAIN s
      BY <3>1, <3>2
    <3>4. left[j] = s[e + j]
      BY <1>7, <3>1, <3>2
    <3> QED
      BY <1>14, <2>1, <3>3, <3>4
  <2> QED
    BY <1>3, <1>10, <2>1 DEF OwnBytesCarried
<1> QED
  BY <1>11, <1>12, <1>13, <1>15, <1>16 DEF UdpInv

\* A failed call, and the loop that opens the device again.
LEMMA UdpOthersPreserve ==
  UdpInv /\ (SendFails \/ BlockFails \/ Again \/ UNCHANGED uvars) => UdpInv'
<1> SUFFICES ASSUME UdpInv PROVE SendFails \/ BlockFails \/ Again \/ UNCHANGED uvars => UdpInv'
  OBVIOUS
<1> USE UdpSizes
<1> USE DEF UdpInv, UdpTypeOK, CarryFits, BytesConserved, OwnBytesAfterFailedSend, OwnBytesCarried
<1>1. <<>> \in Seq(Bytes) /\ Len(<<>>) = 0
  OBVIOUS
<1>2. ASSUME SendFails PROVE UdpInv'
  BY <1>1, <1>2 DEF SendFails
<1>3. ASSUME BlockFails PROVE UdpInv'
  BY <1>3 DEF BlockFails
<1>4. ASSUME Again PROVE UdpInv'
  <2>1. wrap \o <<>> = wrap /\ <<>> \o wrap = wrap
    <3>1. wrap \in Seq(Bytes)
      OBVIOUS
    <3> HIDE DEF UdpInv, UdpTypeOK
    <3> QED
      BY <3>1, ConcatEmptySeq, Zenon
  <2>2. UdpTypeOK' /\ CarryFits'
    <3>1. session' \in Nat /\ next' \in 0 .. MaxUdpBlocks + 1 /\ upc' \in {"run", "sendmmsg", "read"}
      BY <1>4 DEF Again
    <3>2. wrap' \in Seq(Bytes) /\ wrap0' \in Seq(Bytes) /\ got' \in Seq(Bytes) /\ wire' \in Seq(Bytes)
      BY <1>1, <1>4 DEF Again
    <3>3. short' \in BOOLEAN /\ before' \in {"none", "sendmmsg", "read"} /\ Len(wrap') < D
      BY <1>4 DEF Again
    <3> QED
      BY <3>1, <3>2, <3>3
  <2>3. BytesConserved'
    BY <1>4, <2>1 DEF Again
  <2>4. OwnBytesAfterFailedSend' /\ OwnBytesCarried'
    BY <1>4 DEF Again
  <2> QED
    BY <2>2, <2>3, <2>4
<1>5. ASSUME UNCHANGED uvars PROVE UdpInv'
  BY <1>5 DEF uvars
<1> QED
  BY <1>2, <1>3, <1>4, <1>5

\* The inductive invariant of the sender: what it found carried and what it read is what the
\* socket took and what is carried now, and the carry is less than a datagram.
THEOREM UdpInvariance == UdpSpec => []UdpInv
<1>1. UdpInv /\ [UdpNext]_uvars => UdpInv'
  BY SendRingPreserves, UdpOthersPreserve DEF UdpNext
<1> QED
  BY UdpInitEstablishes, <1>1, PTL DEF UdpSpec

\* Every byte of the blocks reaches the socket once and in order, for every size of block and
\* datagram that fits the code's 64 messages: what is missing is carried, less than a datagram.
THEOREM BlocksArrive == UdpSpec => []UdpIntact
<1>1. UdpInv => UdpIntact
  BY DEF UdpInv, UdpTypeOK, UdpIntact
<1> QED
  BY UdpInvariance, <1>1, PTL
-----------------------------------------------------------------------------
(* The in-kernel TCP server. *)

\* The FPGA of the server resets on what the server writes as its reset, if it
\* is enabled by what the server writes as its enable.
ResetReaches == CtrlReg = "0x08" /\ EnableBit = 0 => ResetBit = 1

TcpTypeOK ==
  /\ tpc \in {"accept", "poll", "send", "down", "dead"}
  /\ stop \in BOOLEAN /\ enabled \in BOOLEAN /\ lapped \in BOOLEAN /\ good \in BOOLEAN
  /\ hw \in Nat /\ rdpos \in Nat /\ off \in 0 .. K
  /\ rd_ptr \in 0 .. R - 1 /\ ring \in [0 .. R - 1 -> Nat]

\* What the FPGA wrote last is in the ring, each position at its place.
RingHolds == Written(ring, hw, R)

\* The offset is a block's, the one the units sent to the client have come to.
Streaming == tpc \in {"poll", "send"}
SentOfBlock == IF tpc = "send" THEN off ELSE 0
OffsetFollows ==
  /\ \E i \in Nat : rd_ptr = i * K
  /\ Streaming => /\ SentOfBlock < K /\ SentOfBlock <= rdpos
                  /\ At(rdpos - SentOfBlock, rd_ptr, R)

\* A client that was not lapped is at most a ring behind, and the block it is
\* sent had been written.
InReach ==
  Streaming /\ ~lapped => /\ rdpos <= hw /\ hw - rdpos <= R
                          /\ tpc = "send" => (rdpos - off) + K <= hw

\* An FPGA that decodes its enable elsewhere never writes.
DeafStaysIdle == ~(CtrlReg = "0x08" /\ EnableBit = 0) => ~enabled /\ hw = 0

TcpInv ==
  /\ TcpTypeOK /\ RingHolds /\ OffsetFollows /\ InReach /\ DeafStaysIdle
  /\ StreamInOrder /\ IdleIsDisabled

\* Sizes: the ring is a number of blocks.
LEMMA TcpSizes ==
  /\ K \in Nat /\ K > 0 /\ R \in Nat /\ R > 0
  /\ \E m \in Nat : m > 0 /\ R = m * K
<1>1. K \in Nat /\ K > 0 /\ R \in Nat /\ R > 0 /\ R % K = 0
  BY TcpAssumption
<1>2. R \div K \in Nat /\ R = (R \div K) * K + 0
  BY <1>1, DivMod, DivNat
<1>3. R \div K > 0
  BY <1>1, <1>2
<1> QED
  BY <1>1, <1>2, <1>3

\* A block's offset leaves a whole block in front of the end of the ring, and the
\* next offset is a block's again.
LEMMA TcpBlockFits ==
  ASSUME NEW i \in Nat, NEW p \in 0 .. R - 1, p = i * K
  PROVE  /\ p + K <= R
         /\ \E j \in Nat : Bump(p, K, R) = j * K
<1>1. K \in Nat /\ K > 0 /\ R \in Nat /\ R > 0
  BY TcpSizes
<1>2. PICK m \in Nat : m > 0 /\ R = m * K
  BY TcpSizes
<1>3. i * K < m * K
  BY <1>1, <1>2
<1>4. i < m
  BY <1>1, <1>3, MulCancel
<1>5. (i + 1) * K <= m * K /\ (i + 1) * K = i * K + K
  <2>1. i + 1 \in Int /\ m \in Int /\ i + 1 <= m
    BY <1>4
  <2>2. (i + 1) * K <= m * K
    BY <1>1, <2>1, MulMono
  <2>3. (i + 1) * K = i * K + 1 * K
    BY <1>1, MulDist
  <2> QED
    BY <1>1, <2>2, <2>3
<1>6. p + K <= R
  BY <1>2, <1>5
<1>7. \E j \in Nat : Bump(p, K, R) = j * K
  <2>1. CASE p + K >= R
    <3>1. Bump(p, K, R) = 0 * K
      BY <1>1, <2>1 DEF Bump
    <3> QED
      BY <3>1
  <2>2. CASE p + K < R
    <3>1. Bump(p, K, R) = (i + 1) * K /\ i + 1 \in Nat
      BY <1>1, <1>5, <2>2 DEF Bump
    <3> QED
      BY <3>1
  <2> QED
    BY <1>1, <2>1, <2>2
<1> QED
  BY <1>6, <1>7

\* The distance the server computes is the true one up to a ring, where it is 0.
LEMMA TcpAvail ==
  ASSUME TcpTypeOK, At(rdpos, rd_ptr, R), rdpos <= hw, hw - rdpos <= R
  PROVE  Avail \in Nat /\ Avail <= hw - rdpos
<1>1. R \in Nat /\ R > 0 /\ hw \in Nat /\ rdpos \in Nat
  BY TcpSizes DEF TcpTypeOK
<1>2. Avail = Ahead(rd_ptr, hw % R, R)
  <2>1. hw % R \in 0 .. R - 1 /\ rd_ptr \in 0 .. R - 1
    BY <1>1, DivMod DEF TcpTypeOK
  <2> QED
    BY <1>1, <2>1 DEF Avail, Ahead
<1>3. Avail \in Nat /\ (Avail = hw - rdpos \/ Avail = 0)
  BY <1>1, <1>2, CountedDistance
<1> QED
  BY <1>1, <1>3

\* The server starts with nothing written and nobody there.
LEMMA TcpInitEstablishes == TcpInit => TcpInv
<1> SUFFICES ASSUME TcpInit
             PROVE  TcpInv
  OBVIOUS
<1>1. TcpTypeOK
  <2>1. K \in Nat /\ R \in Nat /\ R > 0
    BY TcpSizes
  <2>2. ring \in [0 .. R - 1 -> Nat] /\ rd_ptr \in 0 .. R - 1 /\ off \in 0 .. K
        /\ hw \in Nat /\ rdpos \in Nat
    BY <2>1 DEF TcpInit
  <2>3. tpc = "accept" /\ stop = FALSE /\ enabled = FALSE /\ lapped = FALSE /\ good = TRUE
    BY DEF TcpInit
  <2> QED
    BY <2>2, <2>3 DEF TcpTypeOK
<1>2. 0 = 0 * K
  BY TcpSizes
<1>3. OffsetFollows
  BY <1>2 DEF TcpInit, OffsetFollows, Streaming
<1> QED
  BY <1>1, <1>3 DEF TcpInit, TcpInv, RingHolds, Written, InReach, Streaming, DeafStaysIdle,
                    StreamInOrder, IdleIsDisabled

\* The FPGA writes its next unit: over what was there a ring ago.
LEMMA TcpHwPreserves ==
  ASSUME TcpInv, HwWrite
  PROVE  TcpInv'
<1>1. K \in Nat /\ K > 0 /\ R \in Nat /\ R > 0
  BY TcpSizes
<1>2. hw \in Nat /\ hw' = hw + 1 /\ ring' = [ring EXCEPT ![hw % R] = hw + 1]
  BY DEF TcpInv, TcpTypeOK, HwWrite
<1>3. ring' \in [0 .. R - 1 -> Nat] /\ RingHolds'
  BY <1>1, <1>2, WrittenNext DEF TcpInv, TcpTypeOK, RingHolds
<1>4. TcpTypeOK'
  BY <1>1, <1>2, <1>3 DEF TcpInv, TcpTypeOK, HwWrite
<1>5. OffsetFollows'
  BY DEF TcpInv, OffsetFollows, HwWrite, Streaming, SentOfBlock
<1>6. InReach' /\ StreamInOrder' /\ DeafStaysIdle' /\ IdleIsDisabled'
  BY <1>1, <1>2 DEF TcpInv, TcpTypeOK, InReach, StreamInOrder, DeafStaysIdle,
     IdleIsDisabled, HwWrite, Streaming
<1> QED
  BY <1>3, <1>4, <1>5, <1>6 DEF TcpInv

\* A new client finds the ring reset, or an FPGA that never wrote to it.
LEMMA TcpAcceptPreserves ==
  ASSUME ResetReaches, TcpInv, AcceptClient
  PROVE  TcpInv'
<1>1. K \in Nat /\ K > 0 /\ R \in Nat /\ R > 0
  BY TcpSizes
<1>2. hw' = 0
  BY TcpAssumption DEF ResetReaches, TcpInv, TcpTypeOK, DeafStaysIdle, AcceptClient, Obeys
<1>3. TcpTypeOK'
  <2>1. ring' \in [0 .. R - 1 -> Nat] /\ rd_ptr' \in 0 .. R - 1 /\ off' \in 0 .. K
        /\ hw' \in Nat /\ rdpos' \in Nat /\ tpc' = "poll"
    BY <1>1, <1>2 DEF TcpInv, TcpTypeOK, AcceptClient
  <2>2. enabled' \in BOOLEAN /\ stop' \in BOOLEAN /\ lapped' \in BOOLEAN /\ good' \in BOOLEAN
    BY Zenon DEF TcpInv, TcpTypeOK, AcceptClient
  <2> QED
    BY <2>1, <2>2 DEF TcpTypeOK
<1>4. OffsetFollows'
  <2>1. 0 = 0 * K
    BY <1>1
  <2>2. At(0, 0, R)
    BY <1>1, AtZero
  <2>3. rdpos' = 0 /\ rd_ptr' = 0 /\ SentOfBlock' = 0
    BY DEF AcceptClient, SentOfBlock
  <2> QED
    BY <1>1, <2>1, <2>2, <2>3 DEF OffsetFollows
<1>5. RingHolds' /\ InReach' /\ StreamInOrder' /\ DeafStaysIdle' /\ IdleIsDisabled'
  BY <1>1, <1>2, <1>3 DEF TcpInv, TcpTypeOK, RingHolds, Written, InReach, StreamInOrder,
     DeafStaysIdle, IdleIsDisabled, AcceptClient, Obeys, Streaming
<1> QED
  BY <1>3, <1>4, <1>5 DEF TcpInv

\* A turn of the polling loop that finds a block finds it written.
LEMMA TcpPollPreserves ==
  ASSUME TcpInv, PollTakes
  PROVE  TcpInv'
<1>1. K \in Nat /\ K > 0 /\ R \in Nat /\ R > 0
  BY TcpSizes
<1>2. TcpTypeOK /\ TcpTypeOK'
  BY <1>1 DEF TcpInv, TcpTypeOK, PollTakes
<1>3. OffsetFollows'
  BY <1>1 DEF TcpInv, TcpTypeOK, OffsetFollows, PollTakes, Streaming, SentOfBlock
<1>4. InReach'
  <2> SUFFICES ASSUME ~lapped
               PROVE  rdpos <= hw /\ hw - rdpos <= R /\ (rdpos - 0) + K <= hw
    BY DEF InReach, PollTakes
  <2>1. rdpos <= hw /\ hw - rdpos <= R
    BY DEF TcpInv, InReach, PollTakes, Streaming
  <2>2. At(rdpos, rd_ptr, R)
    BY <1>2 DEF TcpInv, TcpTypeOK, OffsetFollows, PollTakes, Streaming, SentOfBlock
  <2>3. Avail \in Nat /\ Avail <= hw - rdpos
    BY <1>2, <2>1, <2>2, TcpAvail
  <2>4. Avail >= K /\ hw \in Nat /\ rdpos \in Nat
    BY <1>2 DEF PollTakes, TcpTypeOK
  <2> QED
    BY <1>1, <2>1, <2>3, <2>4
<1>5. RingHolds' /\ StreamInOrder' /\ DeafStaysIdle' /\ IdleIsDisabled'
  BY DEF TcpInv, RingHolds, StreamInOrder, DeafStaysIdle, IdleIsDisabled, PollTakes
<1> QED
  BY <1>2, <1>3, <1>4, <1>5 DEF TcpInv

\* What a partial send takes out of the ring is what comes next of the stream, and the
\* offset goes round with it.
LEMMA TcpSendPreserves ==
  ASSUME TcpInv, SendUnits
  PROVE  TcpInv'
<1>1. K \in Nat /\ K > 0 /\ R \in Nat /\ R > 0
  BY TcpSizes
<1>2. TcpTypeOK /\ tpc = "send"
  BY DEF TcpInv, SendUnits
<1>3. off < K /\ off <= rdpos /\ At(rdpos - off, rd_ptr, R)
  BY <1>2 DEF TcpInv, OffsetFollows, Streaming, SentOfBlock
<1>4. PICK i \in Nat : rd_ptr = i * K
  BY DEF TcpInv, OffsetFollows
<1>5. rd_ptr + K <= R /\ \E j \in Nat : Bump(rd_ptr, K, R) = j * K
  BY <1>2, <1>4, TcpBlockFits DEF TcpTypeOK
<1>6. PICK n \in 1 .. K - off :
        /\ off' = off + n
        /\ good' = (good /\ \A j \in 0 .. n - 1 : ring[rd_ptr + off + j] = rdpos + j + 1)
        /\ rdpos' = rdpos + n
        /\ IF off + n < K
           THEN UNCHANGED <<tpc, rd_ptr>>
           ELSE /\ rd_ptr' = IF rd_ptr + K >= R THEN 0 ELSE rd_ptr + K
                /\ tpc' = "poll"
  BY DEF SendUnits
<1>7. UNCHANGED <<stop, clients, enabled, hw, ring, lapped>>
  BY DEF SendUnits
<1>8. off \in Nat /\ rdpos \in Nat /\ hw \in Nat /\ rd_ptr \in Nat /\ n \in Nat /\ n >= 1
      /\ off + n <= K
  BY <1>1, <1>2, <1>6 DEF TcpTypeOK
<1>9. off + n = K => rd_ptr' = Bump(rd_ptr, K, R) /\ tpc' = "poll"
  BY <1>1, <1>6, <1>8 DEF Bump
<1>10. off + n < K => rd_ptr' = rd_ptr /\ tpc' = "send"
  BY <1>2, <1>6
<1>11. At((rdpos - off) + K, Bump(rd_ptr, K, R), R)
  <2>1. CASE rd_ptr + K < R
    <3>1. At((rdpos - off) + K, rd_ptr + K, R)
      BY <1>1, <1>3, <1>8, <2>1, PlaceOf
    <3> QED
      BY <1>1, <1>8, <2>1, <3>1 DEF Bump
  <2>2. CASE rd_ptr + K = R
    <3>0. rdpos - off \in Int /\ R \in Nat
      BY <1>1, <1>8
    <3>1. PICK k \in Int : rdpos - off = rd_ptr + k * R
      BY <1>3, <3>0, AtOn DEF On
    <3>2. (k + 1) * R = k * R + R /\ k * R \in Int /\ (k + 1) * R \in Int
      <4>1. (k + 1) * R = k * R + 1 * R /\ k * R \in Int /\ (k + 1) * R \in Int
        BY <1>1, MulDist
      <4> QED
        BY <1>1, <4>1
    <3>3. (rdpos - off) + K = 0 + (k + 1) * R /\ k + 1 \in Int
      BY <1>1, <1>8, <2>2, <3>1, <3>2
    <3>4. On((rdpos - off) + K, 0, R)
      BY <1>1, <3>3 DEF On
    <3> QED
      BY <1>1, <1>8, <2>2, <3>4, AtOn DEF Bump
  <2> QED
    BY <1>1, <1>5, <1>8, <2>1, <2>2
<1>12. TcpTypeOK'
  <2>1. rd_ptr' \in 0 .. R - 1
    <3>1. rd_ptr \in 0 .. R - 1 /\ Bump(rd_ptr, K, R) \in 0 .. R - 1
      BY <1>2, <1>11 DEF TcpTypeOK, At
    <3>2. off + n = K \/ off + n < K
      BY <1>1, <1>8
    <3> QED
      BY <1>9, <1>10, <3>1, <3>2
  <2>2. good' \in BOOLEAN
    BY <1>6, Zenon
  <2>3. off' \in 0 .. K /\ rdpos' \in Nat /\ tpc' \in {"send", "poll"}
    BY <1>1, <1>6, <1>8, <1>9, <1>10
  <2> QED
    BY <1>2, <1>7, <2>1, <2>2, <2>3 DEF TcpTypeOK
<1>13. OffsetFollows'
  <2>1. CASE off + n = K
    <3>1. tpc' = "poll" /\ rdpos' = (rdpos - off) + K /\ rd_ptr' = Bump(rd_ptr, K, R)
      BY <1>1, <1>6, <1>8, <1>9, <2>1
    <3>2. rdpos' - 0 = (rdpos - off) + K
      BY <1>1, <1>8, <3>1
    <3> QED
      BY <1>1, <1>5, <1>8, <1>11, <3>1, <3>2 DEF OffsetFollows, Streaming, SentOfBlock
  <2>2. CASE off + n < K
    <3>1. rdpos' - off' = rdpos - off /\ off' <= rdpos' /\ off' < K
      BY <1>1, <1>3, <1>6, <1>8, <2>2
    <3> QED
      BY <1>3, <1>4, <1>10, <2>2, <3>1 DEF OffsetFollows, Streaming, SentOfBlock
  <2> QED
    BY <1>1, <1>8, <2>1, <2>2
<1>14. ~lapped => rdpos <= hw /\ hw - rdpos <= R /\ (rdpos - off) + K <= hw
  BY <1>2 DEF TcpInv, InReach, Streaming
<1>15. InReach'
  BY <1>1, <1>3, <1>6, <1>7, <1>8, <1>9, <1>10, <1>14 DEF InReach, Streaming
<1>16. ~lapped => \A j \in 0 .. n - 1 : ring[rd_ptr + off + j] = rdpos + j + 1
  <2> SUFFICES ASSUME ~lapped, NEW j \in 0 .. n - 1
               PROVE  ring[rd_ptr + off + j] = rdpos + j + 1
    OBVIOUS
  <2>1. rdpos + j \in 0 .. hw - 1 /\ rdpos + j >= hw - R /\ j \in Nat
    BY <1>1, <1>3, <1>8, <1>14
  <2>2. ring[(rdpos + j) % R] = rdpos + j + 1
    BY <1>8, <2>1 DEF TcpInv, RingHolds, Written
  <2>3. At((rdpos - off) + (off + j), rd_ptr + (off + j), R)
    <3>1. rd_ptr + (off + j) < R /\ off + j \in Nat
      BY <1>1, <1>5, <1>8, <2>1
    <3> QED
      BY <1>1, <1>3, <1>8, <3>1, PlaceOf
  <2>4. (rdpos - off) + (off + j) = rdpos + j /\ rd_ptr + (off + j) = rd_ptr + off + j
    BY <1>8, <2>1
  <2>5. rd_ptr + off + j = (rdpos + j) % R
    BY <2>3, <2>4 DEF At
  <2> QED
    BY <2>2, <2>5
<1>17. StreamInOrder'
  BY <1>6, <1>7, <1>16 DEF TcpInv, StreamInOrder
<1>18. RingHolds' /\ DeafStaysIdle' /\ IdleIsDisabled'
  BY <1>1, <1>7, <1>8, <1>9, <1>10 DEF TcpInv, RingHolds, DeafStaysIdle, IdleIsDisabled
<1> QED
  BY <1>12, <1>13, <1>15, <1>17, <1>18 DEF TcpInv

\* The steps that end a session or the thread leave the ring as it is and no writer
\* behind.
LEMMA TcpOthersPreserve ==
  ASSUME TcpInv,
         AcceptFails \/ ListenStops \/ PollStops \/ ClientLeaves \/ ModuleExit \/ UNCHANGED tvars
  PROVE  TcpInv'
<1> USE DEF TcpInv, TcpTypeOK, RingHolds, OffsetFollows, InReach, Streaming, SentOfBlock,
            DeafStaysIdle, StreamInOrder, IdleIsDisabled
<1>1. CASE AcceptFails
  BY <1>1 DEF AcceptFails
<1>2. CASE ListenStops
  BY <1>2 DEF ListenStops
<1>3. CASE PollStops \/ ClientLeaves
  <2>1. tpc' = "down" /\ enabled' = (enabled /\ CtrlReg # "0x08")
        /\ UNCHANGED <<stop, clients, hw, ring, rd_ptr, off, rdpos, lapped, good>>
    BY <1>3 DEF PollStops, ClientLeaves, StreamEnds
  <2>2. enabled' = FALSE
    BY <2>1
  <2> QED
    BY <2>1, <2>2
<1>4. CASE ModuleExit
  BY <1>4 DEF ModuleExit
<1>5. CASE UNCHANGED tvars
  BY <1>5 DEF tvars
<1> QED
  BY <1>1, <1>2, <1>3, <1>4, <1>5

\* The inductive invariant of the in-kernel server.
THEOREM TcpInvariance == ASSUME ResetReaches PROVE TcpSpec => []TcpInv
<1>1. TcpInv /\ [TcpNext]_tvars => TcpInv'
  BY TcpHwPreserves, TcpAcceptPreserves, TcpPollPreserves, TcpSendPreserves,
     TcpOthersPreserve DEF TcpNext, TcpThread
<1> QED
  BY <1>1, TcpInitEstablishes, PTL DEF TcpSpec

\* A client the FPGA does not lap is sent its session's stream in order and without a
\* hole, over partial sends and any number of turns of the ring, whatever the block
\* and the ring, and without a client the FPGA does not write.
THEOREM ClientGetsStream == ASSUME ResetReaches PROVE TcpSpec => []OneStreamInOrder
<1>1. TcpInv => OneStreamInOrder
  BY DEF TcpInv, TcpTypeOK, OneStreamInOrder
<1> QED
  BY <1>1, TcpInvariance, PTL
-----------------------------------------------------------------------------
(* The legacy receiver. *)

LegacyTypeOK ==
  /\ mode \in {"tcp", "udp"} /\ mpc \in {"poll", "copy"} /\ xpc \in {"accept", "wait", "send"}
  /\ wr \in Nat /\ lost \in Nat /\ passed \in Nat /\ buf_nr \in Nat /\ sbuf \in Nat
  /\ conn \in Nat /\ sem_used \in Nat /\ sem_free \in Nat /\ held \in Nat
  /\ rd \in 0 .. Ring - 1 /\ dma \in [0 .. Ring - 1 -> Nat] /\ missed \in BOOLEAN
  /\ slots \in [0 .. C - 1 -> Seq(Nat)] /\ out \in Seq(Nat)

\* A slot is free, full, held by the sender or being copied into.
Accounts ==
  /\ sem_used + sem_free + held + (IF mpc = "copy" THEN 1 ELSE 0) = C
  /\ held + sem_used <= passed
  /\ mode = "udp" => conn = 0 /\ xpc # "accept" /\ held <= Batch /\ (xpc = "send" <=> held = Batch)
  /\ mode = "tcp" => /\ held = IF xpc = "send" THEN 1 ELSE 0
                     /\ conn = 0 => xpc = "accept" /\ sem_used = passed

\* The slots handed over and not yet given back, numbered from the first one ever; each
\* thread's own number is the next one's, round the slots.
Oldest == passed - sem_used - held
Waiting == Oldest .. passed - 1
SlotNumbers ==
  /\ buf_nr = passed % C
  /\ mode = "udp" => sbuf = (passed - sem_used) % C
  /\ mode = "tcp" /\ conn <= 1 /\ xpc # "accept" => sbuf = Oldest % C

\* main is at most a dma behind the FPGA, and copies what has been written.
MainPlace == S * passed + lost
DmaHolds == Written(dma, wr, Ring)
MainFollows ==
  ~missed => /\ rd = MainPlace % Ring /\ MainPlace <= wr /\ wr - MainPlace <= Ring
             /\ mpc = "copy" => MainPlace + S <= wr

\* The slot copied last holds consecutive bytes, from no later than where main was.
LastSlot ==
  ~missed /\ passed > 0 =>
    LET last == slots[(passed - 1) % C]
    IN  /\ last[1] \in (S * (passed - 1) + 1) .. (S * (passed - 1) + lost + 1)
        /\ \A j \in 1 .. S : last[j] = last[1] + j - 1

\* The slots waiting are in order of the stream, and behind them comes main.
FirstOf(n) == slots[n % C][1]
SlotsOrdered ==
  ~missed => /\ \A n \in Waiting : FirstOf(n) \in Nat /\ FirstOf(n) + S <= MainPlace + 1
             /\ \A m, n \in Waiting : m < n => FirstOf(m) + S <= FirstOf(n)

\* What has been sent is in order too, and lies before what is waiting.
OutOrdered ==
  ~missed /\ conn <= 1 =>
    /\ \A i \in DOMAIN out : /\ out[i] + S <= MainPlace + 1
                             /\ \A n \in Waiting : out[i] + S <= FirstOf(n)
    /\ \A i, j \in DOMAIN out : i < j => out[i] + S <= out[j]

\* A slot that was ever handed over is full, and the sender's number is one of those,
\* whichever client it is at.
NothingUnfilled ==
  /\ \A i \in 0 .. C - 1 : i < passed => slots[i] \in [1 .. S -> Nat]
  /\ mode = "tcp" /\ xpc # "accept" => sbuf < C /\ sbuf + held + sem_used <= passed

LegacyInv ==
  /\ LegacyTypeOK /\ Accounts /\ SlotNumbers /\ DmaHolds /\ MainFollows
  /\ LastSlot /\ SlotsOrdered /\ OutOrdered /\ NothingUnfilled

\* What the assumption says of the sizes.
LEMMA LegacySizes ==
  /\ Ring \in Nat /\ S \in Nat /\ C \in Nat /\ Batch \in Nat
  /\ Ring > 0 /\ S > 0 /\ C > 0 /\ Batch > 0 /\ S < Ring /\ Batch <= C
  BY LegacyAssumption

\* Numbers less than C apart are different slots.
LEMMA SlotsDiffer ==
  ASSUME NEW m \in Int, NEW n \in Int, m < n, n - m < C
  PROVE  /\ m % C \in 0 .. C - 1 /\ n % C \in 0 .. C - 1
         /\ m % C # n % C
  BY LegacySizes, DivMod, ModDiffer

\* The receiver starts with all slots free and main at the start of the dma.
LEMMA LegacyInitEstablishes == LegacyInit => LegacyInv
<1> SUFFICES ASSUME LegacyInit
             PROVE  LegacyInv
  OBVIOUS
<1> USE LegacySizes
<1>1. LegacyTypeOK
  <2>1. dma \in [0 .. Ring - 1 -> Nat] /\ rd \in 0 .. Ring - 1
    BY DEF LegacyInit
  <2>2. slots \in [0 .. C - 1 -> Seq(Nat)] /\ out \in Seq(Nat)
    BY DEF LegacyInit
  <2>3. /\ wr \in Nat /\ lost \in Nat /\ passed \in Nat /\ buf_nr \in Nat /\ sbuf \in Nat
        /\ conn \in Nat /\ sem_used \in Nat /\ sem_free \in Nat /\ held \in Nat
    BY DEF LegacyInit
  <2> QED
    BY <2>1, <2>2, <2>3 DEF LegacyInit, LegacyTypeOK
<1>2. 0 % C = 0 /\ 0 % Ring = 0
  BY AtZero DEF At
<1>3. Accounts /\ SlotNumbers
  BY <1>2 DEF LegacyInit, Accounts, SlotNumbers, Oldest
<1>4. DmaHolds /\ MainFollows
  BY <1>2 DEF LegacyInit, DmaHolds, Written, MainFollows, MainPlace
<1>5. LastSlot /\ SlotsOrdered /\ OutOrdered /\ NothingUnfilled
  BY DEF LegacyInit, LastSlot, SlotsOrdered, OutOrdered, Waiting, Oldest, NothingUnfilled
<1> QED
  BY <1>1, <1>3, <1>4, <1>5 DEF LegacyInv

\* main's place is a number, and a slot further on after a copy.
LEMMA PlaceMoves ==
  ASSUME LegacyTypeOK
  PROVE  /\ MainPlace \in Nat /\ S * passed \in Nat
         /\ S * (passed + 1) = S * passed + S
<1>1. passed \in Nat /\ lost \in Nat /\ S \in Nat
  BY LegacySizes DEF LegacyTypeOK
<1> QED
  BY <1>1 DEF MainPlace

\* The FPGA writes its next byte.
LEMMA LegacyHwPreserves ==
  ASSUME LegacyInv, LegacyHw
  PROVE  LegacyInv'
<1> USE LegacySizes
<1>1. /\ wr' = wr + 1 /\ dma' = [dma EXCEPT ![wr % Ring] = wr + 1]
      /\ missed' = (missed \/ wr - MainPlace >= Ring)
      /\ UNCHANGED <<mode, mpc, rd, buf_nr, lost, passed, slots, xpc, conn, sbuf, held, out,
                     sem_used, sem_free>>
  BY DEF LegacyHw, MainPlace, main, tx
<1>2. MainPlace \in Nat /\ wr \in Nat /\ MainPlace' = MainPlace
  BY <1>1, PlaceMoves DEF LegacyInv, LegacyTypeOK, MainPlace
<1>3. dma' \in [0 .. Ring - 1 -> Nat] /\ DmaHolds'
  BY <1>1, <1>2, WrittenNext DEF LegacyInv, LegacyTypeOK, DmaHolds
<1>4. LegacyTypeOK'
  <2>1. missed' \in BOOLEAN
    BY <1>1, Zenon
  <2> QED
    BY <1>1, <1>2, <1>3, <2>1 DEF LegacyInv, LegacyTypeOK
<1>5. Accounts' /\ SlotNumbers'
  BY <1>1 DEF LegacyInv, Accounts, SlotNumbers, Oldest
<1>6. ~missed' => ~missed /\ wr - MainPlace < Ring
  <2>1. ~missed' => ~missed /\ ~(wr - MainPlace >= Ring)
    BY <1>1, Zenon
  <2> QED
    BY <1>2, <2>1
<1>7. MainFollows'
  BY <1>1, <1>2, <1>6 DEF LegacyInv, MainFollows
<1>8. LastSlot' /\ SlotsOrdered' /\ OutOrdered' /\ NothingUnfilled'
  BY <1>1, <1>2, <1>6 DEF LegacyInv, LastSlot, SlotsOrdered, OutOrdered, Waiting, Oldest, FirstOf,
     NothingUnfilled
<1> QED
  BY <1>3, <1>4, <1>5, <1>7, <1>8 DEF LegacyInv

\* What main counts between itself and the FPGA.
LEMMA DistanceExact ==
  ASSUME LegacyInv
  PROVE  /\ Distance(wr % Ring, rd) \in Nat /\ wr % Ring \in 0 .. Ring - 1
         /\ ~missed /\ Distance(wr % Ring, rd) >= S =>
              Distance(wr % Ring, rd) = wr - MainPlace
<1> USE LegacySizes
<1>1. MainPlace \in Nat /\ wr \in Nat /\ rd \in 0 .. Ring - 1
  BY PlaceMoves DEF LegacyInv, LegacyTypeOK
<1>2. wr % Ring \in 0 .. Ring - 1
  BY <1>1, DivMod
<1>3. Distance(wr % Ring, rd) = Ahead(rd, wr % Ring, Ring)
      /\ Distance(wr % Ring, rd) \in Nat
  BY <1>1, <1>2 DEF Distance, Ahead
<1>4. ASSUME ~missed, Distance(wr % Ring, rd) >= S
      PROVE  Distance(wr % Ring, rd) = wr - MainPlace
  <2>1. MainPlace <= wr /\ wr - MainPlace <= Ring /\ At(MainPlace, rd, Ring)
    BY <1>1, <1>4 DEF LegacyInv, MainFollows, At
  <2>2. Ahead(rd, wr % Ring, Ring) = wr - MainPlace \/ Ahead(rd, wr % Ring, Ring) = 0
    BY <1>1, <2>1, CountedDistance
  <2> QED
    BY <1>3, <1>4, <2>2
<1> QED
  BY <1>2, <1>3, <1>4

\* A turn of main that takes a slot, or gives up what there is.
LEMMA LegacyPollPreserves ==
  ASSUME LegacyInv, PollSlot \/ PollDrops
  PROVE  LegacyInv'
<1> USE LegacySizes
<1>1. MainPlace \in Nat /\ LegacyTypeOK /\ passed \in Nat /\ lost \in Nat /\ wr \in Nat
      /\ S * passed \in Nat
  BY PlaceMoves DEF LegacyInv, LegacyTypeOK
<1>2. CASE PollSlot
  <2>1. MainPlace' = MainPlace
    BY <1>2 DEF PollSlot, main, MainPlace
  <2>2. LegacyTypeOK'
    BY <1>1, <1>2 DEF PollSlot, LegacyTypeOK, main, tx
  <2>3. Accounts' /\ SlotNumbers' /\ DmaHolds'
    BY <1>1, <1>2 DEF LegacyInv, LegacyTypeOK, Accounts, SlotNumbers, Oldest, DmaHolds, PollSlot, main, tx
  <2>4. MainFollows'
    <3>1. ~missed => MainPlace + S <= wr
      BY <1>1, <1>2, DistanceExact DEF PollSlot
    <3> QED
      BY <1>2, <2>1, <3>1 DEF LegacyInv, MainFollows, PollSlot
  <2>5. LastSlot' /\ SlotsOrdered' /\ OutOrdered' /\ NothingUnfilled'
    BY <1>2, <2>1 DEF LegacyInv, LastSlot, SlotsOrdered, OutOrdered, Waiting, Oldest, FirstOf,
       NothingUnfilled, PollSlot, main, tx
  <2> QED
    BY <2>2, <2>3, <2>4, <2>5 DEF LegacyInv
<1>3. CASE PollDrops
  <2> DEFINE given == Distance(wr % Ring, rd)
  <2>1. given \in Nat /\ wr % Ring \in 0 .. Ring - 1 /\ given >= S
        /\ (~missed => given = wr - MainPlace)
    BY <1>3, DistanceExact DEF PollDrops
  <2>2. lost' = lost + given /\ rd' = wr % Ring
        /\ UNCHANGED <<mode, wr, dma, mpc, buf_nr, passed, slots, sem_used, sem_free,
                       xpc, conn, sbuf, held, out, missed>>
    BY <1>3 DEF PollDrops, tx
  <2> HIDE DEF given
  <2>3. MainPlace' = MainPlace + given
    BY <1>1, <2>1, <2>2 DEF MainPlace
  <2>4. LegacyTypeOK'
    BY <1>1, <2>1, <2>2 DEF LegacyTypeOK
  <2>5. Accounts' /\ SlotNumbers' /\ DmaHolds'
    BY <2>2 DEF LegacyInv, Accounts, SlotNumbers, Oldest, DmaHolds
  <2>6. MainFollows'
    <3>1. mpc' = "poll"
      BY <1>3 DEF PollDrops
    <3>2. ~missed => MainPlace' = wr
      BY <1>1, <2>1, <2>3
    <3> QED
      BY <1>1, <2>2, <3>1, <3>2 DEF MainFollows
  <2>7. LastSlot'
    <3>1. S * (passed - 1) \in Int
      BY <1>1
    <3> QED
      BY <1>1, <2>1, <2>2, <3>1 DEF LegacyInv, LastSlot
  <2>8. SlotsOrdered'
    <3>1. Waiting' = Waiting /\ \A n : FirstOf(n)' = FirstOf(n)
      BY <2>2 DEF Waiting, Oldest, FirstOf
    <3> QED
      BY <1>1, <2>1, <2>2, <2>3, <3>1 DEF LegacyInv, SlotsOrdered
  <2>9. OutOrdered'
    <3>1. Waiting' = Waiting /\ \A n : FirstOf(n)' = FirstOf(n)
      BY <2>2 DEF Waiting, Oldest, FirstOf
    <3>2. \A i \in DOMAIN out : out[i] \in Nat
      BY <1>1 DEF LegacyTypeOK
    <3> QED
      BY <1>1, <2>1, <2>2, <2>3, <3>1, <3>2 DEF LegacyInv, OutOrdered
  <2>10. NothingUnfilled'
    BY <2>2 DEF LegacyInv, NothingUnfilled
  <2> QED
    BY <2>4, <2>5, <2>6, <2>7, <2>8, <2>9, <2>10 DEF LegacyInv
<1> QED
  BY <1>2, <1>3

\* The numbers of the slots go round.
LEMMA NextSlot ==
  ASSUME NEW n \in Int
  PROVE  /\ ((n % C) + 1) % C = (n + 1) % C
         /\ \A d \in Int : (((n % C) + C) - d) % C = (n - d) % C
<1> USE LegacySizes
<1>1. PICK r \in 0 .. C - 1 : r = n % C
  BY DivMod
<1>2. On(n, r, C)
  BY <1>1, AtOn DEF At
<1>3. ASSUME NEW d \in Int
      PROVE  On(n + d, (r + d) % C, C)
  BY <1>2, OnMod
<1>4. (r + 1) % C = (n + 1) % C
  <2>1. On(n + 1, (r + 1) % C, C)
    BY <1>3
  <2> QED
    BY <2>1, AtOn DEF At
<1>5. ASSUME NEW d \in Int
      PROVE  ((r + C) - d) % C = (n - d) % C
  <2>1. PICK e \in Int : e = C - d
    OBVIOUS
  <2>2. On(n + e, (r + e) % C, C)
    BY <1>3
  <2>3. r + e = (r + C) - d /\ n + e \in Int /\ n - d \in Int
    BY <2>1
  <2>4. At(n + e, ((r + C) - d) % C, C)
    BY <2>2, <2>3, AtOn
  <2>5. PICK q \in 0 .. C - 1 : q = ((r + C) - d) % C
    BY <2>4 DEF At
  <2>6. (n - d) - q = ((n + e) - q) - C
    BY <2>1, <2>5
  <2>7. At(n - d, q, C)
    BY <2>3, <2>4, <2>5, <2>6, Follows
  <2> QED
    BY <2>5, <2>7 DEF At
<1> QED
  BY <1>1, <1>4, <1>5

\* The copy, in two parts at the end of the dma, takes the next S bytes of the stream.
LEMMA CopyIsNext ==
  ASSUME LegacyInv, mpc = "copy", ~missed, NEW j \in 1 .. S
  PROVE  LET tail == IF Ring - rd < S THEN Ring - rd ELSE S
         IN  (IF j <= tail THEN dma[rd + j - 1] ELSE dma[j - tail - 1]) = MainPlace + j
<1> USE LegacySizes
<1> DEFINE tail == IF Ring - rd < S THEN Ring - rd ELSE S
           q == MainPlace + (j - 1)
<1>1. MainPlace \in Nat /\ wr \in Nat /\ rd \in 0 .. Ring - 1
  BY PlaceMoves DEF LegacyInv, LegacyTypeOK
<1>2. rd = MainPlace % Ring /\ MainPlace + S <= wr /\ wr - MainPlace <= Ring
  BY DEF LegacyInv, MainFollows
<1>3. q \in 0 .. wr - 1 /\ q >= wr - Ring
  BY <1>1, <1>2
<1>4. dma[q % Ring] = MainPlace + j
  <2>1. dma[q % Ring] = q + 1
    BY <1>3 DEF LegacyInv, DmaHolds, Written
  <2> QED
    BY <1>1, <2>1
<1>5. At(MainPlace, rd, Ring) /\ q \in Int /\ q = MainPlace + (j - 1) /\ MainPlace \in Int
  BY <1>1, <1>2 DEF At
<1> HIDE DEF q
<1>6. CASE j <= tail
  <2>1. PICK a \in 0 .. Ring - 1 : a = rd + j - 1 /\ q - a = MainPlace - rd
    BY <1>1, <1>5, <1>6
  <2>2. At(q, a, Ring)
    BY <1>5, <2>1, Follows
  <2> QED
    BY <1>4, <1>6, <2>1, <2>2 DEF At
<1>7. CASE ~(j <= tail)
  <2>1. PICK a \in 0 .. Ring - 1 : a = j - tail - 1 /\ q - a = (MainPlace - rd) + Ring
    BY <1>1, <1>5, <1>7
  <2>2. At(q, a, Ring)
    BY <1>5, <2>1, Follows
  <2> QED
    BY <1>4, <1>7, <2>1, <2>2 DEF At
<1> QED
  BY <1>6, <1>7

\* The copy goes into a slot nobody holds or waits for, and is the last of the order.
LEMMA LegacyCopyPreserves ==
  ASSUME LegacyInv, CopySlot
  PROVE  LegacyInv'
<1> USE LegacySizes
<1> DEFINE tail == IF Ring - rd < S THEN Ring - rd ELSE S
           new == [j \in 1 .. S |-> IF j <= tail THEN dma[rd + j - 1] ELSE dma[j - tail - 1]]
<1>1. /\ mpc = "copy" /\ mpc' = "poll"
      /\ slots' = [slots EXCEPT ![buf_nr] = new]
      /\ rd' = (rd + S) % Ring /\ sem_used' = sem_used + 1
      /\ buf_nr' = (buf_nr + 1) % C /\ passed' = passed + 1
      /\ UNCHANGED <<mode, wr, dma, lost, sem_free, xpc, conn, sbuf, held, out, missed>>
  BY DEF CopySlot, tx
<1>2. LegacyTypeOK
  BY DEF LegacyInv
<1>3. MainPlace \in Nat /\ S * passed \in Nat /\ S * (passed + 1) = S * passed + S
  BY <1>2, PlaceMoves
<1>4. MainPlace' = MainPlace + S
  BY <1>1, <1>2, <1>3 DEF MainPlace, LegacyTypeOK
<1>5. new \in [1 .. S -> Nat] /\ new \in Seq(Nat)
  <2>1. ASSUME NEW j \in 1 .. S
        PROVE  (IF j <= tail THEN dma[rd + j - 1] ELSE dma[j - tail - 1]) \in Nat
    BY <1>2 DEF LegacyTypeOK
  <2>2. new \in [1 .. S -> Nat]
    BY <2>1
  <2> QED
    BY <2>2
<1>6. ~missed => \A j \in 1 .. S : new[j] = MainPlace + j
  <2> SUFFICES ASSUME ~missed, NEW j \in 1 .. S
               PROVE  new[j] = MainPlace + j
    OBVIOUS
  <2> QED
    BY <1>1, CopyIsNext
<1> HIDE DEF new
<1>7. passed \in Nat /\ buf_nr = passed % C /\ buf_nr \in 0 .. C - 1
  BY <1>2, DivMod DEF LegacyInv, SlotNumbers, LegacyTypeOK
<1>8. LegacyTypeOK'
  <2>1. rd' \in 0 .. Ring - 1 /\ buf_nr' \in Nat
    BY <1>1, <1>2, <1>7, DivMod DEF LegacyTypeOK
  <2>2. slots' \in [0 .. C - 1 -> Seq(Nat)]
    BY <1>1, <1>2, <1>5, <1>7 DEF LegacyTypeOK
  <2> QED
    BY <1>1, <1>2, <2>1, <2>2 DEF LegacyTypeOK
<1>9. Accounts' /\ DmaHolds'
  BY <1>1, <1>2 DEF LegacyInv, LegacyTypeOK, Accounts, DmaHolds
<1>10. Oldest' = Oldest /\ Oldest \in Nat /\ (passed - sem_used)' = passed - sem_used
       /\ passed - Oldest < C
  BY <1>1, <1>2 DEF LegacyInv, LegacyTypeOK, Accounts, Oldest
<1>11. SlotNumbers'
  <2>1. buf_nr' = passed' % C
    BY <1>1, <1>7, NextSlot
  <2> QED
    BY <1>1, <1>10, <2>1 DEF LegacyInv, SlotNumbers
<1>12. MainFollows'
  <2>1. ~missed => rd' = MainPlace' % Ring
    <3> SUFFICES ASSUME ~missed
                 PROVE  (rd + S) % Ring = (MainPlace + S) % Ring
      BY <1>1, <1>4
    <3>1. At(MainPlace, rd, Ring) /\ MainPlace \in Int /\ S \in Int
      BY <1>2, <1>3 DEF LegacyInv, MainFollows, LegacyTypeOK, At
    <3>2. On(MainPlace + S, (rd + S) % Ring, Ring)
      BY <3>1, AtOn, OnMod
    <3>3. At(MainPlace + S, (rd + S) % Ring, Ring)
      BY <3>1, <3>2, AtOn
    <3> QED
      BY <3>3 DEF At
  <2>2. ~missed => MainPlace + S <= wr /\ wr - MainPlace <= Ring
    BY <1>1 DEF LegacyInv, MainFollows
  <2> QED
    BY <1>1, <1>2, <1>3, <1>4, <2>1, <2>2 DEF MainFollows, LegacyTypeOK
<1>13. slots'[passed % C] = new
  BY <1>1, <1>2, <1>7 DEF LegacyTypeOK
<1>14. LastSlot'
  <2>1. passed' - 1 = passed
    BY <1>1, <1>7
  <2>2. ~missed => new[1] = S * passed + lost + 1
    BY <1>2, <1>3, <1>6 DEF MainPlace, LegacyTypeOK
  <2>3. ~missed => \A j \in 1 .. S : new[j] = new[1] + j - 1
    BY <1>3, <1>6
  <2>4. lost \in Nat /\ lost' = lost /\ missed' = missed /\ slots'[(passed' - 1) % C] = new
    BY <1>1, <1>2, <1>13, <2>1 DEF LegacyTypeOK
  <2> QED
    BY <1>3, <2>1, <2>2, <2>3, <2>4 DEF LastSlot
<1>15. \A n \in Waiting : FirstOf(n)' = FirstOf(n)
  <2> SUFFICES ASSUME NEW n \in Waiting
               PROVE  slots'[n % C] = slots[n % C]
    BY DEF FirstOf
  <2>1. n \in Int /\ n < passed /\ passed - n < C
    BY <1>7, <1>10 DEF Waiting
  <2>2. n % C \in 0 .. C - 1 /\ n % C # buf_nr
    <3>1. passed \in Int
      BY <1>7
    <3> QED
      BY <1>7, <2>1, <3>1, SlotsDiffer
  <2> QED
    BY <1>1, <1>2, <1>7, <2>2 DEF LegacyTypeOK
<1>16. PICK z \in Nat : z = passed
  BY <1>7
<1>17. /\ ~missed => FirstOf(z)' = MainPlace + 1
       /\ \A n : n \in Waiting' <=> n \in Waiting \/ n = z
       /\ \A n \in Waiting : n \in Int /\ n < z
  <2>1. ~missed => slots'[z % C][1] = MainPlace + 1
    BY <1>6, <1>13, <1>16
  <2>2. passed' - 1 = z /\ Oldest' = Oldest /\ Oldest \in Nat /\ Oldest <= z
    <3>1. Oldest <= passed
      BY <1>2 DEF Oldest, LegacyTypeOK
    <3> QED
      BY <1>1, <1>7, <1>10, <1>16, <3>1
  <2>3. Waiting' = Oldest .. z /\ Waiting = Oldest .. z - 1
    BY <1>16, <2>2 DEF Waiting
  <2> QED
    BY <2>1, <2>2, <2>3 DEF FirstOf
<1>18. SlotsOrdered'
  <2> SUFFICES ASSUME ~missed
               PROVE  /\ \A n \in Waiting' : FirstOf(n)' \in Nat /\ FirstOf(n)' + S <= MainPlace' + 1
                      /\ \A m, n \in Waiting' : m < n => FirstOf(m)' + S <= FirstOf(n)'
    BY <1>1 DEF SlotsOrdered
  <2>1. /\ \A n \in Waiting : FirstOf(n) \in Nat /\ FirstOf(n) + S <= MainPlace + 1
        /\ \A m, n \in Waiting : m < n => FirstOf(m) + S <= FirstOf(n)
    BY DEF LegacyInv, SlotsOrdered
  <2>2. \A n \in Waiting' : FirstOf(n)' \in Nat /\ FirstOf(n)' + S <= MainPlace' + 1
    BY <1>3, <1>4, <1>15, <1>17, <2>1
  <2>3. ASSUME NEW m \in Waiting', NEW n \in Waiting', m < n
        PROVE  FirstOf(m)' + S <= FirstOf(n)'
    <3>1. m \in Waiting
      BY <1>17, <2>3
    <3>2. CASE n = z
      BY <1>15, <1>17, <2>1, <3>1, <3>2
    <3>3. CASE n \in Waiting
      BY <1>15, <2>1, <2>3, <3>1, <3>3
    <3> QED
      BY <1>17, <3>2, <3>3
  <2> QED
    BY <2>2, <2>3
<1>19. OutOrdered'
  <2> SUFFICES ASSUME ~missed, conn <= 1
               PROVE  /\ \A i \in DOMAIN out : /\ out[i] + S <= MainPlace' + 1
                                               /\ \A n \in Waiting' : out[i] + S <= FirstOf(n)'
                      /\ \A i, j \in DOMAIN out : i < j => out[i] + S <= out[j]
    BY <1>1 DEF OutOrdered
  <2>1. /\ \A i \in DOMAIN out : /\ out[i] + S <= MainPlace + 1
                                 /\ \A n \in Waiting : out[i] + S <= FirstOf(n)
        /\ \A i, j \in DOMAIN out : i < j => out[i] + S <= out[j]
    BY DEF LegacyInv, OutOrdered
  <2>2. \A i \in DOMAIN out : out[i] \in Nat
    BY <1>2 DEF LegacyTypeOK
  <2>3. \A i \in DOMAIN out : out[i] + S <= MainPlace' + 1
    BY <1>3, <1>4, <2>1, <2>2
  <2>4. \A i \in DOMAIN out : \A n \in Waiting' : out[i] + S <= FirstOf(n)'
    BY <1>15, <1>17, <2>1
  <2> QED
    BY <2>1, <2>3, <2>4
<1>20. NothingUnfilled'
  <2>1. ASSUME NEW i \in 0 .. C - 1, i < passed'
        PROVE  slots'[i] \in [1 .. S -> Nat]
    <3>1. CASE i = buf_nr
      BY <1>1, <1>2, <1>5, <1>7, <3>1 DEF LegacyTypeOK
    <3>2. CASE i # buf_nr
      <4>1. i < passed
        <5>1. i = passed => i = passed % C
          BY <1>7, ModSmall
        <5> QED
          BY <1>1, <1>7, <2>1, <3>2, <5>1
      <4> QED
        BY <1>1, <1>2, <1>7, <3>2, <4>1 DEF LegacyInv, NothingUnfilled, LegacyTypeOK
    <3> QED
      BY <3>1, <3>2
  <2> QED
    BY <1>1, <1>2, <2>1 DEF LegacyInv, NothingUnfilled, LegacyTypeOK
<1> QED
  BY <1>8, <1>9, <1>11, <1>12, <1>14, <1>18, <1>19, <1>20 DEF LegacyInv

\* The sender gives slots back in the order it took them: what is waiting gets less.
LEMMA WaitingShrinks ==
  ASSUME LegacyInv, UNCHANGED <<wr, dma, mpc, rd, lost, passed, slots, missed>>,
         Waiting' \subseteq Waiting
  PROVE  DmaHolds' /\ MainFollows' /\ LastSlot' /\ SlotsOrdered'
<1>1. MainPlace' = MainPlace /\ \A n : FirstOf(n)' = FirstOf(n)
  BY DEF MainPlace, FirstOf
<1>2. DmaHolds' /\ MainFollows' /\ LastSlot'
  BY <1>1 DEF LegacyInv, DmaHolds, MainFollows, LastSlot
<1>3. SlotsOrdered'
  BY <1>1 DEF LegacyInv, SlotsOrdered
<1> QED
  BY <1>2, <1>3

\* What goes out next are the slots held longest, in their order.
LEMMA OutGrows ==
  ASSUME LegacyInv, UNCHANGED <<lost, passed, slots, missed, conn>>,
         NEW k \in 0 .. held, out' \in Seq(Nat), Len(out') = Len(out) + k,
         \A i \in 1 .. Len(out) : out'[i] = out[i],
         conn <= 1 => \A i \in 1 .. k : out'[Len(out) + i] = FirstOf(Oldest + i - 1),
         \A n \in Waiting' : n \in Waiting /\ n >= Oldest + k
  PROVE  OutOrdered'
<1>1. MainPlace' = MainPlace /\ \A n : FirstOf(n)' = FirstOf(n)
  BY DEF MainPlace, FirstOf
<1>2. SUFFICES ASSUME ~missed, conn <= 1
               PROVE  /\ \A i \in DOMAIN out' : /\ out'[i] + S <= MainPlace + 1
                                               /\ \A n \in Waiting' : out'[i] + S <= FirstOf(n)
                      /\ \A i, j \in DOMAIN out' : i < j => out'[i] + S <= out'[j]
  BY <1>1 DEF OutOrdered
<1>3. /\ \A i \in 1 .. Len(out) : /\ out[i] + S <= MainPlace + 1
                                 /\ \A n \in Waiting : out[i] + S <= FirstOf(n)
      /\ \A i, j \in 1 .. Len(out) : i < j => out[i] + S <= out[j]
  <2>1. DOMAIN out = 1 .. Len(out)
    BY DEF LegacyInv, LegacyTypeOK
  <2> QED
    BY <1>2, <2>1 DEF LegacyInv, OutOrdered
<1>4. /\ \A n \in Waiting : FirstOf(n) \in Nat /\ FirstOf(n) + S <= MainPlace + 1
      /\ \A m, n \in Waiting : m < n => FirstOf(m) + S <= FirstOf(n)
  BY <1>2 DEF LegacyInv, SlotsOrdered
<1>5. DOMAIN out' = 1 .. Len(out) + k /\ Len(out) \in Nat /\ k \in Nat /\ k <= held
  BY DEF LegacyInv, LegacyTypeOK
<1>6. held \in Nat /\ sem_used \in Nat /\ passed \in Nat /\ Oldest \in Int
      /\ Oldest + held <= passed
  BY DEF LegacyInv, LegacyTypeOK, Oldest
<1>7. ASSUME NEW i \in DOMAIN out', i > Len(out)
      PROVE  \E n \in Waiting : out'[i] = FirstOf(n) /\ n = Oldest + (i - Len(out)) - 1 /\ n < Oldest + k
  <2>1. PICK d \in 1 .. k : d = i - Len(out) /\ i = Len(out) + d
    <3>1. i - Len(out) \in 1 .. k /\ i = Len(out) + (i - Len(out))
      BY <1>5, <1>7
    <3> QED
      BY <3>1
  <2>2. out'[i] = FirstOf(Oldest + d - 1)
    BY <1>2, <2>1
  <2>3. Oldest + d - 1 \in Waiting /\ Oldest + d - 1 < Oldest + k
    <3>1. d \in Int /\ 1 <= d /\ d <= k /\ k \in Int
      BY <1>5, <2>1
    <3>2. Oldest + d - 1 \in Int /\ Oldest <= Oldest + d - 1 /\ Oldest + d - 1 <= passed - 1
          /\ Oldest + d - 1 < Oldest + k
      BY <1>5, <1>6, <3>1
    <3> QED
      BY <1>6, <3>2 DEF Waiting
  <2> QED
    BY <2>1, <2>2, <2>3
<1>8. ASSUME NEW i \in DOMAIN out'
      PROVE  /\ out'[i] + S <= MainPlace + 1
             /\ \A n \in Waiting' : out'[i] + S <= FirstOf(n)
  <2>1. CASE i \in 1 .. Len(out)
    BY <1>3, <2>1
  <2>2. CASE i > Len(out)
    <3>1. PICK m \in Waiting : out'[i] = FirstOf(m) /\ m < Oldest + k
      BY <1>7, <2>2
    <3>2. \A n \in Waiting' : m < n /\ n \in Waiting
      BY <1>5, <1>6, <3>1 DEF Waiting
    <3> QED
      BY <1>4, <3>1, <3>2
  <2> QED
    BY <1>5, <2>1, <2>2
<1>9. ASSUME NEW i \in DOMAIN out', NEW j \in DOMAIN out', i < j
      PROVE  out'[i] + S <= out'[j]
  <2>1. CASE j \in 1 .. Len(out)
    <3>1. i \in 1 .. Len(out)
      BY <1>5, <1>9, <2>1
    <3> QED
      BY <1>3, <1>9, <2>1, <3>1
  <2>2. CASE j > Len(out)
    <3>1. PICK n \in Waiting : out'[j] = FirstOf(n) /\ n = Oldest + (j - Len(out)) - 1
      BY <1>7, <2>2
    <3>2. CASE i \in 1 .. Len(out)
      BY <1>3, <3>1, <3>2
    <3>3. CASE i > Len(out)
      <4>1. PICK m \in Waiting : out'[i] = FirstOf(m) /\ m = Oldest + (i - Len(out)) - 1
        BY <1>7, <3>3
      <4>2. m < n
        BY <1>5, <1>6, <1>9, <3>1, <4>1
      <4> QED
        BY <1>4, <3>1, <4>1, <4>2
    <3> QED
      BY <1>5, <3>2, <3>3
  <2> QED
    BY <1>5, <2>1, <2>2
<1> QED
  BY <1>8, <1>9

\* The sender takes a slot, or a client comes: the slots waiting stay the same.
LEMMA LegacyTakePreserves ==
  ASSUME LegacyInv, TcpAccept \/ TcpTake \/ UdpTake
  PROVE  LegacyInv'
<1> USE LegacySizes
<1>1. LegacyTypeOK /\ Accounts
  BY DEF LegacyInv
<1>2. UNCHANGED <<mode, wr, dma, mpc, rd, buf_nr, lost, passed, slots, sem_free, missed>>
  BY DEF TcpAccept, TcpTake, UdpTake, main
<1>3. sbuf \in Nat /\ (sbuf + 1) % C \in 0 .. C - 1
  BY <1>1, DivMod DEF LegacyTypeOK
<1>4. CASE TcpAccept
  <2>1. /\ xpc = "accept" /\ conn' = conn + 1 /\ sbuf' = 0 /\ out' = <<>> /\ xpc' = "wait"
        /\ UNCHANGED <<sem_used, held>>
    BY <1>4 DEF TcpAccept
  <2>2. mode = "tcp" /\ held = 0 /\ Oldest' = Oldest /\ Waiting' = Waiting
    BY <1>1, <1>2, <2>1 DEF Accounts, LegacyTypeOK, Oldest, Waiting
  <2>3. LegacyTypeOK'
    BY <1>1, <1>2, <2>1 DEF LegacyTypeOK
  <2>4. Accounts'
    BY <1>1, <1>2, <2>1, <2>2 DEF Accounts, LegacyTypeOK
  <2>5. SlotNumbers'
    <3>1. conn' <= 1 => Oldest = 0
      BY <1>1, <2>1, <2>2 DEF Accounts, LegacyTypeOK, Oldest
    <3>2. 0 % C = 0
      BY AtZero DEF At
    <3> QED
      BY <1>2, <2>1, <2>2, <3>1, <3>2 DEF LegacyInv, SlotNumbers
  <2>6. DmaHolds' /\ MainFollows' /\ LastSlot' /\ SlotsOrdered'
    BY <1>2, <2>2, WaitingShrinks
  <2>7. OutOrdered'
    BY <2>1 DEF OutOrdered
  <2>8. NothingUnfilled'
    BY <1>1, <1>2, <2>1, <2>2 DEF LegacyInv, NothingUnfilled, Accounts, LegacyTypeOK
  <2> QED
    BY <2>3, <2>4, <2>5, <2>6, <2>7, <2>8 DEF LegacyInv
<1>5. CASE TcpTake
  <2>1. /\ mode = "tcp" /\ xpc = "wait" /\ sem_used > 0
        /\ sem_used' = sem_used - 1 /\ held' = 1 /\ xpc' = "send"
        /\ UNCHANGED <<conn, sbuf, out>>
    BY <1>5 DEF TcpTake
  <2>2. held = 0 /\ Oldest' = Oldest /\ Waiting' = Waiting
    BY <1>1, <1>2, <2>1 DEF Accounts, LegacyTypeOK, Oldest, Waiting
  <2>3. LegacyTypeOK'
    BY <1>1, <1>2, <2>1 DEF LegacyTypeOK
  <2>4. Accounts'
    BY <1>1, <1>2, <2>1, <2>2 DEF Accounts, LegacyTypeOK
  <2>5. SlotNumbers'
    BY <1>2, <2>1, <2>2 DEF LegacyInv, SlotNumbers
  <2>6. DmaHolds' /\ MainFollows' /\ LastSlot' /\ SlotsOrdered'
    BY <1>2, <2>2, WaitingShrinks
  <2>7. OutOrdered'
    BY <1>2, <2>1, <2>2 DEF LegacyInv, OutOrdered, MainPlace, FirstOf
  <2>8. NothingUnfilled'
    BY <1>1, <1>2, <2>1, <2>2 DEF LegacyInv, NothingUnfilled, LegacyTypeOK
  <2> QED
    BY <2>3, <2>4, <2>5, <2>6, <2>7, <2>8 DEF LegacyInv
<1>6. CASE UdpTake
  <2>1. /\ mode = "udp" /\ xpc = "wait" /\ sem_used > 0
        /\ sem_used' = sem_used - 1 /\ held' = held + 1
        /\ sbuf' = (sbuf + 1) % C
        /\ xpc' = IF held + 1 = Batch THEN "send" ELSE "wait"
        /\ UNCHANGED <<conn, out>>
    BY <1>6 DEF UdpTake
  <2>2. Oldest' = Oldest /\ Waiting' = Waiting
    BY <1>1, <1>2, <2>1 DEF LegacyTypeOK, Oldest, Waiting
  <2>3. LegacyTypeOK'
    BY <1>1, <1>2, <1>3, <2>1 DEF LegacyTypeOK
  <2>4. Accounts'
    <3>1. held \in Nat /\ held <= Batch /\ held # Batch
      BY <1>1, <2>1 DEF Accounts, LegacyTypeOK
    <3>2. held + 1 <= Batch
      BY <3>1
    <3> QED
      BY <1>1, <1>2, <2>1, <3>1, <3>2 DEF Accounts, LegacyTypeOK
  <2>5. SlotNumbers'
    <3>1. PICK t \in Int : t = passed - sem_used /\ passed' - sem_used' = t + 1
      BY <1>1, <1>2, <2>1 DEF LegacyTypeOK
    <3>2. sbuf = t % C
      BY <2>1, <3>1 DEF LegacyInv, SlotNumbers
    <3>3. sbuf' = (t + 1) % C
      BY <2>1, <3>1, <3>2, NextSlot
    <3> QED
      BY <1>2, <2>1, <3>1, <3>3 DEF LegacyInv, SlotNumbers
  <2>6. DmaHolds' /\ MainFollows' /\ LastSlot' /\ SlotsOrdered'
    BY <1>2, <2>2, WaitingShrinks
  <2>7. OutOrdered'
    BY <1>2, <2>1, <2>2 DEF LegacyInv, OutOrdered, MainPlace, FirstOf
  <2>8. NothingUnfilled'
    BY <1>1, <1>2, <2>1 DEF LegacyInv, NothingUnfilled
  <2> QED
    BY <2>3, <2>4, <2>5, <2>6, <2>7, <2>8 DEF LegacyInv
<1> QED
  BY <1>4, <1>5, <1>6

\* tcp_send returns: the slot sent was the one held longest, and filled.
LEMMA LegacySentPreserves ==
  ASSUME LegacyInv, TcpSent
  PROVE  LegacyInv'
<1> USE LegacySizes
<1>1. LegacyTypeOK /\ Accounts
  BY DEF LegacyInv
<1>2. /\ mode = "tcp" /\ xpc = "send" /\ sem_free' = sem_free + 1 /\ held' = 0
      /\ UNCHANGED <<mode, wr, dma, mpc, rd, buf_nr, lost, passed, slots, sem_used, conn, missed>>
  BY DEF TcpSent, main
<1>3. held = 1 /\ conn # 0
  BY <1>1, <1>2 DEF Accounts
<1>4. passed \in Nat /\ sem_used \in Nat /\ Oldest \in Nat /\ Oldest' = Oldest + 1 /\ Oldest < passed
  BY <1>1, <1>2, <1>3 DEF Accounts, LegacyTypeOK, Oldest
<1>5. \A n : n \in Waiting' <=> n \in Waiting /\ n >= Oldest + 1
  BY <1>2, <1>4 DEF Waiting
<1>6. Accounts'
  BY <1>1, <1>2, <1>3 DEF Accounts, LegacyTypeOK, TcpSent
<1>7. DmaHolds' /\ MainFollows' /\ LastSlot' /\ SlotsOrdered'
  BY <1>2, <1>5, WaitingShrinks
<1>8. sbuf \in 0 .. C - 1 /\ sbuf < passed /\ sbuf + 1 + sem_used <= passed
  BY <1>1, <1>2, <1>3 DEF LegacyInv, NothingUnfilled, LegacyTypeOK
<1>9. CASE out' = Append(out, slots[sbuf][1]) /\ sbuf' = (sbuf + 1) % C /\ xpc' = "wait"
  <2>1. slots[sbuf][1] \in Nat
    <3>1. slots[sbuf] \in [1 .. S -> Nat]
      BY <1>8 DEF LegacyInv, NothingUnfilled
    <3> QED
      BY <3>1
  <2>2. sbuf' \in 0 .. C - 1 /\ sbuf' <= sbuf + 1
    <3>1. CASE sbuf + 1 < C
      <4>1. (sbuf + 1) % C = sbuf + 1
        BY <1>8, <3>1, ModSmall
      <4> QED
        BY <1>8, <1>9, <3>1, <4>1
    <3>2. CASE sbuf + 1 = C
      <4>1. (sbuf + 1) % C = 0
        BY <3>2, ModSelf
      <4> QED
        BY <1>8, <1>9, <4>1
    <3> QED
      BY <1>8, <3>1, <3>2
  <2>3. /\ out' \in Seq(Nat) /\ Len(out') = Len(out) + 1 /\ out'[Len(out) + 1] = slots[sbuf][1]
        /\ \A i \in 1 .. Len(out) : out'[i] = out[i]
    BY <1>1, <1>9, <2>1 DEF LegacyTypeOK
  <2>4. LegacyTypeOK'
    BY <1>1, <1>2, <1>9, <2>2, <2>3 DEF LegacyTypeOK
  <2>5. conn <= 1 => sbuf = Oldest % C
    BY <1>2 DEF LegacyInv, SlotNumbers
  <2>6. SlotNumbers'
    <3>1. PICK t \in Nat : t = Oldest /\ Oldest' = t + 1
      BY <1>4
    <3>2. conn <= 1 => sbuf' = (t + 1) % C
      BY <1>9, <2>5, <3>1, NextSlot
    <3> QED
      BY <1>2, <3>1, <3>2 DEF LegacyInv, SlotNumbers
  <2>7. OutOrdered'
    <3>1. conn <= 1 => \A i \in 1 .. 1 : out'[Len(out) + i] = FirstOf(Oldest + i - 1)
      <4>1. Oldest + 1 - 1 = Oldest
        BY <1>4
      <4> QED
        BY <2>3, <2>5, <4>1 DEF FirstOf
    <3> QED
      BY <1>2, <1>3, <1>5, <2>3, <3>1, OutGrows
  <2>8. NothingUnfilled'
    BY <1>2, <1>4, <1>8, <2>2 DEF LegacyInv, NothingUnfilled
  <2> QED
    BY <1>6, <1>7, <2>4, <2>6, <2>7, <2>8 DEF LegacyInv
<1>10. CASE xpc' = "accept" /\ UNCHANGED <<out, sbuf>>
  <2>1. LegacyTypeOK'
    BY <1>1, <1>2, <1>10 DEF LegacyTypeOK
  <2>2. SlotNumbers'
    BY <1>2, <1>10 DEF LegacyInv, SlotNumbers
  <2>3. OutOrdered'
    <3>1. MainPlace' = MainPlace /\ \A n : FirstOf(n)' = FirstOf(n)
      BY <1>2 DEF MainPlace, FirstOf
    <3> QED
      BY <1>2, <1>5, <1>10, <3>1 DEF LegacyInv, OutOrdered
  <2>4. NothingUnfilled'
    BY <1>2, <1>10 DEF LegacyInv, NothingUnfilled
  <2> QED
    BY <1>6, <1>7, <2>1, <2>2, <2>3, <2>4 DEF LegacyInv
<1> QED
  BY <1>9, <1>10 DEF TcpSent

\* sendmmsg returns: what it took are the slots held longest, in their order.
LEMMA LegacyBatchPreserves ==
  ASSUME LegacyInv, UdpSent
  PROVE  LegacyInv'
<1> USE LegacySizes
<1>1. LegacyTypeOK /\ Accounts
  BY DEF LegacyInv
<1>2. /\ mode = "udp" /\ xpc = "send" /\ sem_free' = sem_free + Batch /\ held' = 0 /\ xpc' = "wait"
      /\ UNCHANGED <<mode, wr, dma, mpc, rd, buf_nr, lost, passed, slots, sem_used, conn, sbuf, missed>>
  BY DEF UdpSent, main
<1>3. PICK k \in 0 .. Batch :
        out' = out \o [j \in 1 .. k |-> slots[((sbuf + C) - Batch + (j - 1)) % C][1]]
  BY DEF UdpSent
<1>4. held = Batch /\ k \in 0 .. held /\ k \in Nat
  BY <1>1, <1>2 DEF Accounts
<1>5. /\ passed \in Nat /\ sem_used \in Nat /\ Oldest \in Nat /\ Oldest' = Oldest + Batch
      /\ Oldest + Batch <= passed /\ Oldest + Batch = passed - sem_used
  BY <1>1, <1>2, <1>4 DEF Accounts, LegacyTypeOK, Oldest
<1>6. \A n \in Waiting' : n \in Waiting /\ n >= Oldest + k
  BY <1>2, <1>4, <1>5 DEF Waiting
<1> DEFINE extra == [j \in 1 .. k |-> slots[((sbuf + C) - Batch + (j - 1)) % C][1]]
<1>7. ASSUME NEW j \in 1 .. k
      PROVE  extra[j] = FirstOf(Oldest + j - 1) /\ extra[j] \in Nat
  <2>1. PICK n \in Nat : n = Oldest + j - 1 /\ n < passed
    BY <1>4, <1>5
  <2>2. PICK t \in Int, d \in Int : t = passed - sem_used /\ d = Batch - (j - 1) /\ t - d = n
    BY <1>5, <2>1
  <2>3. sbuf = t % C
    BY <1>2, <2>2 DEF LegacyInv, SlotNumbers
  <2>4. (((t % C) + C) - d) % C = n % C
    BY <2>2, NextSlot
  <2>5. (sbuf + C) - Batch + (j - 1) = ((t % C) + C) - d
    BY <1>1, <2>2, <2>3 DEF LegacyTypeOK
  <2>6. extra[j] = slots[n % C][1]
    BY <2>4, <2>5
  <2>7. n % C \in 0 .. C - 1 /\ n % C < passed
    <3>1. n \div C \in Nat /\ (n \div C) * C \in Nat /\ n % C \in 0 .. C - 1
          /\ n = (n \div C) * C + (n % C)
      BY DivMod, DivNat
    <3> QED
      BY <1>5, <2>1, <3>1
  <2>8. slots[n % C] \in [1 .. S -> Nat]
    BY <2>7 DEF LegacyInv, NothingUnfilled
  <2> QED
    BY <2>1, <2>6, <2>8 DEF FirstOf
<1> HIDE DEF extra
<1>8. /\ out' \in Seq(Nat) /\ Len(out') = Len(out) + k
      /\ \A i \in 1 .. Len(out) : out'[i] = out[i]
      /\ \A i \in 1 .. k : out'[Len(out) + i] = FirstOf(Oldest + i - 1)
  <2>1. extra \in [1 .. k -> Nat]
    BY <1>7 DEF extra
  <2>2. extra \in Seq(Nat) /\ Len(extra) = k
    BY <1>4, <2>1
  <2>3. out' = out \o extra /\ out \in Seq(Nat) /\ Len(out) \in Nat
    BY <1>1, <1>3 DEF LegacyTypeOK, extra
  <2>4. out' \in Seq(Nat) /\ Len(out') = Len(out) + k
    <3>1. out \o extra \in Seq(Nat)
      BY <2>2, <2>3, ConcatProperties
    <3>2. Len(out \o extra) = Len(out) + Len(extra)
      BY <2>2, <2>3, ConcatProperties
    <3> QED
      BY <2>2, <2>3, <3>1, <3>2
  <2>5. \A i \in 1 .. Len(out) : out'[i] = out[i]
    BY <2>2, <2>3
  <2>6. ASSUME NEW i \in 1 .. k
        PROVE  out'[Len(out) + i] = extra[i]
    BY <1>4, <2>2, <2>3
  <2> QED
    BY <1>7, <2>4, <2>5, <2>6
<1>9. LegacyTypeOK'
  BY <1>1, <1>2, <1>8 DEF LegacyTypeOK
<1>10. Accounts'
  BY <1>1, <1>2, <1>4 DEF Accounts, LegacyTypeOK
<1>11. SlotNumbers' /\ NothingUnfilled'
  BY <1>2 DEF LegacyInv, SlotNumbers, NothingUnfilled
<1>12. DmaHolds' /\ MainFollows' /\ LastSlot' /\ SlotsOrdered'
  BY <1>2, <1>6, WaitingShrinks
<1>13. OutOrdered'
  BY <1>2, <1>4, <1>6, <1>8, OutGrows
<1> QED
  BY <1>9, <1>10, <1>11, <1>12, <1>13 DEF LegacyInv

\* The inductive invariant of the legacy receiver.
THEOREM LegacyInvariance == LegacySpec => []LegacyInv
<1>1. LegacyInv /\ UNCHANGED lvars => LegacyInv'
  BY DEF lvars, LegacyInv, LegacyTypeOK, Accounts, SlotNumbers, DmaHolds, MainFollows, MainPlace,
         LastSlot, SlotsOrdered, OutOrdered, NothingUnfilled, Waiting, Oldest, FirstOf
<1>2. LegacyInv /\ [LegacyNext]_lvars => LegacyInv'
  BY <1>1, LegacyHwPreserves, LegacyPollPreserves, LegacyCopyPreserves, LegacyTakePreserves,
     LegacySentPreserves, LegacyBatchPreserves DEF LegacyNext
<1> QED
  BY <1>2, LegacyInitEstablishes, PTL DEF LegacySpec

\* main never copies into a slot the sender holds: their numbers differ.
LEMMA HeldIsNotCopied == LegacyInv => SlotNotShared
<1> USE LegacySizes
<1> SUFFICES ASSUME LegacyInv, conn <= 1, mpc = "copy"
             PROVE  buf_nr \notin HeldSlots
  BY DEF SlotNotShared
<1>1. LegacyTypeOK /\ Accounts
  BY DEF LegacyInv
<1>2. passed \in Nat /\ buf_nr = passed % C /\ sem_used \in Nat /\ held \in Nat
      /\ sem_used + held < C
  BY <1>1 DEF LegacyInv, SlotNumbers, LegacyTypeOK, Accounts
<1>3. ASSUME mode = "tcp", held = 1
      PROVE  buf_nr # sbuf
  <2>1. PICK t \in Int : t = Oldest /\ t < passed /\ passed - t < C
    BY <1>2, <1>3 DEF Oldest
  <2>2. sbuf = t % C
    BY <1>1, <1>3, <2>1 DEF LegacyInv, SlotNumbers, Accounts
  <2>3. passed \in Int
    BY <1>2
  <2> QED
    BY <1>2, <2>1, <2>2, <2>3, SlotsDiffer
<1>4. ASSUME mode = "udp", NEW j \in 1 .. held
      PROVE  buf_nr # ((sbuf + C) - j) % C
  <2>1. PICK t \in Int, n \in Int : t = passed - sem_used /\ n = t - j /\ n < passed /\ passed - n < C
    BY <1>2
  <2>2. sbuf = t % C /\ j \in Int
    BY <1>4, <2>1 DEF LegacyInv, SlotNumbers
  <2>3. (((t % C) + C) - j) % C = n % C
    BY <2>1, <2>2, NextSlot
  <2>4. passed \in Int
    BY <1>2
  <2>5. n % C # passed % C
    BY <2>1, <2>4, SlotsDiffer
  <2> QED
    BY <1>2, <2>2, <2>3, <2>5
<1> QED
  BY <1>1, <1>3, <1>4 DEF HeldSlots, LegacyTypeOK

\* What the accounts of main and of the sender, two semaphores and two slot numbers, add up
\* to: no slot is overwritten while it is sent, the bytes go out in order and none twice, and
\* the counters of lost bytes and of blocks tell where main is in the stream.
THEOREM SlotsAccounted == LegacySpec => []SlotsAgree
<1> USE LegacySizes
<1>1. ASSUME LegacyInv
      PROVE  SlotsAgree
  <2>1. LegacyTypeOK /\ Accounts
    BY <1>1 DEF LegacyInv
  <2>2. sem_used \in 0 .. C /\ sem_free \in 0 .. C /\ held \in 0 .. C /\ rd \in 0 .. Ring - 1
    BY <2>1 DEF Accounts, LegacyTypeOK
  <2>3. SlotNotShared
    BY <1>1, HeldIsNotCopied
  <2>4. SlotsInOrder
    BY <1>1 DEF LegacyInv, OutOrdered, SlotsInOrder
  <2>5. LostExact
    <3>1. ~missed => rd = (S * passed + lost) % Ring
      BY <1>1 DEF LegacyInv, MainFollows, MainPlace
    <3>2. ((buf_nr + C) - 1) % C = (passed - 1) % C
      <4>1. passed \in Int /\ 1 \in Int /\ buf_nr = passed % C
        BY <1>1, <2>1 DEF LegacyInv, SlotNumbers, LegacyTypeOK
      <4>2. (((passed % C) + C) - 1) % C = (passed - 1) % C
        BY <4>1, NextSlot
      <4> QED
        BY <4>1, <4>2
    <3> QED
      BY <1>1, <3>1, <3>2 DEF LegacyInv, LastSlot, LostExact
  <2> QED
    BY <2>2, <2>3, <2>4, <2>5 DEF SlotsAgree
<1> QED
  BY <1>1, LegacyInvariance, PTL
-----------------------------------------------------------------------------
(* The register file. *)

LiteTypeOK ==
  /\ regs \in [RwRegs \cup RoRegs -> Words] /\ want \in [RwRegs \cup RoRegs -> Words]
  /\ wmst \in [aw : BOOLEAN, w : BOOLEAN, addr : Offsets, data : Words, busy : BOOLEAN]
  /\ wslv \in [aw : BOOLEAN, w : BOOLEAN, addr : Offsets, data : Words, b : BOOLEAN]
  /\ rmst \in [ar : BOOLEAN, addr : Offsets, busy : BOOLEAN]
  /\ rslv \in [arready : BOOLEAN, ren : BOOLEAN, rack : BOOLEAN, addr : Offsets,
               s_rdata : Words \cup {Unknown}, rvalid : BOOLEAN, rdata : Words \cup {Unknown}]

\* Address and data of a write are each with the master or with the slave until it
\* has landed, and nothing of it is left then.
WriteHandshake ==
  /\ wmst.busy /\ ~wslv.b => (wmst.aw <=> ~wslv.aw) /\ (wmst.w <=> ~wslv.w)
  /\ ~wmst.busy \/ wslv.b => ~wmst.aw /\ ~wmst.w /\ ~wslv.aw /\ ~wslv.w
  /\ wslv.b => wmst.busy
  /\ wslv.aw => wslv.addr = wmst.addr
  /\ wslv.w => wslv.data = wmst.data

\* Only the register of the write under way may still be what it was.
WriteLands ==
  /\ wmst.busy /\ wmst.addr \in RwRegs => want[wmst.addr] = wmst.data
  /\ \A a \in RwRegs : regs[a] = want[a] \/ (wmst.busy /\ wmst.addr = a /\ ~wslv.b)

\* A read is at one of its stages: offered, decoded, or answered.
ReadHandshake ==
  /\ (rslv.arready <=> rslv.ren) /\ (rslv.ren => rmst.ar)
  /\ rmst.ar => ~rslv.rack /\ ~rslv.rvalid
  /\ rslv.rack => ~rslv.rvalid
  /\ rmst.busy <=> (rmst.ar \/ rslv.rack \/ rslv.rvalid)

\* What it has picked up is a value of its register since it began.
ReadSpans ==
  /\ rmst.busy => Value(regs, rmst.addr) \in span
  /\ rslv.ren => rslv.addr = rmst.addr
  /\ rslv.rack => rslv.s_rdata \in span
  /\ rslv.rvalid => rslv.rdata \in span

LiteInv == LiteTypeOK /\ WriteHandshake /\ WriteLands /\ ReadHandshake /\ ReadSpans

\* Out of reset nothing is under way.
LEMMA LiteInitEstablishes == AxiLiteInit => LiteInv
<1> SUFFICES ASSUME AxiLiteInit
             PROVE  LiteInv
  OBVIOUS
<1>1. (CHOOSE a \in RwRegs : TRUE) \in Offsets /\ 0 \in Words
  BY AxiLiteAssumption DEF Offsets
<1>2. LiteTypeOK
  BY <1>1 DEF AxiLiteInit, LiteTypeOK
<1> QED
  BY <1>2 DEF AxiLiteInit, LiteInv, WriteHandshake, WriteLands, ReadHandshake, ReadSpans

\* The master begins a write.
LEMMA LiteWritePreserves ==
  ASSUME LiteInv, MasterWrites
  PROVE  LiteInv'
<1> USE DEF LiteInv
<1>1. PICK a \in Offsets, x \in Words :
        /\ wmst' = [aw |-> TRUE, w |-> TRUE, addr |-> a, data |-> x, busy |-> TRUE]
        /\ want' = IF a \in RwRegs THEN [want EXCEPT ![a] = x] ELSE want
  BY DEF MasterWrites
<1>2. UNCHANGED <<regs, wslv, rmst, rslv, span>> /\ ~wmst.busy
  BY DEF MasterWrites
<1>3. LiteTypeOK'
  BY <1>1, <1>2 DEF LiteTypeOK
<1>4. WriteHandshake' /\ WriteLands'
  BY <1>1, <1>2 DEF LiteTypeOK, WriteHandshake, WriteLands
<1>5. ReadHandshake' /\ ReadSpans'
  BY <1>2 DEF ReadHandshake, ReadSpans, Value
<1> QED
  BY <1>3, <1>4, <1>5

\* The master begins a read.
LEMMA LiteReadPreserves ==
  ASSUME LiteInv, MasterReads
  PROVE  LiteInv'
<1> USE DEF LiteInv
<1>1. PICK a \in Offsets : rmst' = [ar |-> TRUE, addr |-> a, busy |-> TRUE] /\ span' = {Value(regs, a)}
  BY DEF MasterReads
<1>2. UNCHANGED <<regs, wmst, wslv, rslv, want>> /\ ~rmst.busy
  BY DEF MasterReads
<1>3. LiteTypeOK'
  BY <1>1, <1>2 DEF LiteTypeOK
<1>4. WriteHandshake' /\ WriteLands'
  BY <1>2 DEF WriteHandshake, WriteLands
<1>5. ReadHandshake' /\ ReadSpans'
  BY <1>1, <1>2 DEF ReadHandshake, ReadSpans, Value
<1> QED
  BY <1>3, <1>4, <1>5

\* An edge of the bus clock moves all four processes together.
LEMMA LiteEdgePreserves ==
  ASSUME LiteInv, LiteEdge
  PROVE  LiteInv'
<1> USE DEF LiteInv
<1>1. PICK awv \in {FALSE, wmst.aw}, wv \in {FALSE, wmst.w}, bready \in BOOLEAN, rready \in BOOLEAN :
        /\ AxiWrite(awv, wv, bready) /\ RegWrite /\ AxiRead(rready)
        /\ wmst' = [wmst EXCEPT !.aw = @ /\ ~awv, !.w = @ /\ ~wv, !.busy = @ /\ ~(wslv.b /\ bready)]
        /\ rmst' = [rmst EXCEPT !.ar = @ /\ ~rslv.arready, !.busy = @ /\ ~(rslv.rvalid /\ rready)]
        /\ span' = IF rmst'.busy THEN span \cup {Value(regs', rmst.addr)} ELSE {}
        /\ UNCHANGED <<cmds, want>>
  BY Zenon DEF LiteEdge
<1>2. LiteTypeOK'
  <2>1. regs' \in [RwRegs \cup RoRegs -> Words] /\ want' = want
    <3>1. PICK hw_regs \in {regs} \cup {[regs EXCEPT ![r] = x] : r \in RoRegs, x \in Words} :
            regs' = IF Lands /\ wslv.addr \in RwRegs
                    THEN [hw_regs EXCEPT ![wslv.addr] = wslv.data] ELSE hw_regs
      BY <1>1 DEF RegWrite
    <3>2. hw_regs \in [RwRegs \cup RoRegs -> Words] /\ wslv.data \in Words
      BY DEF LiteTypeOK
    <3> QED
      BY <1>1, <3>1, <3>2
  <2>2. wmst' \in [aw : BOOLEAN, w : BOOLEAN, addr : Offsets, data : Words, busy : BOOLEAN]
    <3>1. wmst' = [aw |-> wmst.aw /\ ~awv, w |-> wmst.w /\ ~wv, addr |-> wmst.addr,
                   data |-> wmst.data, busy |-> wmst.busy /\ ~(wslv.b /\ bready)]
      BY <1>1 DEF LiteTypeOK
    <3> QED
      BY <3>1 DEF LiteTypeOK
  <2>3. wslv' \in [aw : BOOLEAN, w : BOOLEAN, addr : Offsets, data : Words, b : BOOLEAN]
    BY <1>1 DEF LiteTypeOK, AxiWrite, Lands
  <2>4. rmst' \in [ar : BOOLEAN, addr : Offsets, busy : BOOLEAN]
    BY <1>1 DEF LiteTypeOK
  <2>5. rslv' \in [arready : BOOLEAN, ren : BOOLEAN, rack : BOOLEAN, addr : Offsets,
               s_rdata : Words \cup {Unknown}, rvalid : BOOLEAN, rdata : Words \cup {Unknown}]
    <3>1. rslv.ren => Value(regs, rslv.addr) \in Words \cup {Unknown}
      BY DEF LiteTypeOK, Value, Offsets
    <3> QED
      BY <1>1, <3>1 DEF LiteTypeOK, AxiRead
  <2> QED
    BY <2>1, <2>2, <2>3, <2>4, <2>5 DEF LiteTypeOK
<1>3. WriteHandshake'
  BY <1>1 DEF LiteTypeOK, WriteHandshake, AxiWrite, Lands
<1>4. WriteLands'
  BY <1>1, AxiLiteAssumption DEF LiteTypeOK, WriteHandshake, WriteLands, AxiWrite, RegWrite, Lands
<1>5. ReadHandshake'
  BY <1>1 DEF LiteTypeOK, ReadHandshake, AxiRead
<1>6. ReadSpans'
  BY <1>1 DEF LiteTypeOK, ReadHandshake, ReadSpans, AxiRead
<1> QED
  BY <1>2, <1>3, <1>4, <1>5, <1>6

\* The inductive invariant of the register file.
THEOREM LiteInvariance == AxiLiteSpec => []LiteInv
<1>1. LiteInv /\ [AxiLiteNext]_liteown => LiteInv'
  <2>1. LiteInv /\ UNCHANGED liteown => LiteInv'
    BY DEF liteown, LiteInv, LiteTypeOK, WriteHandshake, WriteLands, ReadHandshake, ReadSpans, Value
  <2> QED
    BY <2>1, LiteEdgePreserves, LiteWritePreserves, LiteReadPreserves DEF AxiLiteNext
<1> QED
  BY <1>1, LiteInitEstablishes, PTL DEF AxiLiteSpec

\* Whatever the order address and data come in and however late master and slave are,
\* an answered write has changed its register and no other, and a read gets a value its
\* register had since it began.
THEOREM RegistersHold == AxiLiteSpec => []RegsAsWritten
<1>1. LiteInv => RegsAsWritten
  BY DEF LiteInv, WriteHandshake, WriteLands, ReadHandshake, ReadSpans, RegsAsWritten
<1> QED
  BY <1>1, LiteInvariance, PTL
=============================================================================
