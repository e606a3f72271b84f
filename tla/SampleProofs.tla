----------------------------- MODULE SampleProofs -----------------------------
(* The way of the samples through the FPGA, for every depth of the FIFOs and     *)
(* of the synchronizers, however long the line: each part has an inductive      *)
(* invariant of named conjuncts, kept by each edge of each clock and by each    *)
(* call of the driver.                                                          *)
EXTENDS Streams, FiniteSetTheorems, SequenceTheorems, TLAPS
-----------------------------------------------------------------------------
(* The crossings. *)

Stages == 1 .. SyncStages
Chain == [Stages -> BOOLEAN]

Pulses == [level : BOOLEAN, old : BOOLEAN, sync : Chain, cnt : Nat]
Controls == [en : BOOLEAN, rst : BOOLEAN, next : {"open", "opened", "enable", "release"},
             opens : Nat, edge : BOOLEAN]

CrossTypeOK ==
  /\ inctl \in Controls
  /\ cross \in [en : Chain, rst : Chain]
  /\ pulse \in Pulses
  /\ awake \in BOOLEAN /\ rate \in 0 .. 2

\* Two stages at least, and a chain is a sequence of them.
LEMMA ChainIs ==
  /\ SyncStages \in Nat /\ SyncStages >= 2
  /\ \A c \in Chain : c \in Seq(BOOLEAN) /\ Len(c) = SyncStages
<1>1. SyncStages \in Nat /\ SyncStages >= 2
  BY CrossingAssumption
<1>2. ASSUME NEW c \in Chain
      PROVE  c \in Seq(BOOLEAN) /\ Len(c) = SyncStages
  BY <1>1 DEF Chain, Stages
<1> QED
  BY <1>1, <1>2

\* A chain moves on by one stage, and takes what it is given.
LEMMA ShiftIs ==
  ASSUME NEW c \in Chain, NEW x \in BOOLEAN
  PROVE  /\ Shift(x, c) \in Chain
         /\ Shift(x, c)[1] = x
         /\ \A k \in Stages : k > 1 => Shift(x, c)[k] = c[k - 1]
         /\ Newest(c) = c[SyncStages]
<1>1. SyncStages \in Nat /\ SyncStages >= 2 /\ c \in Seq(BOOLEAN) /\ Len(c) = SyncStages
  BY ChainIs
<1>2. /\ Front(c) \in Seq(BOOLEAN) /\ Len(Front(c)) = SyncStages - 1
      /\ \A k \in 1 .. SyncStages - 1 : Front(c)[k] = c[k]
  BY <1>1 DEF Front
<1>3. <<x>> \in Seq(BOOLEAN) /\ Len(<<x>>) = 1 /\ <<x>>[1] = x
  OBVIOUS
<1>4. /\ <<x>> \o Front(c) \in Seq(BOOLEAN) /\ Len(<<x>> \o Front(c)) = SyncStages
      /\ \A k \in Stages : (<<x>> \o Front(c))[k] = IF k <= 1 THEN x ELSE Front(c)[k - 1]
  <2>1. /\ <<x>> \o Front(c) \in Seq(BOOLEAN) /\ Len(<<x>> \o Front(c)) = 1 + (SyncStages - 1)
        /\ \A k \in 1 .. 1 + (SyncStages - 1) :
             (<<x>> \o Front(c))[k] = IF k <= 1 THEN <<x>>[k] ELSE Front(c)[k - 1]
    BY <1>2, <1>3, ConcatProperties
  <2>2. 1 + (SyncStages - 1) = SyncStages
    BY <1>1
  <2>3. ASSUME NEW k \in Stages
        PROVE  (<<x>> \o Front(c))[k] = IF k <= 1 THEN x ELSE Front(c)[k - 1]
    <3>1. k \in 1 .. 1 + (SyncStages - 1) /\ (k <= 1 => k = 1)
      BY <2>2 DEF Stages
    <3> QED
      BY <1>3, <2>1, <3>1
  <2> QED
    BY <2>1, <2>2, <2>3
<1>5. Shift(x, c) \in Chain
  <2>1. <<x>> \o Front(c) \in [1 .. SyncStages -> BOOLEAN]
    BY <1>4, LenProperties
  <2> QED
    BY <2>1 DEF Shift, Chain, Stages
<1>6. Shift(x, c)[1] = x
  BY <1>1, <1>4 DEF Shift, Stages
<1>7. ASSUME NEW k \in Stages, k > 1
      PROVE  Shift(x, c)[k] = c[k - 1]
  BY <1>1, <1>2, <1>4, <1>7 DEF Shift, Stages
<1> QED
  BY <1>1, <1>5, <1>6, <1>7 DEF Newest

\* How often a line changes: a stage more in front is one more change, or none.
LEMMA ChangesFirst ==
  ASSUME NEW d \in Seq(BOOLEAN), Len(d) > 0, NEW x \in BOOLEAN
  PROVE  /\ Changes(d) \in Nat
         /\ Changes(<<x>> \o d) = One(x # d[1]) + Changes(d)
<1>1. PICK n \in Nat : n = Len(d) /\ n > 0
  BY LenProperties
<1> DEFINE J == {k \in 1 .. n - 1 : d[k] # d[k + 1]}
           e == <<x>> \o d
           U == {k \in 2 .. n : d[k - 1] # d[k]}
<1>2. IsFiniteSet(J) /\ Cardinality(J) \in Nat /\ Changes(d) = Cardinality(J)
  <2>1. IsFiniteSet(1 .. n - 1)
    BY FS_Interval
  <2>2. IsFiniteSet(J)
    BY <2>1, FS_Subset
  <2> QED
    BY <1>1, <2>2, FS_CardinalityType DEF Changes
<1>3. /\ Len(e) = n + 1 /\ \A k \in 1 .. n + 1 : e[k] = IF k = 1 THEN x ELSE d[k - 1]
  <2>1. <<x>> \in Seq(BOOLEAN) /\ Len(<<x>>) = 1 /\ <<x>>[1] = x
    OBVIOUS
  <2>2. Len(e) = 1 + n /\ \A k \in 1 .. 1 + n : e[k] = IF k <= 1 THEN <<x>>[k] ELSE d[k - 1]
    BY <1>1, <2>1, ConcatProperties
  <2> QED
    BY <1>1, <2>1, <2>2
<1>4. IsFiniteSet(U) /\ Cardinality(U) = Cardinality(J)
  <2> DEFINE f == [k \in J |-> k + 1]
  <2>1. f \in [J -> U] /\ \A a, b \in J : f[a] = f[b] => a = b
    BY <1>1
  <2>2. ASSUME NEW u \in U PROVE \E k \in J : f[k] = u
    <3>1. u - 1 \in J /\ f[u - 1] = u
      BY <1>1
    <3> QED
      BY <3>1
  <2>3. f \in Bijection(J, U)
    BY <2>1, <2>2 DEF Bijection, Injection, Surjection, IsInjective
  <2> QED
    BY <1>2, <2>3, FS_Bijection DEF ExistsBijection
<1>5. {k \in 1 .. Len(e) - 1 : e[k] # e[k + 1]} = IF x # d[1] THEN U \cup {1} ELSE U
  BY <1>1, <1>3
<1>6. Changes(e) = IF x # d[1] THEN Cardinality(U \cup {1}) ELSE Cardinality(U)
  BY <1>5 DEF Changes
<1>7. Cardinality(U \cup {1}) = Cardinality(U) + 1
  <2>1. 1 \notin U
    BY <1>1
  <2> QED
    BY <1>4, <2>1, FS_AddElement
<1> HIDE DEF J, U, e
<1>8. Changes(e) = One(x # d[1]) + Cardinality(J)
  BY <1>2, <1>4, <1>6, <1>7 DEF One
<1> QED
  BY <1>2, <1>8 DEF e

\* The last stage leaves as one change less, or none.
LEMMA ChangesLast ==
  ASSUME NEW c \in Chain
  PROVE  /\ Changes(Front(c)) \in Nat
         /\ Changes(c) = Changes(Front(c)) + One(c[SyncStages] # c[SyncStages - 1])
<1>1. PICK n \in Nat : n = SyncStages /\ n >= 2 /\ c \in Seq(BOOLEAN) /\ Len(c) = n
  BY ChainIs
<1>2. /\ Front(c) \in Seq(BOOLEAN) /\ Len(Front(c)) = n - 1
      /\ \A k \in 1 .. n - 1 : Front(c)[k] = c[k]
  BY <1>1 DEF Front
<1> DEFINE J == {k \in 1 .. n - 2 : c[k] # c[k + 1]}
<1>3. IsFiniteSet(J) /\ Cardinality(J) \in Nat
  <2>1. IsFiniteSet(1 .. n - 2)
    BY FS_Interval
  <2>2. IsFiniteSet(J)
    BY <2>1, FS_Subset
  <2> QED
    BY <2>2, FS_CardinalityType
<1>4. {k \in 1 .. Len(Front(c)) - 1 : Front(c)[k] # Front(c)[k + 1]} = J
  BY <1>1, <1>2
<1>5. {k \in 1 .. Len(c) - 1 : c[k] # c[k + 1]}
        = IF c[n] # c[n - 1] THEN J \cup {n - 1} ELSE J
  BY <1>1
<1>6. Cardinality(J \cup {n - 1}) = Cardinality(J) + 1
  <2>1. n - 1 \notin J
    BY <1>1
  <2> QED
    BY <1>3, <2>1, FS_AddElement
<1>7. Changes(Front(c)) = Cardinality(J)
  BY <1>4 DEF Changes
<1>8. Changes(c) = IF c[n] # c[n - 1] THEN Cardinality(J \cup {n - 1}) ELSE Cardinality(J)
  BY <1>5 DEF Changes
<1> HIDE DEF J
<1> QED
  BY <1>1, <1>3, <1>6, <1>7, <1>8 DEF One

\* What the counter shows is what has reached the first stage and, at most, one more.
Arrived(p) == p.cnt + Changes(p.sync)
Shown(p) == p.cnt + Changes(<<p.level>> \o p.sync)

\* The counter shows what has arrived and, if the level has moved, one more.
LEMMA CountedIs ==
  ASSUME NEW p \in Pulses
  PROVE  /\ Arrived(p) \in Nat /\ Shown(p) \in Nat
         /\ Shown(p) = Arrived(p) + One(p.level # p.sync[1])
<1>1. p.level \in BOOLEAN /\ p.sync \in Chain /\ p.cnt \in Nat
  BY DEF Pulses
<1>2. p.sync \in Seq(BOOLEAN) /\ Len(p.sync) > 0
  BY <1>1, ChainIs
<1>3. /\ Changes(p.sync) \in Nat
      /\ Changes(<<p.level>> \o p.sync) = One(p.level # p.sync[1]) + Changes(p.sync)
  BY <1>1, <1>2, ChangesFirst
<1>4. One(p.level # p.sync[1]) \in {0, 1}
  BY DEF One
<1> QED
  BY <1>1, <1>3, <1>4 DEF Arrived, Shown

\* An edge of the bus clock loses no pulse: what was on its way to the first stage arrives.
LEMMA AclkCounts ==
  ASSUME CrossTypeOK, CrossAclk
  PROVE  /\ CrossTypeOK' /\ rate' = 0 /\ cross' = cross
         /\ pulse'.level = pulse.level /\ pulse'.old = pulse.old /\ pulse'.sync[1] = pulse.level
         /\ inctl'.en = inctl.en /\ inctl'.rst = inctl.rst /\ inctl'.next = inctl.next
         /\ Arrived(pulse') = Shown(pulse) /\ Shown(pulse') = Shown(pulse)
<1>1. /\ pulse \in Pulses /\ SyncStages \in Nat /\ inctl \in Controls
      /\ cross \in [en : Chain, rst : Chain] /\ awake \in BOOLEAN
  BY ChainIs DEF CrossTypeOK
<1> DEFINE c == pulse.sync
           last == One(c[SyncStages] # c[SyncStages - 1])
<1>2. /\ pulse' = [pulse EXCEPT !.sync = Shift(pulse.level, c), !.cnt = pulse.cnt + last]
      /\ rate' = 0 /\ cross' = cross /\ inctl' = [inctl EXCEPT !.edge = TRUE]
      /\ awake' \in {TRUE, FALSE, awake}
  BY DEF CrossAclk
<1>3. c \in Chain /\ pulse.level \in BOOLEAN /\ pulse.cnt \in Nat /\ pulse.old \in BOOLEAN
  BY <1>1 DEF Pulses
<1>4. Shift(pulse.level, c) \in Chain /\ Shift(pulse.level, c)[1] = pulse.level
  BY <1>3, ShiftIs
<1>5. last \in {0, 1}
  BY DEF One
<1> HIDE DEF last
<1>6. /\ pulse'.level = pulse.level /\ pulse'.old = pulse.old /\ pulse'.sync = Shift(pulse.level, c)
      /\ pulse'.cnt = pulse.cnt + last
  BY <1>1, <1>2 DEF Pulses
<1>7. pulse' \in Pulses
  <2>1. pulse.cnt + last \in Nat
    BY <1>3, <1>5
  <2> QED
    BY <1>1, <1>2, <1>4, <2>1 DEF Pulses
<1>8. CrossTypeOK'
  <2>1. inctl' \in Controls
    BY <1>1, <1>2 DEF Controls
  <2>2. rate' \in 0 .. 2
    BY <1>2
  <2>3. awake' \in BOOLEAN
    BY <1>1, <1>2, Zenon
  <2> QED
    BY <1>1, <1>2, <1>7, <2>1, <2>2, <2>3 DEF CrossTypeOK
<1>9. Changes(Front(c)) \in Nat /\ Changes(c) = Changes(Front(c)) + last
  BY <1>3, ChangesLast DEF last
<1>10. Changes(Shift(pulse.level, c)) = One(pulse.level # c[1]) + Changes(Front(c))
  <2>1. PICK n \in Nat : n = SyncStages /\ n >= 2 /\ c \in Seq(BOOLEAN) /\ Len(c) = n
    BY <1>3, ChainIs
  <2>2. Front(c) \in Seq(BOOLEAN) /\ Len(Front(c)) = n - 1 /\ Front(c)[1] = c[1]
    BY <2>1 DEF Front
  <2> QED
    BY <1>3, <2>1, <2>2, ChangesFirst DEF Shift
<1>11. Shown(pulse) = Arrived(pulse) + One(pulse.level # c[1]) /\ Arrived(pulse) = pulse.cnt + Changes(c)
  BY <1>1, CountedIs DEF Arrived
<1>12. Arrived(pulse') = pulse'.cnt + Changes(pulse'.sync)
  BY DEF Arrived
<1>13. Shown(pulse') = Arrived(pulse') + One(pulse'.level # pulse'.sync[1]) /\ Arrived(pulse') \in Nat
  BY <1>7, CountedIs
<1>14. One(pulse'.level # pulse'.sync[1]) = 0
  BY <1>4, <1>6 DEF One
<1>15. One(pulse.level # c[1]) \in {0, 1}
  BY DEF One
<1>16. Arrived(pulse') = Shown(pulse) /\ Shown(pulse') = Shown(pulse)
  BY <1>3, <1>5, <1>6, <1>9, <1>10, <1>11, <1>12, <1>13, <1>14, <1>15
<1> QED
  BY <1>1, <1>2, <1>4, <1>6, <1>8, <1>16 DEF Controls

\* At most one pulse begins between two edges of the bus clock, which the first stage has
\* not seen when an edge of the chip's clock meets the reset.
PulseWaits(x) ==
  /\ rate = 0 => pulse.level = pulse.sync[1]
  /\ rate = 1 /\ pulse.level # pulse.sync[1] => pulse.old \/ ~x

\* The event is still to be counted.
Pending(x) == One(x /\ ~pulse.old)

\* An edge of the chip's clock counts the event before it, unless the reset is there.
LEMMA IqCounts ==
  ASSUME CrossTypeOK, NEW x \in BOOLEAN, CrossIq(x), PulseWaits(x)
  PROVE  /\ CrossTypeOK' /\ rate' = rate + 1 /\ inctl' = inctl
         /\ cross'.en[1] = inctl.en /\ cross'.rst[1] = inctl.rst
         /\ \A k \in Stages : k > 1 => cross'.en[k] = cross.en[k - 1] /\ cross'.rst[k] = cross.rst[k - 1]
         /\ Arrived(pulse') = Arrived(pulse)
         /\ ~IqReset => Shown(pulse') = Shown(pulse) + Pending(x) /\ pulse'.old = x
         /\ IqReset => Shown(pulse') <= Shown(pulse) + One(pulse.level) /\ ~pulse'.old /\ ~pulse'.level
         /\ \A y \in BOOLEAN : (IqReset => ~y) => PulseWaits(y)'
         /\ IqReset /\ (x => ~pulse.old) => Shown(pulse) + One(x) <= Shown(pulse') + One(pulse.level \/ x)
<1>1. /\ pulse \in Pulses
      /\ cross \in [en : Chain, rst : Chain] /\ inctl.en \in BOOLEAN /\ inctl.rst \in BOOLEAN
      /\ awake \in BOOLEAN /\ rate \in 0 .. 2
  BY DEF CrossTypeOK, Controls
<1>2. /\ rate < 2 /\ rate' = rate + 1 /\ inctl' = inctl /\ awake' = awake
      /\ cross' = [en |-> Shift(inctl.en, cross.en), rst |-> Shift(inctl.rst, cross.rst)]
      /\ pulse' = PulseIn(pulse, x)
  BY DEF CrossIq
<1>3. /\ pulse' \in Pulses
      /\ pulse'.sync = pulse.sync /\ pulse'.cnt = pulse.cnt
      /\ pulse'.old = (~IqReset /\ x)
      /\ pulse'.level = (~IqReset /\ (pulse.level # (x /\ ~pulse.old)))
  <2>1. CASE IqReset
    BY <1>1, <1>2, <2>1 DEF PulseIn, Pulses
  <2>2. CASE ~IqReset
    <3>1. pulse' = [pulse EXCEPT !.level = (@ # (x /\ ~pulse.old)), !.old = x]
      BY <1>2, <2>2 DEF PulseIn
    <3> QED
      BY <1>1, <2>2, <3>1 DEF Pulses
  <2> QED
    BY <2>1, <2>2
<1>4. cross' \in [en : Chain, rst : Chain]
  <2>1. Shift(inctl.en, cross.en) \in Chain /\ Shift(inctl.rst, cross.rst) \in Chain
    BY <1>1, ShiftIs
  <2> QED
    BY <1>2, <2>1
<1>5. CrossTypeOK'
  BY <1>1, <1>2, <1>3, <1>4 DEF CrossTypeOK
<1>6. /\ cross'.en[1] = inctl.en /\ cross'.rst[1] = inctl.rst
      /\ \A k \in Stages : k > 1 => cross'.en[k] = cross.en[k - 1] /\ cross'.rst[k] = cross.rst[k - 1]
  <2>1. cross.en \in Chain /\ cross.rst \in Chain
    BY <1>1
  <2>2. /\ Shift(inctl.en, cross.en)[1] = inctl.en
        /\ \A k \in Stages : k > 1 => Shift(inctl.en, cross.en)[k] = cross.en[k - 1]
    <3>1. PICK c \in Chain, z \in BOOLEAN : c = cross.en /\ z = inctl.en
      BY <1>1, <2>1
    <3>2. Shift(z, c)[1] = z /\ \A k \in Stages : k > 1 => Shift(z, c)[k] = c[k - 1]
      BY ShiftIs
    <3> QED
      BY <3>1, <3>2
  <2>3. /\ Shift(inctl.rst, cross.rst)[1] = inctl.rst
        /\ \A k \in Stages : k > 1 => Shift(inctl.rst, cross.rst)[k] = cross.rst[k - 1]
    BY <1>1, <2>1, ShiftIs
  <2> QED
    BY <1>2, <2>2, <2>3
<1>7. Arrived(pulse') = Arrived(pulse)
  BY <1>3 DEF Arrived
<1>8. Shown(pulse') = Arrived(pulse') + One(pulse'.level # pulse'.sync[1])
  BY <1>3, CountedIs
<1>9. /\ Shown(pulse) = Arrived(pulse) + One(pulse.level # pulse.sync[1])
      /\ Arrived(pulse) \in Nat /\ Shown(pulse) \in Nat
  BY <1>1, CountedIs
<1>10. pulse.level \in BOOLEAN /\ pulse.old \in BOOLEAN /\ pulse.sync[1] \in BOOLEAN
  <2>1. 1 \in Stages
    BY ChainIs DEF Stages
  <2> QED
    BY <1>1, <2>1 DEF Chain, Pulses
<1>11. ASSUME ~IqReset
       PROVE  Shown(pulse') = Shown(pulse) + Pending(x) /\ pulse'.old = x
  <2>1. CASE x /\ ~pulse.old
    <3>1. pulse.level = pulse.sync[1]
      BY <1>1, <1>2, <2>1 DEF PulseWaits
    <3>2. pulse'.level # pulse'.sync[1]
      BY <1>3, <1>10, <1>11, <2>1, <3>1, Zenon
    <3>3. /\ One(pulse'.level # pulse'.sync[1]) = 1 /\ One(pulse.level # pulse.sync[1]) = 0
          /\ Pending(x) = 1
      BY <2>1, <3>1, <3>2, Zenon DEF One, Pending
    <3>4. Shown(pulse') = Arrived(pulse) + 1 /\ Shown(pulse) = Arrived(pulse) + 0
      BY <1>7, <1>8, <1>9, <3>3
    <3>5. pulse'.old = x
      BY <1>3, <1>11, <2>1
    <3> QED
      BY <1>9, <3>3, <3>4, <3>5
  <2>2. CASE ~(x /\ ~pulse.old)
    <3>1. pulse'.level = pulse.level
      BY <1>3, <1>10, <1>11, <2>2
    <3>2. Shown(pulse') = Shown(pulse) /\ Pending(x) = 0
      BY <1>3, <1>7, <1>8, <1>9, <2>2, <3>1 DEF One, Pending
    <3> QED
      BY <1>3, <1>9, <1>11, <3>2
  <2> QED
    BY <2>1, <2>2
<1>12. ASSUME IqReset
       PROVE  Shown(pulse') <= Shown(pulse) + One(pulse.level) /\ ~pulse'.old /\ ~pulse'.level
  <2>1. ~pulse'.level /\ ~pulse'.old
    BY <1>3, <1>12
  <2>2. One(pulse'.level # pulse'.sync[1]) <= One(pulse.level # pulse.sync[1]) + One(pulse.level)
    BY <1>3, <1>10, <2>1 DEF One
  <2>3. /\ One(pulse'.level # pulse'.sync[1]) \in {0, 1} /\ One(pulse.level # pulse.sync[1]) \in {0, 1}
        /\ One(pulse.level) \in {0, 1}
    BY DEF One
  <2> QED
    BY <1>7, <1>8, <1>9, <2>1, <2>2, <2>3
<1>13. ASSUME NEW y \in BOOLEAN, IqReset => ~y
       PROVE  PulseWaits(y)'
  <2>1. rate' # 0
    BY <1>1, <1>2
  <2>2. ASSUME rate' = 1, pulse'.level # pulse'.sync[1]
        PROVE  pulse'.old \/ ~y
    <3>1. pulse.level = pulse.sync[1]
      BY <1>1, <1>2, <2>2 DEF PulseWaits
    <3>2. CASE IqReset
      BY <1>13, <3>2
    <3>3. CASE ~IqReset
      BY <1>3, <1>10, <2>2, <3>1, <3>3
    <3> QED
      BY <3>2, <3>3
  <2> QED
    BY <2>1, <2>2 DEF PulseWaits
<1>14. ASSUME IqReset, x => ~pulse.old
       PROVE  Shown(pulse) + One(x) <= Shown(pulse') + One(pulse.level \/ x)
  <2>1. ~pulse'.level /\ pulse'.sync[1] = pulse.sync[1]
    BY <1>3, <1>14
  <2>2. x => pulse.level = pulse.sync[1]
    BY <1>1, <1>2, <1>10, <1>14 DEF PulseWaits
  <2>3. PICK a \in {0, 1}, b \in {0, 1}, e \in {0, 1}, g \in {0, 1} :
             /\ a = One(pulse.level # pulse.sync[1]) /\ b = One(pulse'.level # pulse'.sync[1])
             /\ e = One(x) /\ g = One(pulse.level \/ x)
    BY DEF One
  <2>4. a + e <= b + g
    <3>1. pulse'.level \in BOOLEAN /\ pulse'.level = FALSE
      BY <1>3, <2>1 DEF Pulses
    <3>2. CASE x
      <4>1. a = 0 /\ e = 1 /\ g = 1
        BY <2>2, <2>3, <3>2, Zenon DEF One
      <4> QED
        BY <4>1
    <3>3. CASE ~x /\ pulse.level
      <4>1. e = 0 /\ g = 1
        BY <2>3, <3>3, Zenon DEF One
      <4> QED
        BY <4>1
    <3>4. CASE ~x /\ ~pulse.level
      <4>1. pulse.level = pulse'.level
        BY <1>10, <3>1, <3>4
      <4>2. e = 0 /\ a = b
        BY <2>1, <2>3, <3>4, <4>1, Zenon DEF One
      <4> QED
        BY <4>2
    <3> QED
      BY <3>2, <3>3, <3>4
  <2> QED
    BY <1>7, <1>8, <1>9, <2>3, <2>4
<1> QED
  BY <1>2, <1>5, <1>6, <1>7, <1>11, <1>12, <1>13, <1>14
-----------------------------------------------------------------------------
(* The way in. *)

Halves == [1 .. 2 -> Nat]
Samples == [1 .. 2 -> Halves]

InTypeOK ==
  /\ CrossTypeOK
  /\ line \in [n : Nat \ {0}, h : 0 .. 3]
  /\ des \in [i : Halves, q : Halves, ih : Nat, valid : BOOLEAN]
  /\ wrt \in [fwr : BOOLEAN, data : Samples \cup {<<>>}, drop : BOOLEAN]
  /\ wrt.fwr => wrt.data \in Samples
  /\ fifo \in [q : Seq(Samples), occ : Nat, busy : BOOLEAN]
  /\ took \in Samples \cup {<<>>}
  /\ inlog \in [drops : Nat, resets : Nat, slips : Nat, mixed : Nat, gone : Nat, first : Nat, hit : BOOLEAN]

\* The sample the deserializer has is the one before that on the line; two in a row, which
\* takes a slip, are followed by a pause; and only the second of them can find the FIFO
\* full after it has been let in.
DesFollows ==
  /\ des.valid => des.q[2] = line.n - 1 /\ line.h # 3
  /\ des.valid /\ (wrt.fwr \/ wrt.drop) => line.h \in {0, 1}
  /\ wrt.fwr /\ fifo.occ >= RxDepth => ~des.valid
  /\ ~(wrt.fwr /\ wrt.drop)

\* The halves collected so far are of the sample on the line.
Pure(i, q) == i[1] = q[2] /\ i[2] = q[2] /\ q[1] = q[2]
Assembling(d, n, h) ==
  /\ h = 2 => d.i[1] = n /\ d.q[1] = n
  /\ h = 1 => d.ih = n
  /\ h = 3 => d.i[1] = n /\ d.i[2] = n /\ d.q[1] = n
MixedCounted ==
  (inlog.mixed + One(des.valid /\ ~Pure(des.i, des.q))) + One(~Assembling(des, line.n, line.h))
    <= inlog.slips + 1

\* The last sample that has been let in or dropped, or that there was nobody for.
Decided == IF des.valid THEN line.n - 2 ELSE line.n - 1
InOrder ==
  /\ \A j, k \in 1 .. Len(fifo.q) : j < k => Place(fifo.q[j]) + (k - j) <= Place(fifo.q[k])
  /\ took # <<>> => \A k \in 1 .. Len(fifo.q) : Place(took) < Place(fifo.q[k])
  /\ wrt.fwr => /\ took # <<>> => Place(took) < Place(wrt.data)
                /\ \A k \in 1 .. Len(fifo.q) : Place(fifo.q[k]) < Place(wrt.data)
                /\ Place(wrt.data) <= Decided
  /\ took # <<>> => Place(took) <= Decided - One(wrt.drop)
  /\ \A k \in 1 .. Len(fifo.q) : Place(fifo.q[k]) <= Decided - One(wrt.drop)

DropsCounted ==
  /\ PulseWaits(wrt.drop)
  /\ Shown(pulse) + One(wrt.drop) <= inlog.drops + inlog.resets

\* Between a reset the chip's clock has met and the enable, the reset is on its way, with
\* nothing enabled behind it, or has emptied the FIFO.
Flushing == \E k \in Stages : cross.rst[k] /\ \A j \in 1 .. k : ~cross.en[j]
Flushed == fifo.q = <<>> /\ ~wrt.fwr /\ \A k \in Stages : ~cross.en[k]
SessionBegins ==
  /\ inctl.rst = (inctl.next = "opened") /\ inctl.en = (inctl.next = "release")
  /\ inlog.hit /\ inctl.next \in {"opened", "enable"} => Flushing \/ Flushed
  /\ line.n >= inlog.first

\* Then the enable comes over, with an edge for each stage, and what is let in is of this
\* session.
SessionLasts ==
  Known => /\ ~fifo.busy
           /\ \A k \in Stages : /\ ~cross.rst[k]
                                /\ cross.en[k] => /\ \A j \in 1 .. k : cross.en[j]
                                                  /\ 4 * line.n + line.h >= 4 * inlog.first + 2 * k
           /\ took # <<>> => Place(took) >= inlog.first
           /\ wrt.fwr => Place(wrt.data) >= inlog.first
           /\ \A k \in 1 .. Len(fifo.q) : Place(fifo.q[k]) >= inlog.first

\* The samples let in, the first of them, and how many are missing since.
LetIn == (One(took # <<>>) + Len(fifo.q)) + One(wrt.fwr)
FirstPlace == IF took # <<>> THEN Place(took)
              ELSE IF fifo.q # <<>> THEN Place(fifo.q[1]) ELSE Place(wrt.data)
Missing == IF LetIn = 0 THEN 0 ELSE ((Decided - FirstPlace) + 1) - LetIn
\* A slip that is still to cost a sample.
Owed == \/ des.valid /\ line.h = 2
        \/ des.valid /\ (wrt.fwr \/ wrt.drop)
        \/ wrt.fwr /\ fifo.occ >= RxDepth
HolesKnown ==
  Known => /\ LetIn > 0 => IqEnable
           /\ (inlog.gone + Missing) + One(Owed) <= (Shown(pulse) + Pending(wrt.drop)) + inlog.slips
HolesTaken == inlog.gone + One(Owed) <= Arrived(pulse) + inlog.slips

InInv ==
  /\ InTypeOK /\ DesFollows /\ MixedCounted /\ InOrder /\ DropsCounted
  /\ SessionBegins /\ SessionLasts /\ HolesKnown /\ HolesTaken
-----------------------------------------------------------------------------
\* An edge of the chip's clock, as the values it leaves; s is one when the line slips.
EdgeMoves(s) ==
  /\ line'.n = (IF line.h + s >= 2 THEN line.n + 1 ELSE line.n)
  /\ line'.h = (IF line.h + s >= 2 THEN (line.h + s) - 2 ELSE (line.h + s) + 2)
  /\ des'.valid <=> (line.h \in {2, 3})
  /\ line.h \in {2, 3} => des'.q[2] = line.n /\ des'.q[1] = des.q[1]
  /\ line.h \in {0, 1} => des'.q[1] = line.n
  /\ line.h = 0 => des'.i[1] = line.n
  /\ line.h = 1 => des'.i[1] = des.ih /\ des'.i[2] = line.n
  /\ line.h = 2 => des'.i[1] = des.i[1] /\ des'.i[2] = line.n
  /\ line.h = 3 => des'.i = des.i /\ des'.ih = line.n + 1
  /\ wrt'.fwr <=> (Received /\ ~Closed)
  /\ wrt'.drop <=> (Received /\ Closed)
  /\ Received /\ ~Closed => wrt'.data = <<des.i, des.q>>
  /\ inlog'.slips = inlog.slips + s /\ inlog'.drops = inlog.drops + One(wrt'.drop)
  /\ inlog'.resets = inlog.resets + One(IqReset /\ pulse.level)
  /\ inlog'.mixed = inlog.mixed + One(wrt'.fwr /\ Mixed(wrt'.data))
  /\ inlog'.gone = inlog.gone /\ inlog'.first = inlog.first
  /\ inlog'.hit <=> (inlog.hit \/ inctl.rst)

\* What an edge of the chip's clock leaves in the FIFO.
FifoMoves ==
  /\ IqReset => fifo'.q = <<>> /\ fifo'.busy
  /\ ~IqReset => /\ fifo'.q = IF wrt.fwr /\ ~Closed THEN Append(fifo.q, wrt.data) ELSE fifo.q
                 /\ fifo'.occ <= fifo.occ + One(wrt.fwr /\ ~Closed)
                 /\ ~fifo.busy => ~fifo'.busy
  /\ took' = took

\* What one edge of the chip's clock does, part by part.
LEMMA EdgeIs ==
  ASSUME InTypeOK, PulseWaits(wrt.drop), IqEdge
  PROVE  InTypeOK' /\ FifoMoves /\ \E s \in {0, 1} : EdgeMoves(s)
<1>1. PICK s \in {0, 1} :
           LET to == (line.h + 2) + s
           IN  /\ line' = [n |-> line.n + (to \div 4), h |-> to % 4]
               /\ inlog' = [inlog EXCEPT !.slips = @ + s, !.drops = @ + One(Write.drop),
                                         !.resets = @ + One(IqReset /\ pulse.level),
                                         !.mixed = @ + One(Write.fwr /\ Mixed(Write.data)),
                                         !.hit = @ \/ inctl.rst]
  BY DEF IqEdge
<1>2. /\ des' = Deserialize(des, line.n, line.h) /\ wrt' = Write /\ took' = took
      /\ FifoWrite /\ CrossIq(wrt.drop)
  BY DEF IqEdge
<1>3. /\ line \in [n : Nat \ {0}, h : 0 .. 3] /\ line.n \in Nat \ {0} /\ line.h \in 0 .. 3
      /\ des \in [i : Halves, q : Halves, ih : Nat, valid : BOOLEAN]
      /\ des.i \in Halves /\ des.q \in Halves /\ des.ih \in Nat /\ des.valid \in BOOLEAN
      /\ wrt.fwr \in BOOLEAN /\ wrt.drop \in BOOLEAN /\ wrt.data \in Samples \cup {<<>>}
      /\ wrt.fwr => wrt.data \in Samples
      /\ fifo.q \in Seq(Samples) /\ fifo.occ \in Nat /\ fifo.busy \in BOOLEAN
      /\ took \in Samples \cup {<<>>}
  BY DEF InTypeOK
<1>4. IqReset \in BOOLEAN /\ IqEnable \in BOOLEAN /\ Received \in BOOLEAN /\ inctl.rst \in BOOLEAN
  <2>1. cross.en \in Chain /\ cross.rst \in Chain /\ inctl \in Controls
    BY DEF InTypeOK, CrossTypeOK
  <2>2. PICK c \in Chain, z \in Chain : c = cross.en /\ z = cross.rst
    BY <2>1
  <2>3. Newest(c) = c[SyncStages] /\ Newest(z) = z[SyncStages] /\ SyncStages \in Stages
    BY ChainIs, ShiftIs DEF Stages
  <2>4. Newest(cross.en) \in BOOLEAN /\ Newest(cross.rst) \in BOOLEAN
    BY <2>2, <2>3 DEF Chain
  <2>5. IqReset \in BOOLEAN /\ IqEnable \in BOOLEAN
    BY <2>4 DEF IqReset, IqEnable
  <2>6. Received \in BOOLEAN
    BY <1>3, <2>5 DEF Received
  <2> QED
    BY <2>1, <2>5, <2>6 DEF Controls
<1>5. /\ line' \in [n : Nat \ {0}, h : 0 .. 3]
      /\ line'.n = (IF line.h + s >= 2 THEN line.n + 1 ELSE line.n)
      /\ line'.h = (IF line.h + s >= 2 THEN (line.h + s) - 2 ELSE (line.h + s) + 2)
  <2>1. PICK to \in 2 .. 6 : to = (line.h + 2) + s
    BY <1>3
  <2>2. /\ to \div 4 = IF to >= 4 THEN 1 ELSE 0
        /\ to % 4 = IF to >= 4 THEN to - 4 ELSE to
    BY <2>1
  <2>3. line' = [n |-> line.n + (to \div 4), h |-> to % 4]
    BY <1>1, <2>1
  <2> QED
    BY <1>1, <1>3, <2>1, <2>2, <2>3
<1>6. /\ des' \in [i : Halves, q : Halves, ih : Nat, valid : BOOLEAN]
      /\ des'.valid <=> (line.h \in {2, 3})
      /\ line.h \in {2, 3} => des'.q[2] = line.n /\ des'.q[1] = des.q[1]
      /\ line.h \in {0, 1} => des'.q[1] = line.n
      /\ line.h = 0 => des'.i[1] = line.n
      /\ line.h = 1 => des'.i[1] = des.ih /\ des'.i[2] = line.n
      /\ line.h = 2 => des'.i[1] = des.i[1] /\ des'.i[2] = line.n
      /\ line.h = 3 => des'.i = des.i /\ des'.ih = line.n + 1
  <2>1. PICK n \in Nat : n = line.n
    BY <1>3
  <2>2. /\ [des.q EXCEPT ![1] = n] \in Halves /\ [des.q EXCEPT ![1] = n][1] = n
        /\ [des.q EXCEPT ![2] = n] \in Halves /\ [des.q EXCEPT ![2] = n][2] = n
        /\ [des.q EXCEPT ![2] = n][1] = des.q[1]
        /\ [des.i EXCEPT ![1] = n] \in Halves /\ [des.i EXCEPT ![1] = n][1] = n
        /\ [des.i EXCEPT ![2] = n] \in Halves /\ [des.i EXCEPT ![2] = n][2] = n
        /\ [des.i EXCEPT ![2] = n][1] = des.i[1]
        /\ <<des.ih, n>> \in Halves /\ <<des.ih, n>>[1] = des.ih /\ <<des.ih, n>>[2] = n
    BY <1>3 DEF Halves
  <2>3. CASE line.h = 0
    <3>1. des' = [des EXCEPT !.valid = FALSE, !.i[1] = n, !.q[1] = n]
      BY <1>2, <2>1, <2>3 DEF Deserialize
    <3>2. /\ des'.i = [des.i EXCEPT ![1] = n] /\ des'.q = [des.q EXCEPT ![1] = n]
          /\ des'.ih = des.ih /\ des'.valid = FALSE
          /\ des' \in [i : {des'.i}, q : {des'.q}, ih : {des'.ih}, valid : {des'.valid}]
      BY <1>3, <3>1
    <3>3. des' \in [i : Halves, q : Halves, ih : Nat, valid : BOOLEAN]
      BY <1>3, <2>1, <2>2, <3>2
    <3> QED
      BY <2>1, <2>2, <2>3, <3>2, <3>3
  <2>4. CASE line.h = 1
    <3>1. des' = [des EXCEPT !.valid = FALSE, !.q[1] = n, !.i = <<des.ih, n>>]
      BY <1>2, <2>1, <2>4 DEF Deserialize
    <3>2. /\ des'.i = <<des.ih, n>> /\ des'.q = [des.q EXCEPT ![1] = n]
          /\ des'.ih = des.ih /\ des'.valid = FALSE
          /\ des' \in [i : {des'.i}, q : {des'.q}, ih : {des'.ih}, valid : {des'.valid}]
      BY <1>3, <3>1
    <3>3. des' \in [i : Halves, q : Halves, ih : Nat, valid : BOOLEAN]
      BY <1>3, <2>1, <2>2, <3>2
    <3> QED
      BY <2>1, <2>2, <2>4, <3>2, <3>3
  <2>5. CASE line.h = 2
    <3>1. des' = [des EXCEPT !.valid = TRUE, !.i[2] = n, !.q[2] = n]
      BY <1>2, <2>1, <2>5 DEF Deserialize
    <3>2. /\ des'.i = [des.i EXCEPT ![2] = n] /\ des'.q = [des.q EXCEPT ![2] = n]
          /\ des'.ih = des.ih /\ des'.valid = TRUE
          /\ des' \in [i : {des'.i}, q : {des'.q}, ih : {des'.ih}, valid : {des'.valid}]
      BY <1>3, <3>1
    <3>3. des' \in [i : Halves, q : Halves, ih : Nat, valid : BOOLEAN]
      BY <1>3, <2>1, <2>2, <3>2
    <3> QED
      BY <2>1, <2>2, <2>5, <3>2, <3>3
  <2>6. CASE line.h = 3
    <3>1. des' = [des EXCEPT !.valid = TRUE, !.q[2] = n, !.ih = n + 1]
      BY <1>2, <2>1, <2>6 DEF Deserialize
    <3>2. /\ des'.i = des.i /\ des'.q = [des.q EXCEPT ![2] = n]
          /\ des'.ih = n + 1 /\ des'.valid = TRUE
          /\ des' \in [i : {des'.i}, q : {des'.q}, ih : {des'.ih}, valid : {des'.valid}]
      BY <1>3, <3>1
    <3>3. n + 1 \in Nat
      BY <2>1
    <3>4. des' \in [i : Halves, q : Halves, ih : Nat, valid : BOOLEAN]
      BY <1>3, <2>1, <2>2, <3>2, <3>3
    <3> QED
      BY <2>1, <2>2, <2>6, <3>2, <3>4
  <2> QED
    BY <1>3, <2>3, <2>4, <2>5, <2>6
<1>7. /\ wrt' \in [fwr : BOOLEAN, data : Samples \cup {<<>>}, drop : BOOLEAN]
      /\ wrt'.fwr <=> (Received /\ ~Closed)
      /\ wrt'.drop <=> (Received /\ Closed)
      /\ Received /\ ~Closed => wrt'.data = <<des.i, des.q>>
      /\ wrt'.fwr => wrt'.data \in Samples
  <2>1. <<des.i, des.q>> \in Samples
    BY <1>3 DEF Samples
  <2>2. Closed \in BOOLEAN
    BY <1>3 DEF Closed
  <2>3. wrt' = [fwr |-> Received /\ ~Closed, drop |-> Received /\ Closed,
                data |-> IF Received /\ ~Closed THEN <<des.i, des.q>> ELSE wrt.data]
    BY <1>2 DEF Write
  <2>4. PICK f \in BOOLEAN, d \in BOOLEAN : f = (Received /\ ~Closed) /\ d = (Received /\ Closed)
    BY <1>4, <2>2
  <2>5. wrt' = [fwr |-> f, drop |-> d, data |-> IF f THEN <<des.i, des.q>> ELSE wrt.data]
    BY <2>3, <2>4, Zenon
  <2>6. /\ wrt' \in [fwr : BOOLEAN, data : Samples \cup {<<>>}, drop : BOOLEAN]
        /\ wrt'.fwr = f /\ wrt'.drop = d
        /\ f => wrt'.data = <<des.i, des.q>> /\ wrt'.data \in Samples
    BY <1>3, <2>1, <2>4, <2>5
  <2> QED
    BY <2>4, <2>6, Zenon
<1>8. /\ inlog' \in [drops : Nat, resets : Nat, slips : Nat, mixed : Nat, gone : Nat, first : Nat, hit : BOOLEAN]
      /\ inlog'.slips = inlog.slips + s /\ inlog'.drops = inlog.drops + One(wrt'.drop)
      /\ inlog'.resets = inlog.resets + One(IqReset /\ pulse.level)
      /\ inlog'.mixed = inlog.mixed + One(wrt'.fwr /\ Mixed(wrt'.data))
      /\ inlog'.gone = inlog.gone /\ inlog'.first = inlog.first
      /\ inlog'.hit <=> (inlog.hit \/ inctl.rst)
  <2>1. /\ One(Write.drop) \in {0, 1} /\ One(IqReset /\ pulse.level) \in {0, 1}
        /\ One(Write.fwr /\ Mixed(Write.data)) \in {0, 1}
    BY DEF One
  <2>2. inlog \in [drops : Nat, resets : Nat, slips : Nat, mixed : Nat, gone : Nat, first : Nat, hit : BOOLEAN]
    BY DEF InTypeOK
  <2>3. inlog.hit \/ inctl.rst \in BOOLEAN
    BY <2>2, <1>4
  <2>4. PICK a \in {0, 1}, b \in {0, 1}, c \in {0, 1}, e \in BOOLEAN :
           e = (inlog.hit \/ inctl.rst) /\ a = One(Write.drop) /\ b = One(IqReset /\ pulse.level) /\ c = One(Write.fwr /\ Mixed(Write.data))
    BY <2>1
  <2>5. inlog' = [inlog EXCEPT !.slips = @ + s, !.drops = @ + a, !.resets = @ + b, !.mixed = @ + c,
                               !.hit = e]
    BY <1>1, <2>4, Zenon
  <2>6. /\ inlog'.slips = inlog.slips + s /\ inlog'.drops = inlog.drops + a
        /\ inlog'.resets = inlog.resets + b /\ inlog'.mixed = inlog.mixed + c
        /\ inlog'.gone = inlog.gone /\ inlog'.first = inlog.first /\ inlog'.hit = e
    BY <2>2, <2>5
  <2>7. inlog' \in [drops : Nat, resets : Nat, slips : Nat, mixed : Nat, gone : Nat, first : Nat, hit : BOOLEAN]
    <3>1. /\ inlog.slips + s \in Nat /\ inlog.drops + a \in Nat /\ inlog.resets + b \in Nat
          /\ inlog.mixed + c \in Nat /\ e \in BOOLEAN
      BY <1>1, <2>2, <2>4
    <3> QED
      BY <2>2, <2>5, <3>1
  <2>8. Write = wrt'
    BY <1>2
  <2> QED
    BY <2>4, <2>6, <2>7, <2>8
<1>9. /\ fifo' \in [q : Seq(Samples), occ : Nat, busy : BOOLEAN]
      /\ IqReset => fifo'.q = <<>> /\ fifo'.busy
      /\ ~IqReset => /\ fifo'.q = IF wrt.fwr /\ ~Closed THEN Append(fifo.q, wrt.data) ELSE fifo.q
                     /\ fifo'.occ <= fifo.occ + One(wrt.fwr /\ ~Closed)
                     /\ ~fifo.busy => ~fifo'.busy
  <2> DEFINE held_q == IF IqReset THEN <<>> ELSE IF wrt.fwr /\ ~Closed THEN Append(fifo.q, wrt.data) ELSE fifo.q
             most == IF IqReset THEN 0 ELSE fifo.occ + One(wrt.fwr /\ ~Closed)
  <2>1. PICK occ \in Len(held_q) .. most, busy \in IF IqReset THEN {TRUE} ELSE {FALSE, fifo.busy} :
           fifo' = [q |-> held_q, occ |-> occ, busy |-> busy]
    BY <1>2 DEF FifoWrite
  <2>2. held_q \in Seq(Samples)
    BY <1>3
  <2>3. Len(held_q) \in Nat /\ most \in Nat
    BY <1>3, <2>2 DEF One
  <2>4. fifo'.q = held_q /\ fifo'.occ = occ /\ fifo'.busy = busy
    BY <2>1
  <2>5. busy \in BOOLEAN
    BY <1>3, <2>1, Zenon
  <2>6. occ \in Nat /\ occ <= most
    BY <2>1, <2>3
  <2>7. fifo' \in [q : Seq(Samples), occ : Nat, busy : BOOLEAN]
    BY <2>1, <2>2, <2>5, <2>6
  <2>8. IqReset => fifo'.q = <<>> /\ fifo'.busy
    BY <2>1, <2>4
  <2>9. ~IqReset => /\ fifo'.q = IF wrt.fwr /\ ~Closed THEN Append(fifo.q, wrt.data) ELSE fifo.q
                    /\ fifo'.occ <= fifo.occ + One(wrt.fwr /\ ~Closed)
    BY <2>4, <2>6
  <2>10. ~IqReset /\ ~fifo.busy => ~fifo'.busy
    BY <2>1, <2>4, Zenon
  <2> QED
    BY <2>7, <2>8, <2>9, <2>10
<1>10. CrossTypeOK'
  BY <1>2, <1>3, IqCounts DEF InTypeOK
<1>11. InTypeOK'
  BY <1>2, <1>3, <1>5, <1>6, <1>7, <1>8, <1>9, <1>10 DEF InTypeOK
<1>12. FifoMoves
  BY <1>2, <1>9 DEF FifoMoves
<1>13. EdgeMoves(s)
  BY <1>5, <1>6, <1>7, <1>8 DEF EdgeMoves
<1> QED
  BY <1>11, <1>12, <1>13
\* The types the steps below count with.
LEMMA InTypes ==
  ASSUME InTypeOK
  PROVE  /\ line.n \in Nat \ {0} /\ line.h \in 0 .. 3
         /\ des.i \in Halves /\ des.q \in Halves /\ des.q[2] \in Nat /\ des.valid \in BOOLEAN
         /\ wrt.fwr \in BOOLEAN /\ wrt.drop \in BOOLEAN
         /\ wrt.fwr => Place(wrt.data) \in Nat
         /\ fifo.q \in Seq(Samples) /\ Len(fifo.q) \in Nat /\ fifo.occ \in Nat /\ fifo.busy \in BOOLEAN
         /\ \A k \in 1 .. Len(fifo.q) : Place(fifo.q[k]) \in Nat
         /\ took # <<>> => took \in Samples /\ Place(took) \in Nat
         /\ inlog.drops \in Nat /\ inlog.resets \in Nat /\ inlog.slips \in Nat /\ inlog.mixed \in Nat
         /\ inlog.gone \in Nat /\ inlog.first \in Nat /\ inlog.hit \in BOOLEAN
         /\ inctl \in Controls /\ cross.en \in Chain /\ cross.rst \in Chain /\ pulse \in Pulses
         /\ rate \in 0 .. 2
         /\ Decided \in Int
<1>1. \A e \in Samples : Place(e) \in Nat
  BY DEF Samples, Halves, Place
<1>2. /\ line \in [n : Nat \ {0}, h : 0 .. 3]
      /\ des \in [i : Halves, q : Halves, ih : Nat, valid : BOOLEAN]
      /\ wrt \in [fwr : BOOLEAN, data : Samples \cup {<<>>}, drop : BOOLEAN]
      /\ wrt.fwr => wrt.data \in Samples
      /\ fifo \in [q : Seq(Samples), occ : Nat, busy : BOOLEAN]
      /\ took \in Samples \cup {<<>>}
  BY DEF InTypeOK
<1>3. inlog \in [drops : Nat, resets : Nat, slips : Nat, mixed : Nat, gone : Nat, first : Nat, hit : BOOLEAN]
  BY DEF InTypeOK
<1>4. inctl \in Controls /\ cross \in [en : Chain, rst : Chain] /\ pulse \in Pulses /\ rate \in 0 .. 2
  BY DEF InTypeOK, CrossTypeOK
<1>5. fifo.q \in Seq(Samples) /\ \A k \in 1 .. Len(fifo.q) : Place(fifo.q[k]) \in Nat
  BY <1>1, <1>2
<1>6. des.q[2] \in Nat
  BY <1>2 DEF Halves
<1>7. Decided \in Int
  BY <1>2 DEF Decided
<1> QED
  BY <1>1, <1>2, <1>3, <1>4, <1>5, <1>6, <1>7

\* What is on the line when an edge comes has been decided after it.
LEMMA DecidedMoves ==
  ASSUME InTypeOK, DesFollows, NEW s \in {0, 1}, EdgeMoves(s)
  PROVE  /\ Decided' = (Decided + One(des.valid)) + One(line.h = 1 /\ s = 1)
         /\ des.valid => Place(<<des.i, des.q>>) = Decided + 1
<1>1. line.n \in Nat \ {0} /\ line.h \in 0 .. 3 /\ des.valid \in BOOLEAN
  BY InTypes
<1>2. /\ line'.n = (IF line.h + s >= 2 THEN line.n + 1 ELSE line.n)
      /\ des'.valid <=> (line.h \in {2, 3})
      /\ des.valid => line.h # 3 /\ des.q[2] = line.n - 1
  BY DEF EdgeMoves, DesFollows
<1> QED
  BY <1>1, <1>2 DEF Decided, One, Place

\* The deserializer still has the sample before that on the line.
LEMMA EdgeDes ==
  ASSUME InTypeOK, DesFollows, FifoMoves, NEW s \in {0, 1}, EdgeMoves(s), InTypeOK'
  PROVE  DesFollows'
<1>1. /\ line.n \in Nat \ {0} /\ line.h \in 0 .. 3 /\ des.valid \in BOOLEAN
      /\ fifo.occ \in Nat /\ wrt.fwr \in BOOLEAN /\ fifo'.occ \in Nat /\ RxDepth \in Nat
  <2>1. fifo' \in [q : Seq(Samples), occ : Nat, busy : BOOLEAN]
    BY DEF InTypeOK
  <2>2. RxDepth \in Nat
    BY SampleInAssumption
  <2>3. fifo'.occ \in Nat
    BY <2>1
  <2> QED
    BY <2>2, <2>3, InTypes
<1>2. /\ line'.n = (IF line.h + s >= 2 THEN line.n + 1 ELSE line.n)
      /\ line'.h = (IF line.h + s >= 2 THEN (line.h + s) - 2 ELSE (line.h + s) + 2)
      /\ des'.valid <=> (line.h \in {2, 3})
      /\ line.h \in {2, 3} => des'.q[2] = line.n
      /\ wrt'.fwr <=> (Received /\ ~Closed)
      /\ wrt'.drop <=> (Received /\ Closed)
  BY DEF EdgeMoves
<1>3. des'.valid => des'.q[2] = line'.n - 1 /\ line'.h # 3
  BY <1>1, <1>2
<1>4. Received => des.valid /\ ~IqReset /\ line.h # 3
  BY DEF Received, DesFollows
<1>5. ASSUME des'.valid, wrt'.fwr \/ wrt'.drop
      PROVE  line'.h \in {0, 1}
  <2>1. line.h # 3 /\ line.h \in {2, 3}
    BY <1>2, <1>4, <1>5, Zenon
  <2> QED
    BY <1>1, <1>2, <2>1
<1>6. ASSUME wrt'.fwr, fifo'.occ >= RxDepth
      PROVE  ~des'.valid
  <2>1. Received /\ ~Closed
    BY <1>2, <1>6, Zenon
  <2>2. fifo.occ < RxDepth
    BY <1>1, <2>1 DEF Closed
  <2>3. fifo'.occ <= fifo.occ + One(wrt.fwr /\ ~Closed)
    BY <1>4, <2>1 DEF FifoMoves
  <2>4. wrt.fwr
    BY <1>1, <1>6, <2>2, <2>3 DEF One
  <2>5. line.h \in {0, 1}
    BY <1>4, <2>1, <2>4 DEF DesFollows
  <2> QED
    BY <1>2, <2>5
<1>7. ~(wrt'.fwr /\ wrt'.drop)
  BY <1>2, Zenon
<1> QED
  BY <1>3, <1>5, <1>6, <1>7 DEF DesFollows

\* A sample of one number is not mixed.
LEMMA PureIsWhole ==
  ASSUME NEW i \in Halves, NEW q \in Halves, Pure(i, q)
  PROVE  ~Mixed(<<i, q>>)
<1>1. ToSet(i) \cup ToSet(q) = {q[2]}
  BY DEF Halves, Pure, ToSet
<1>2. Cardinality({q[2]}) = 1
  BY FS_Singleton
<1> QED
  BY <1>1, <1>2 DEF Mixed

\* A mixed sample costs a slip, but for the first.
LEMMA EdgeMixed ==
  ASSUME InTypeOK, MixedCounted, NEW s \in {0, 1}, EdgeMoves(s)
  PROVE  MixedCounted'
<1>1. /\ line.n \in Nat \ {0} /\ line.h \in 0 .. 3 /\ des.valid \in BOOLEAN
      /\ des.i \in Halves /\ des.q \in Halves /\ inlog.mixed \in Nat /\ inlog.slips \in Nat
  BY InTypes
<1>2. /\ line'.n = (IF line.h + s >= 2 THEN line.n + 1 ELSE line.n)
      /\ line'.h = (IF line.h + s >= 2 THEN (line.h + s) - 2 ELSE (line.h + s) + 2)
      /\ des'.valid <=> (line.h \in {2, 3})
      /\ line.h \in {2, 3} => des'.q[2] = line.n /\ des'.q[1] = des.q[1]
      /\ line.h \in {0, 1} => des'.q[1] = line.n
      /\ line.h = 0 => des'.i[1] = line.n
      /\ line.h = 1 => des'.i[1] = des.ih /\ des'.i[2] = line.n
      /\ line.h = 2 => des'.i[1] = des.i[1] /\ des'.i[2] = line.n
      /\ line.h = 3 => des'.i = des.i /\ des'.ih = line.n + 1
      /\ inlog'.slips = inlog.slips + s
      /\ inlog'.mixed = inlog.mixed + One(wrt'.fwr /\ Mixed(wrt'.data))
  BY DEF EdgeMoves
<1>3. One(wrt'.fwr /\ Mixed(wrt'.data)) <= One(des.valid /\ ~Pure(des.i, des.q))
  <2>1. ASSUME wrt'.fwr, Mixed(wrt'.data)
        PROVE  des.valid /\ ~Pure(des.i, des.q)
    <3>1. Received /\ ~Closed
      BY <2>1, Zenon DEF EdgeMoves
    <3>2. des.valid /\ wrt'.data = <<des.i, des.q>>
      BY <3>1 DEF EdgeMoves, Received
    <3> QED
      BY <1>1, <2>1, <3>2, PureIsWhole
  <2> QED
    BY <2>1 DEF One
<1>4. One(des'.valid /\ ~Pure(des'.i, des'.q)) + One(~Assembling(des', line'.n, line'.h))
        <= One(~Assembling(des, line.n, line.h)) + s
  <2>1. CASE line.h = 0
    BY <1>1, <1>2, <2>1 DEF One, Pure, Assembling
  <2>2. CASE line.h = 1
    BY <1>1, <1>2, <2>2 DEF One, Pure, Assembling
  <2>3. CASE line.h = 2
    BY <1>1, <1>2, <2>3 DEF One, Pure, Assembling
  <2>4. CASE line.h = 3
    BY <1>1, <1>2, <2>4 DEF One, Pure, Assembling
  <2> QED
    BY <1>1, <2>1, <2>2, <2>3, <2>4
<1>5. /\ One(des'.valid /\ ~Pure(des'.i, des'.q)) \in Nat /\ One(~Assembling(des', line'.n, line'.h)) \in Nat
      /\ One(~Assembling(des, line.n, line.h)) \in Nat /\ One(des.valid /\ ~Pure(des.i, des.q)) \in Nat
      /\ One(wrt'.fwr /\ Mixed(wrt'.data)) \in Nat
  BY DEF One
<1>6. (inlog.mixed + One(des.valid /\ ~Pure(des.i, des.q))) + One(~Assembling(des, line.n, line.h))
        <= inlog.slips + 1
  BY DEF MixedCounted
<1>7. (inlog'.mixed + One(des'.valid /\ ~Pure(des'.i, des'.q))) + One(~Assembling(des', line'.n, line'.h))
        <= inlog'.slips + 1
  BY <1>1, <1>2, <1>3, <1>4, <1>5, <1>6
<1> QED
  BY <1>7 DEF MixedCounted
\* A sample that comes after all of the queue is later than the first by its place.
LEMMA InAppended ==
  ASSUME NEW q \in Seq(Samples), NEW e \in Samples,
         \A j, k \in 1 .. Len(q) : j < k => Place(q[j]) + (k - j) <= Place(q[k]),
         \A k \in 1 .. Len(q) : Place(q[k]) < Place(e)
  PROVE  /\ Len(Append(q, e)) = Len(q) + 1
         /\ \A k \in 1 .. Len(q) + 1 : Append(q, e)[k] = IF k <= Len(q) THEN q[k] ELSE e
         /\ \A j, k \in 1 .. Len(q) + 1 :
              j < k => Place(Append(q, e)[j]) + (k - j) <= Place(Append(q, e)[k])
<1>1. PICK n \in Nat : n = Len(q)
  BY LenProperties
<1>2. /\ Len(Append(q, e)) = n + 1
      /\ \A k \in 1 .. n + 1 : Append(q, e)[k] = IF k <= n THEN q[k] ELSE e
  BY <1>1
<1>3. Place(e) \in Nat /\ \A k \in 1 .. n : Place(q[k]) \in Nat
  <2>1. \A x \in Samples : Place(x) \in Nat
    BY DEF Samples, Halves, Place
  <2>2. \A k \in 1 .. n : q[k] \in Samples
    BY <1>1
  <2> QED
    BY <2>1, <2>2
<1>4. ASSUME NEW j \in 1 .. n + 1, NEW k \in 1 .. n + 1, j < k
      PROVE  Place(Append(q, e)[j]) + (k - j) <= Place(Append(q, e)[k])
  <2>1. CASE k <= n
    <3>1. j \in 1 .. n /\ k \in 1 .. n
      BY <1>1, <1>4, <2>1
    <3> QED
      BY <1>1, <1>2, <1>4, <3>1
  <2>2. CASE k = n + 1
    <3>1. j \in 1 .. n /\ Append(q, e)[j] = q[j] /\ Append(q, e)[k] = e
      BY <1>1, <1>2, <1>4, <2>2
    <3>2. Place(q[j]) + (n - j) <= Place(q[n])
      <4>1. CASE j = n
        BY <1>1, <1>3, <3>1, <4>1
      <4>2. CASE j < n
        BY <1>1, <1>3, <3>1, <4>2
      <4> QED
        BY <1>1, <3>1, <4>1, <4>2
    <3>3. Place(q[n]) < Place(e)
      BY <1>1, <3>1
    <3>4. Place(q[j]) \in Nat /\ Place(q[n]) \in Nat /\ Place(e) \in Nat
      BY <1>1, <1>3, <3>1
    <3>5. Place(q[j]) + (k - j) <= Place(e)
      BY <1>1, <2>2, <3>1, <3>2, <3>3, <3>4
    <3> QED
      BY <3>1, <3>5
  <2> QED
    BY <1>1, <1>4, <2>1, <2>2
<1> QED
  BY <1>1, <1>2, <1>4

\* What is in the FIFO after the edge: what was, less a reset, and the sample being written.
LEMMA FifoIs ==
  ASSUME InTypeOK, InOrder, FifoMoves
  PROVE  /\ \A k \in 1 .. Len(fifo'.q) : \/ k \in 1 .. Len(fifo.q) /\ fifo'.q[k] = fifo.q[k]
                                         \/ wrt.fwr /\ fifo'.q[k] = wrt.data
         /\ \A j, k \in 1 .. Len(fifo'.q) : j < k => Place(fifo'.q[j]) + (k - j) <= Place(fifo'.q[k])
         /\ ~IqReset => Len(fifo'.q) = Len(fifo.q) + One(wrt.fwr /\ ~Closed)
<1>1. fifo.q \in Seq(Samples) /\ wrt.fwr \in BOOLEAN
  BY InTypes
<1>2. CASE IqReset
  <2>1. fifo'.q = <<>> /\ Len(fifo'.q) = 0
    BY <1>2 DEF FifoMoves
  <2> QED
    BY <1>2, <2>1
<1>3. CASE ~IqReset /\ wrt.fwr /\ ~Closed
  <2>1. PICK q \in Seq(Samples), e \in Samples : q = fifo.q /\ e = wrt.data
    BY <1>1, <1>3 DEF InTypeOK
  <2>2. fifo'.q = Append(q, e)
    BY <1>3, <2>1 DEF FifoMoves
  <2>3. /\ \A j, k \in 1 .. Len(q) : j < k => Place(q[j]) + (k - j) <= Place(q[k])
        /\ \A k \in 1 .. Len(q) : Place(q[k]) < Place(e)
    BY <1>3, <2>1 DEF InOrder
  <2>4. PICK n \in Nat : n = Len(q)
    BY LenProperties
  <2>5. /\ Len(Append(q, e)) = n + 1
        /\ \A k \in 1 .. n + 1 : Append(q, e)[k] = IF k <= n THEN q[k] ELSE e
        /\ \A j, k \in 1 .. n + 1 : j < k => Place(Append(q, e)[j]) + (k - j) <= Place(Append(q, e)[k])
    <3>1. \A j, k \in 1 .. Len(q) + 1 :
            j < k => Place(Append(q, e)[j]) + (k - j) <= Place(Append(q, e)[k])
      BY <2>3, InAppended
    <3> QED
      BY <2>3, <2>4, <3>1, InAppended
  <2>6. \A k \in 1 .. n + 1 : k \in 1 .. n \/ ~(k <= n)
    OBVIOUS
  <2>7. One(wrt.fwr /\ ~Closed) = 1
    BY <1>3 DEF One
  <2> QED
    BY <1>3, <2>1, <2>2, <2>4, <2>5, <2>6, <2>7
<1>4. CASE ~IqReset /\ ~(wrt.fwr /\ ~Closed)
  <2>1. fifo'.q = fifo.q
    BY <1>4 DEF FifoMoves
  <2>2. One(wrt.fwr /\ ~Closed) = 0 /\ Len(fifo.q) \in Nat
    BY <1>1, <1>4 DEF One
  <2> QED
    BY <2>1, <2>2 DEF InOrder
<1> QED
  BY <1>2, <1>3, <1>4

\* What is let in comes after all that was.
LEMMA EdgeOrder ==
  ASSUME InTypeOK, DesFollows, InOrder, FifoMoves, NEW s \in {0, 1}, EdgeMoves(s)
  PROVE  InOrder'
<1>1. /\ line.h \in 0 .. 3 /\ des.valid \in BOOLEAN
      /\ wrt.fwr \in BOOLEAN /\ wrt.drop \in BOOLEAN
      /\ wrt.fwr => Place(wrt.data) \in Nat
      /\ \A k \in 1 .. Len(fifo.q) : Place(fifo.q[k]) \in Nat
      /\ took # <<>> => Place(took) \in Nat
      /\ Decided \in Int
  BY InTypes
<1>2. /\ Decided' = (Decided + One(des.valid)) + One(line.h = 1 /\ s = 1)
      /\ des.valid => Place(<<des.i, des.q>>) = Decided + 1
  BY DecidedMoves
<1>3. /\ wrt'.drop => des.valid
      /\ wrt'.fwr => des.valid /\ wrt'.data = <<des.i, des.q>> /\ ~wrt'.drop
  <2>1. wrt'.drop => Received
    BY Zenon DEF EdgeMoves
  <2>2. wrt'.fwr => Received /\ ~Closed /\ ~wrt'.drop
    BY Zenon DEF EdgeMoves
  <2> QED
    BY <2>1, <2>2 DEF EdgeMoves, Received
<1>4. took' = took /\ Decided \in Int /\ Decided' \in Int /\ Decided' >= Decided
  BY <1>1, <1>2 DEF FifoMoves, One
<1>5. Decided' - One(wrt'.drop) >= Decided /\ Decided' - One(wrt'.drop) \in Int
  BY <1>1, <1>2, <1>3, <1>4 DEF One
<1>6. /\ \A k \in 1 .. Len(fifo.q) : Place(fifo.q[k]) <= Decided
      /\ took # <<>> => Place(took) <= Decided
      /\ wrt.fwr => /\ Place(wrt.data) <= Decided
                    /\ took # <<>> => Place(took) < Place(wrt.data)
  <2>1. Decided - One(wrt.drop) <= Decided /\ Decided - One(wrt.drop) \in Int
    BY <1>1 DEF One
  <2> QED
    BY <1>1, <2>1 DEF InOrder
<1>7. /\ \A k \in 1 .. Len(fifo'.q) : /\ Place(fifo'.q[k]) \in Nat /\ Place(fifo'.q[k]) <= Decided
                                      /\ took # <<>> => Place(took) < Place(fifo'.q[k])
      /\ \A j, k \in 1 .. Len(fifo'.q) : j < k => Place(fifo'.q[j]) + (k - j) <= Place(fifo'.q[k])
  <2>1. ASSUME NEW k \in 1 .. Len(fifo'.q)
        PROVE  /\ Place(fifo'.q[k]) \in Nat /\ Place(fifo'.q[k]) <= Decided
               /\ took # <<>> => Place(took) < Place(fifo'.q[k])
    <3>1. \/ k \in 1 .. Len(fifo.q) /\ fifo'.q[k] = fifo.q[k]
          \/ wrt.fwr /\ fifo'.q[k] = wrt.data
      BY FifoIs
    <3>2. CASE k \in 1 .. Len(fifo.q) /\ fifo'.q[k] = fifo.q[k]
      BY <1>1, <1>6, <3>2 DEF InOrder
    <3>3. CASE wrt.fwr /\ fifo'.q[k] = wrt.data
      BY <1>1, <1>6, <3>3
    <3> QED
      BY <3>1, <3>2, <3>3
  <2> QED
    BY <2>1, FifoIs
<1>8. /\ wrt'.fwr => /\ took' # <<>> => Place(took') < Place(wrt'.data)
                     /\ \A k \in 1 .. Len(fifo'.q) : Place(fifo'.q[k]) < Place(wrt'.data)
                     /\ Place(wrt'.data) <= Decided'
      /\ took' # <<>> => Place(took') <= Decided' - One(wrt'.drop)
      /\ \A k \in 1 .. Len(fifo'.q) : Place(fifo'.q[k]) <= Decided' - One(wrt'.drop)
  <2>1. wrt'.fwr => Place(wrt'.data) = Decided + 1 /\ Decided' >= Decided + 1
    BY <1>1, <1>2, <1>3 DEF One
  <2> QED
    BY <1>1, <1>4, <1>5, <1>6, <1>7, <2>1
<1> QED
  BY <1>4, <1>7, <1>8 DEF InOrder

\* The counter shows the drops, and once a reset that met an odd number.
LEMMA EdgeDrops ==
  ASSUME InTypeOK, DropsCounted, CrossIq(wrt.drop), InTypeOK', NEW s \in {0, 1}, EdgeMoves(s)
  PROVE  DropsCounted'
<1>1. /\ wrt.drop \in BOOLEAN /\ inlog.drops \in Nat /\ inlog.resets \in Nat /\ pulse \in Pulses
      /\ CrossTypeOK /\ PulseWaits(wrt.drop)
  BY InTypes DEF InTypeOK, DropsCounted
<1>2. wrt'.drop \in BOOLEAN /\ pulse' \in Pulses
  <2>1. wrt' \in [fwr : BOOLEAN, data : Samples \cup {<<>>}, drop : BOOLEAN]
    BY DEF InTypeOK
  <2> QED
    BY <2>1 DEF InTypeOK, CrossTypeOK
<1>3. IqReset => ~wrt'.drop
  <2>1. wrt'.drop => Received
    BY Zenon DEF EdgeMoves
  <2> QED
    BY <2>1, Zenon DEF Received
<1>4. PulseWaits(wrt.drop)'
  <2>1. PICK y \in BOOLEAN : y = wrt'.drop
    BY <1>2
  <2>2. PulseWaits(y)'
    BY <1>1, <1>3, <2>1, IqCounts
  <2> QED
    BY <2>1, <2>2 DEF PulseWaits
<1>5. /\ inlog'.drops = inlog.drops + One(wrt'.drop)
      /\ inlog'.resets = inlog.resets + One(IqReset /\ pulse.level)
      /\ Shown(pulse) + One(wrt.drop) <= inlog.drops + inlog.resets
      /\ Shown(pulse) \in Nat /\ Shown(pulse') \in Nat
  BY <1>1, <1>2, CountedIs DEF EdgeMoves, DropsCounted
<1>6. Shown(pulse') + One(wrt'.drop) <= inlog'.drops + inlog'.resets
  <2>1. CASE IqReset
    <3>1. Shown(pulse') <= Shown(pulse) + One(pulse.level)
      BY <1>1, <2>1, IqCounts
    <3>2. One(wrt'.drop) = 0 /\ One(IqReset /\ pulse.level) = One(pulse.level)
      BY <1>3, <2>1 DEF One
    <3>3. One(wrt.drop) \in {0, 1} /\ One(pulse.level) \in {0, 1}
      BY DEF One
    <3> QED
      BY <1>1, <1>5, <3>1, <3>2, <3>3
  <2>2. CASE ~IqReset
    <3>1. Shown(pulse') = Shown(pulse) + Pending(wrt.drop)
      BY <1>1, <2>2, IqCounts
    <3>2. One(IqReset /\ pulse.level) = 0
      BY <2>2 DEF One
    <3>3. One(wrt.drop) \in {0, 1} /\ One(wrt'.drop) \in {0, 1} /\ Pending(wrt.drop) <= One(wrt.drop)
          /\ Pending(wrt.drop) \in {0, 1}
      BY DEF One, Pending
    <3> QED
      BY <1>1, <1>5, <3>1, <3>2, <3>3
  <2> QED
    BY <2>1, <2>2
<1> QED
  BY <1>4, <1>6 DEF DropsCounted
\* What an edge moves in the synchronizers.
LEMMA EdgeCross ==
  ASSUME InTypeOK, PulseWaits(wrt.drop), CrossIq(wrt.drop)
  PROVE  /\ inctl' = inctl /\ cross'.en[1] = inctl.en /\ cross'.rst[1] = inctl.rst
         /\ \A k \in Stages : k > 1 => /\ cross'.en[k] = cross.en[k - 1]
                                       /\ cross'.rst[k] = cross.rst[k - 1]
         /\ IqReset <=> cross.rst[SyncStages]
         /\ IqEnable <=> cross.en[SyncStages]
         /\ IqEnable' <=> cross.en[SyncStages - 1]
         /\ SyncStages \in Nat /\ SyncStages >= 2
<1>1. CrossTypeOK /\ wrt.drop \in BOOLEAN /\ cross.en \in Chain /\ cross.rst \in Chain
  BY InTypes DEF InTypeOK
<1>2. SyncStages \in Nat /\ SyncStages >= 2
  BY ChainIs
<1>3. /\ inctl' = inctl /\ cross'.en[1] = inctl.en /\ cross'.rst[1] = inctl.rst
      /\ \A k \in Stages : k > 1 => /\ cross'.en[k] = cross.en[k - 1]
                                    /\ cross'.rst[k] = cross.rst[k - 1]
  BY <1>1, IqCounts
<1>4. \A c \in Chain : Newest(c) = c[SyncStages]
  BY ShiftIs
<1>5. cross'.en \in Chain
  BY <1>1, IqCounts DEF CrossTypeOK
<1>6. IqReset <=> cross.rst[SyncStages]
  BY <1>1, <1>4, Zenon DEF IqReset
<1>7. IqEnable <=> cross.en[SyncStages]
  BY <1>1, <1>4, Zenon DEF IqEnable
<1>8. IqEnable' <=> cross'.en[SyncStages]
  BY <1>4, <1>5, Zenon DEF IqEnable
<1>9. cross'.en[SyncStages] = cross.en[SyncStages - 1]
  BY <1>2, <1>3 DEF Stages
<1> QED
  BY <1>2, <1>3, <1>6, <1>7, <1>8, <1>9

\* Nothing from before open() outlives a reset the chip's clock has met.
LEMMA EdgeBegins ==
  ASSUME InTypeOK, SessionBegins, PulseWaits(wrt.drop), CrossIq(wrt.drop), FifoMoves,
         NEW s \in {0, 1}, EdgeMoves(s)
  PROVE  SessionBegins'
<1>1. /\ inctl' = inctl /\ cross'.en[1] = inctl.en /\ cross'.rst[1] = inctl.rst
      /\ \A k \in Stages : k > 1 => /\ cross'.en[k] = cross.en[k - 1]
                                    /\ cross'.rst[k] = cross.rst[k - 1]
      /\ IqReset <=> cross.rst[SyncStages]
      /\ IqEnable <=> cross.en[SyncStages]
      /\ SyncStages \in Nat /\ SyncStages >= 2
  BY EdgeCross
<1>2. /\ inctl.rst = (inctl.next = "opened") /\ inctl.en = (inctl.next = "release")
      /\ inlog.hit /\ inctl.next \in {"opened", "enable"} => Flushing \/ Flushed
      /\ line.n >= inlog.first
  BY DEF SessionBegins
<1>3. line'.n >= inlog'.first
  <2>1. line.n \in Nat /\ inlog.first \in Nat /\ line.h \in 0 .. 3
    BY InTypes
  <2> QED
    BY <1>2, <2>1 DEF EdgeMoves
<1>4. /\ wrt'.fwr => IqEnable /\ ~IqReset
      /\ inlog'.hit <=> (inlog.hit \/ inctl.rst)
  <2>1. wrt'.fwr => Received
    BY Zenon DEF EdgeMoves
  <2>2. Received => IqEnable /\ ~IqReset
    BY Zenon DEF Received
  <2> QED
    BY <2>1, <2>2, Zenon DEF EdgeMoves
<1>5. ASSUME inlog'.hit, inctl.next \in {"opened", "enable"}
      PROVE  Flushing' \/ Flushed'
  <2>1. ~inctl.en
    BY <1>2, <1>5
  <2>2. CASE Flushing
    <3>1. PICK k \in Stages : cross.rst[k] /\ \A j \in 1 .. k : ~cross.en[j]
      BY <2>2 DEF Flushing
    <3>2. CASE k = SyncStages
      <4>1. IqReset
        BY <1>1, <3>1, <3>2
      <4>2. fifo'.q = <<>> /\ ~wrt'.fwr
        BY <1>4, <4>1 DEF FifoMoves
      <4>3. ASSUME NEW j \in Stages
            PROVE  ~cross'.en[j]
        <5>1. CASE j = 1
          BY <1>1, <2>1, <5>1
        <5>2. CASE j > 1
          <6>1. cross'.en[j] = cross.en[j - 1] /\ j - 1 \in 1 .. k
            BY <1>1, <3>2, <5>2 DEF Stages
          <6> QED
            BY <3>1, <6>1
        <5> QED
          BY <1>1, <5>1, <5>2 DEF Stages
      <4> QED
        BY <4>2, <4>3 DEF Flushed
    <3>3. CASE k # SyncStages
      <4>1. k + 1 \in Stages /\ k + 1 > 1 /\ (k + 1) - 1 = k
        BY <1>1, <3>3 DEF Stages
      <4>2. cross'.rst[k + 1]
        BY <1>1, <3>1, <4>1
      <4>3. ASSUME NEW j \in 1 .. k + 1
            PROVE  ~cross'.en[j]
        <5>1. CASE j = 1
          BY <1>1, <2>1, <5>1
        <5>2. CASE j > 1
          <6>1. cross'.en[j] = cross.en[j - 1] /\ j - 1 \in 1 .. k
            BY <1>1, <4>1, <5>2 DEF Stages
          <6> QED
            BY <3>1, <6>1
        <5> QED
          BY <4>1, <5>1, <5>2 DEF Stages
      <4> QED
        BY <4>1, <4>2, <4>3 DEF Flushing
    <3> QED
      BY <3>2, <3>3
  <2>3. CASE Flushed
    <3>1. fifo.q = <<>> /\ ~wrt.fwr /\ \A k \in Stages : ~cross.en[k]
      BY <2>3 DEF Flushed
    <3>2. ~IqEnable
      BY <1>1, <3>1 DEF Stages
    <3>3. fifo'.q = <<>>
      BY <3>1 DEF FifoMoves
    <3>4. ASSUME NEW j \in Stages
          PROVE  ~cross'.en[j]
      <4>1. CASE j = 1
        BY <1>1, <2>1, <4>1
      <4>2. CASE j > 1
        <5>1. cross'.en[j] = cross.en[j - 1] /\ j - 1 \in Stages
          BY <1>1, <4>2 DEF Stages
        <5> QED
          BY <3>1, <5>1
      <4> QED
        BY <1>1, <4>1, <4>2 DEF Stages
    <3> QED
      BY <1>4, <3>2, <3>3, <3>4 DEF Flushed
  <2>4. CASE ~Flushing /\ ~Flushed
    <3>1. inctl.rst
      BY <1>2, <1>4, <1>5, <2>4
    <3>2. 1 \in Stages /\ cross'.rst[1] /\ \A j \in 1 .. 1 : ~cross'.en[j]
      BY <1>1, <2>1, <3>1 DEF Stages
    <3> QED
      BY <3>2 DEF Flushing
  <2> QED
    BY <2>2, <2>3, <2>4
<1>6. inctl'.rst = (inctl'.next = "opened") /\ inctl'.en = (inctl'.next = "release")
  BY <1>1, <1>2
<1> QED
  BY <1>1, <1>3, <1>5, <1>6 DEF SessionBegins

\* The first edge of the chip's clock that meets the reset makes it known, not the enable.
LEMMA EdgeKnown ==
  ASSUME SessionBegins, inctl' = inctl, NEW s \in {0, 1}, EdgeMoves(s), Known'
  PROVE  Known /\ inctl.en = TRUE /\ inctl.rst = FALSE
<1>1. inctl.next = "release" /\ inlog'.hit
  BY DEF Known
<1>2. inctl.rst = FALSE /\ inctl.en = TRUE
  BY <1>1 DEF SessionBegins
<1>3. inlog.hit
  BY <1>1, <1>2 DEF EdgeMoves
<1> QED
  BY <1>1, <1>2, <1>3 DEF Known

\* While the session lasts, what was let in is of this session.
LEMMA EdgeLasts ==
  ASSUME InTypeOK, DesFollows, InOrder, SessionBegins, SessionLasts, PulseWaits(wrt.drop),
         CrossIq(wrt.drop), FifoMoves, NEW s \in {0, 1}, EdgeMoves(s)
  PROVE  SessionLasts'
<1> SUFFICES ASSUME Known'
             PROVE  /\ ~fifo'.busy
                    /\ \A k \in Stages :
                         /\ ~cross'.rst[k]
                         /\ cross'.en[k] => /\ \A j \in 1 .. k : cross'.en[j]
                                            /\ 4 * line'.n + line'.h >= 4 * inlog'.first + 2 * k
                    /\ took' # <<>> => Place(took') >= inlog'.first
                    /\ wrt'.fwr => Place(wrt'.data) >= inlog'.first
                    /\ \A k \in 1 .. Len(fifo'.q) : Place(fifo'.q[k]) >= inlog'.first
  BY DEF SessionLasts
<1>1. /\ inctl' = inctl /\ cross'.en[1] = inctl.en /\ cross'.rst[1] = inctl.rst
      /\ \A k \in Stages : k > 1 => /\ cross'.en[k] = cross.en[k - 1]
                                    /\ cross'.rst[k] = cross.rst[k - 1]
      /\ IqReset <=> cross.rst[SyncStages]
      /\ IqEnable <=> cross.en[SyncStages]
      /\ SyncStages \in Nat /\ SyncStages >= 2
  BY EdgeCross
<1>2. Known /\ inctl.en = TRUE /\ inctl.rst = FALSE
  BY <1>1, EdgeKnown
<1>3. /\ ~fifo.busy
      /\ \A k \in Stages : /\ ~cross.rst[k]
                           /\ cross.en[k] => /\ \A j \in 1 .. k : cross.en[j]
                                             /\ 4 * line.n + line.h >= 4 * inlog.first + 2 * k
      /\ took # <<>> => Place(took) >= inlog.first
      /\ wrt.fwr => Place(wrt.data) >= inlog.first
      /\ \A k \in 1 .. Len(fifo.q) : Place(fifo.q[k]) >= inlog.first
  BY <1>2 DEF SessionLasts
<1>4. /\ line.n \in Nat /\ line.h \in 0 .. 3 /\ inlog.first \in Nat /\ line.n >= inlog.first
  BY InTypes DEF SessionBegins
<1>5. line'.n \in Nat /\ line'.h \in 0 .. 3 /\ 4 * line'.n + line'.h >= (4 * line.n + line.h) + 2
      /\ inlog'.first = inlog.first
  <2>1. /\ line'.n = (IF line.h + s >= 2 THEN line.n + 1 ELSE line.n)
        /\ line'.h = (IF line.h + s >= 2 THEN (line.h + s) - 2 ELSE (line.h + s) + 2)
        /\ inlog'.first = inlog.first
    BY DEF EdgeMoves
  <2> QED
    BY <1>4, <2>1
<1>6. SyncStages \in Stages /\ ~IqReset
  <2>1. SyncStages \in Stages
    BY <1>1 DEF Stages
  <2> QED
    BY <1>1, <1>3, <2>1
<1>7. ~fifo'.busy
  BY <1>3, <1>6 DEF FifoMoves
<1>8. ASSUME NEW k \in Stages
      PROVE  /\ ~cross'.rst[k]
             /\ cross'.en[k] => /\ \A j \in 1 .. k : cross'.en[j]
                                /\ 4 * line'.n + line'.h >= 4 * inlog'.first + 2 * k
  <2>1. CASE k = 1
    BY <1>1, <1>2, <1>4, <1>5, <2>1
  <2>2. CASE k > 1
    <3>1. PICK i \in Stages : i = k - 1 /\ cross'.en[k] = cross.en[i] /\ cross'.rst[k] = cross.rst[i]
      BY <1>1, <2>2 DEF Stages
    <3>2. ASSUME cross'.en[k], NEW j \in 1 .. k
          PROVE  cross'.en[j]
      <4>1. CASE j = 1
        BY <1>1, <1>2, <4>1
      <4>2. CASE j > 1
        <5>1. j - 1 \in 1 .. i /\ j \in Stages /\ cross'.en[j] = cross.en[j - 1]
          BY <1>1, <3>1, <4>2 DEF Stages
        <5> QED
          BY <1>3, <3>1, <3>2, <5>1
      <4> QED
        BY <4>1, <4>2
    <3>3. ASSUME cross'.en[k]
          PROVE  4 * line'.n + line'.h >= 4 * inlog'.first + 2 * k
      <4>1. 4 * line.n + line.h >= 4 * inlog.first + 2 * i
        BY <1>3, <3>1, <3>3
      <4> QED
        BY <1>4, <1>5, <3>1, <4>1 DEF Stages
    <3> QED
      BY <1>3, <3>1, <3>2, <3>3
  <2> QED
    BY <1>1, <2>1, <2>2 DEF Stages
<1>9. took' # <<>> => Place(took') >= inlog'.first
  BY <1>3, <1>5 DEF FifoMoves
<1>10. ASSUME wrt'.fwr
       PROVE  Place(wrt'.data) >= inlog'.first
  <2>1. Received /\ ~Closed
    BY <1>10, Zenon DEF EdgeMoves
  <2>2. des.valid /\ IqEnable
    BY <2>1, Zenon DEF Received
  <2>3. wrt'.data = <<des.i, des.q>> /\ des.q[2] = line.n - 1
    BY <2>1, <2>2 DEF EdgeMoves, DesFollows
  <2>4. Place(wrt'.data) = line.n - 1
    BY <2>3 DEF Place
  <2>5. 4 * line.n + line.h >= 4 * inlog.first + 2 * SyncStages
    BY <1>1, <1>3, <1>6, <2>2
  <2> QED
    BY <1>1, <1>4, <1>5, <2>4, <2>5
<1>11. ASSUME NEW k \in 1 .. Len(fifo'.q)
       PROVE  Place(fifo'.q[k]) >= inlog'.first
  <2>1. \/ k \in 1 .. Len(fifo.q) /\ fifo'.q[k] = fifo.q[k]
        \/ wrt.fwr /\ fifo'.q[k] = wrt.data
    BY FifoIs
  <2> QED
    BY <1>3, <1>5, <2>1
<1> QED
  BY <1>7, <1>8, <1>9, <1>10, <1>11
\* What a sample still to be lost costs: a slip, or it was there before.
LEMMA EdgeOwed ==
  ASSUME InTypeOK, DesFollows, FifoMoves, NEW s \in {0, 1}, EdgeMoves(s), InTypeOK'
  PROVE  /\ One(Owed') + One(line.h = 1 /\ s = 1) <= One(Owed) + s
         /\ ~des.valid => One(Owed') + One(line.h = 1 /\ s = 1) <= s
         /\ des.valid /\ wrt.drop => Owed /\ (wrt'.fwr \/ ~Owed')
<1>1. /\ line.h \in 0 .. 3 /\ des.valid \in BOOLEAN /\ wrt.fwr \in BOOLEAN /\ wrt.drop \in BOOLEAN
      /\ fifo.occ \in Nat
  BY InTypes
<1>2. RxDepth \in Nat /\ fifo'.occ \in Nat
  <2>1. fifo' \in [q : Seq(Samples), occ : Nat, busy : BOOLEAN]
    BY DEF InTypeOK
  <2>2. RxDepth \in Nat
    BY SampleInAssumption
  <2> QED
    BY <2>1, <2>2
<1>3. /\ line'.h = (IF line.h + s >= 2 THEN (line.h + s) - 2 ELSE (line.h + s) + 2)
      /\ des'.valid <=> (line.h \in {2, 3})
  BY DEF EdgeMoves
<1>4. /\ wrt'.fwr \/ wrt'.drop => des.valid /\ ~IqReset
      /\ wrt'.fwr => ~Closed
  <2>1. /\ wrt'.fwr \/ wrt'.drop => Received
        /\ wrt'.fwr => ~Closed
    BY Zenon DEF EdgeMoves
  <2> QED
    BY <2>1, Zenon DEF Received
<1>5. wrt'.fwr /\ fifo'.occ >= RxDepth => wrt.fwr /\ des.valid
  <2>1. ASSUME wrt'.fwr, fifo'.occ >= RxDepth, ~wrt.fwr
        PROVE  FALSE
    <3>1. fifo.occ < RxDepth
      BY <1>1, <1>2, <1>4, <2>1 DEF Closed
    <3>2. fifo'.occ <= fifo.occ + One(wrt.fwr /\ ~Closed)
      BY <1>4, <2>1 DEF FifoMoves
    <3>3. One(wrt.fwr /\ ~Closed) = 0
      BY <2>1 DEF One
    <3> QED
      BY <1>1, <1>2, <2>1, <3>1, <3>2, <3>3
  <2> QED
    BY <1>4, <2>1
<1>6. /\ des.valid => line.h # 3
      /\ des.valid /\ (wrt.fwr \/ wrt.drop) => line.h \in {0, 1}
  BY DEF DesFollows
<1>7. Owed' => (line.h = 3 /\ s = 1) \/ Owed
  <2>1. CASE des'.valid /\ line'.h = 2
    BY <1>1, <1>3, <2>1
  <2>2. CASE des'.valid /\ (wrt'.fwr \/ wrt'.drop)
    <3>1. des.valid /\ line.h = 2
      BY <1>1, <1>3, <1>4, <1>6, <2>2
    <3> QED
      BY <3>1 DEF Owed
  <2>3. CASE wrt'.fwr /\ fifo'.occ >= RxDepth
    BY <1>5, <2>3 DEF Owed
  <2> QED
    BY <2>1, <2>2, <2>3 DEF Owed
<1>8. ~des.valid /\ Owed' => line.h = 3 /\ s = 1
  <2>1. ASSUME ~des.valid, Owed'
        PROVE  des'.valid /\ line'.h = 2
    BY <1>4, <2>1 DEF Owed
  <2> QED
    BY <1>1, <1>3, <2>1
<1>9. des.valid /\ wrt.drop => Owed /\ (wrt'.fwr \/ ~Owed')
  <2>1. ASSUME des.valid, wrt.drop, ~wrt'.fwr
        PROVE  ~Owed'
    <3>1. line.h \in {0, 1} /\ ~des'.valid
      BY <1>3, <1>6, <2>1
    <3> QED
      BY <2>1, <3>1 DEF Owed
  <2> QED
    BY <2>1 DEF Owed
<1>10. /\ One(Owed') + One(line.h = 1 /\ s = 1) <= One(Owed) + s
       /\ ~des.valid => One(Owed') + One(line.h = 1 /\ s = 1) <= s
  <2>1. CASE Owed'
    BY <1>1, <1>7, <1>8, <2>1 DEF One
  <2>2. CASE ~Owed'
    BY <2>2 DEF One
  <2> QED
    BY <2>1, <2>2
<1> QED
  BY <1>9, <1>10

\* The holes of earlier sessions stay counted.
LEMMA EdgeTaken ==
  ASSUME InTypeOK, DesFollows, HolesTaken, PulseWaits(wrt.drop), CrossIq(wrt.drop), FifoMoves,
         NEW s \in {0, 1}, EdgeMoves(s), InTypeOK'
  PROVE  HolesTaken'
<1>1. /\ inlog'.gone = inlog.gone /\ inlog'.slips = inlog.slips + s
      /\ inlog.gone \in Nat /\ inlog.slips \in Nat /\ Arrived(pulse) \in Nat
  BY InTypes, CountedIs DEF EdgeMoves
<1>2. Arrived(pulse') = Arrived(pulse)
  BY InTypes, IqCounts DEF InTypeOK
<1>3. One(Owed') + One(line.h = 1 /\ s = 1) <= One(Owed) + s
  BY EdgeOwed
<1>4. One(Owed') \in {0, 1} /\ One(Owed) \in {0, 1} /\ One(line.h = 1 /\ s = 1) \in {0, 1}
  BY DEF One
<1>5. inlog'.gone + One(Owed') <= Arrived(pulse') + inlog'.slips
  BY <1>1, <1>2, <1>3, <1>4 DEF HolesTaken
<1> QED
  BY <1>5 DEF HolesTaken

\* How the count of what is missing moves with an edge, in a session.
LEMMA EdgeMissing ==
  ASSUME InTypeOK, DesFollows, InOrder, FifoMoves, NEW s \in {0, 1}, EdgeMoves(s), InTypeOK',
         ~IqReset
  PROVE  /\ LetIn \in Nat /\ LetIn' \in Nat /\ Missing \in Int /\ Missing' \in Int
         /\ LetIn' = (LetIn - One(wrt.fwr /\ Closed)) + One(wrt'.fwr)
         /\ LetIn = 0 => Missing = 0 /\ ~wrt.fwr
         /\ LetIn = 0 /\ LetIn' > 0 => Missing' = One(line.h = 1 /\ s = 1) /\ des.valid
         /\ LetIn > 0 /\ LetIn' > 0 /\ (wrt.fwr /\ Closed => ~des.valid) =>
              Missing' = (((Missing + One(des.valid)) + One(line.h = 1 /\ s = 1))
                            + One(wrt.fwr /\ Closed)) - One(wrt'.fwr)
         /\ LetIn > 0 /\ LetIn' = 0 => Missing >= 0 /\ Missing' = 0
<1>1. /\ wrt.fwr \in BOOLEAN /\ Len(fifo.q) \in Nat /\ Decided \in Int
      /\ \A k \in 1 .. Len(fifo.q) : Place(fifo.q[k]) \in Nat
      /\ took # <<>> => Place(took) \in Nat
      /\ wrt.fwr => Place(wrt.data) \in Nat
      /\ fifo.q \in Seq(Samples) /\ des.valid \in BOOLEAN
  BY InTypes
<1>2. /\ wrt'.fwr => des.valid /\ wrt'.data = <<des.i, des.q>>
  <2>1. wrt'.fwr => Received /\ ~Closed
    BY Zenon DEF EdgeMoves
  <2> QED
    BY <2>1 DEF EdgeMoves, Received
<1>3. /\ Decided' = (Decided + One(des.valid)) + One(line.h = 1 /\ s = 1)
      /\ des.valid => Place(<<des.i, des.q>>) = Decided + 1
  BY DecidedMoves
<1>4. /\ took' = took
      /\ fifo'.q = IF wrt.fwr /\ ~Closed THEN Append(fifo.q, wrt.data) ELSE fifo.q
      /\ Len(fifo'.q) = Len(fifo.q) + One(wrt.fwr /\ ~Closed)
  BY FifoIs DEF FifoMoves
<1>5. /\ One(des.valid) \in {0, 1} /\ One(line.h = 1 /\ s = 1) \in {0, 1} /\ One(took # <<>>) \in {0, 1}
      /\ One(wrt.fwr) \in {0, 1} /\ One(wrt'.fwr) \in {0, 1} /\ One(wrt.fwr /\ ~Closed) \in {0, 1}
      /\ One(wrt.fwr /\ Closed) \in {0, 1}
      /\ One(wrt.fwr) = One(wrt.fwr /\ Closed) + One(wrt.fwr /\ ~Closed)
  BY DEF One
<1>6. /\ LetIn = (One(took # <<>>) + Len(fifo.q)) + One(wrt.fwr)
      /\ LetIn' = (One(took # <<>>) + Len(fifo'.q)) + One(wrt'.fwr)
      /\ LetIn \in Nat /\ LetIn' \in Nat
      /\ LetIn' = (LetIn - One(wrt.fwr /\ Closed)) + One(wrt'.fwr)
  BY <1>1, <1>4, <1>5 DEF LetIn
<1>7. (LetIn > 0) <=> (took # <<>> \/ fifo.q # <<>> \/ wrt.fwr)
  <2>1. Len(fifo.q) = 0 <=> fifo.q = <<>>
    BY <1>1
  <2>2. (One(took # <<>>) = 0 <=> took = <<>>) /\ (One(wrt.fwr) = 0 <=> ~wrt.fwr)
    BY DEF One
  <2> QED
    BY <1>1, <1>5, <1>6, <2>1, <2>2
<1>8. (LetIn' > 0) <=> (took # <<>> \/ fifo'.q # <<>> \/ wrt'.fwr)
  <2>1. fifo'.q \in Seq(Samples)
    BY DEF InTypeOK
  <2>2. Len(fifo'.q) = 0 <=> fifo'.q = <<>>
    BY <2>1
  <2>3. (One(took # <<>>) = 0 <=> took = <<>>) /\ (One(wrt'.fwr) = 0 <=> ~wrt'.fwr)
    BY DEF One
  <2>4. Len(fifo'.q) \in Nat
    BY <2>1
  <2> QED
    BY <1>5, <1>6, <2>2, <2>3, <2>4
<1>9. LetIn > 0 => FirstPlace \in Int
  BY <1>1, <1>7 DEF FirstPlace
<1>10. Missing = IF LetIn = 0 THEN 0 ELSE ((Decided - FirstPlace) + 1) - LetIn
  BY DEF Missing
<1>11. Missing' = IF LetIn' = 0 THEN 0 ELSE ((Decided' - FirstPlace') + 1) - LetIn'
  BY DEF Missing
<1>12. LetIn = 0 => took = <<>> /\ fifo.q = <<>> /\ ~wrt.fwr /\ Missing = 0
  BY <1>6, <1>7, <1>10
<1>13. ASSUME LetIn = 0, LetIn' > 0
       PROVE  FirstPlace' = Decided + 1 /\ Missing' = One(line.h = 1 /\ s = 1) /\ des.valid
  <2>1. took = <<>> /\ fifo.q = <<>> /\ ~wrt.fwr /\ fifo'.q = <<>>
    BY <1>4, <1>12, <1>13
  <2>2. wrt'.fwr
    BY <1>8, <1>13, <2>1
  <2>3. FirstPlace' = Decided + 1 /\ des.valid
    BY <1>2, <1>3, <1>4, <2>1, <2>2 DEF FirstPlace
  <2>4. LetIn' = 1
    BY <1>5, <1>6, <1>12, <1>13, <2>1, <2>2 DEF One
  <2>5. One(des.valid) = 1
    BY <2>3 DEF One
  <2>6. PICK x \in {0, 1} : x = One(line.h = 1 /\ s = 1)
    BY <1>5
  <2>7. Decided' = (Decided + 1) + x
    BY <1>3, <2>5, <2>6
  <2>8. Missing' = ((Decided' - (Decided + 1)) + 1) - 1
    BY <1>11, <2>3, <2>4
  <2>9. Missing' = x
    BY <1>1, <2>6, <2>7, <2>8
  <2> QED
    BY <2>3, <2>6, <2>9
<1>14. ASSUME LetIn > 0, LetIn' > 0, wrt.fwr /\ Closed => ~des.valid
       PROVE  FirstPlace' = FirstPlace
  <2>1. CASE took # <<>>
    BY <1>4, <2>1 DEF FirstPlace
  <2>2. CASE took = <<>> /\ fifo.q # <<>>
    <3>1. Len(fifo.q) > 0
      BY <1>1, <2>2
    <3>2. fifo'.q[1] = fifo.q[1] /\ fifo'.q # <<>>
      <4>1. CASE wrt.fwr /\ ~Closed
        <5>1. wrt.data \in Samples
          BY <4>1 DEF InTypeOK
        <5>2. Append(fifo.q, wrt.data)[1] = fifo.q[1] /\ Append(fifo.q, wrt.data) # <<>>
          BY <1>1, <3>1, <5>1
        <5> QED
          BY <1>4, <4>1, <5>2
      <4>2. CASE ~(wrt.fwr /\ ~Closed)
        BY <1>4, <2>2, <4>2
      <4> QED
        BY <4>1, <4>2
    <3> QED
      BY <1>4, <2>2, <3>2 DEF FirstPlace
  <2>3. CASE took = <<>> /\ fifo.q = <<>>
    <3>1. wrt.fwr
      BY <1>7, <1>14, <2>3
    <3>2. CASE Closed
      <4>1. ~wrt'.fwr /\ fifo'.q = <<>>
        BY <1>2, <1>4, <1>14, <2>3, <3>1, <3>2
      <4> QED
        BY <1>8, <1>14, <2>3, <4>1
    <3>3. CASE ~Closed
      <4>1. fifo'.q = <<wrt.data>> /\ wrt.data \in Samples
        BY <1>4, <2>3, <3>1, <3>3 DEF InTypeOK
      <4>2. fifo'.q # <<>> /\ fifo'.q[1] = wrt.data
        BY <4>1
      <4>3. FirstPlace' = Place(wrt.data)
        BY <1>4, <2>3, <4>2 DEF FirstPlace
      <4> QED
        BY <2>3, <4>3 DEF FirstPlace
    <3> QED
      BY <3>2, <3>3
  <2> QED
    BY <2>1, <2>2, <2>3
<1>15. ASSUME LetIn > 0, LetIn' > 0, wrt.fwr /\ Closed => ~des.valid
       PROVE  Missing' = (((Missing + One(des.valid)) + One(line.h = 1 /\ s = 1))
                            + One(wrt.fwr /\ Closed)) - One(wrt'.fwr)
  <2>1. /\ Missing = ((Decided - FirstPlace) + 1) - LetIn
        /\ Missing' = ((Decided' - FirstPlace) + 1) - LetIn'
        /\ FirstPlace \in Int
    BY <1>6, <1>9, <1>10, <1>11, <1>14, <1>15
  <2>2. PICK v \in {0, 1}, x \in {0, 1}, shut \in {0, 1}, now \in {0, 1} :
           /\ v = One(des.valid) /\ x = One(line.h = 1 /\ s = 1)
           /\ shut = One(wrt.fwr /\ Closed) /\ now = One(wrt'.fwr)
    BY <1>5
  <2>3. Decided' = (Decided + v) + x /\ LetIn' = (LetIn - shut) + now /\ LetIn \in Nat
    BY <1>3, <1>6, <2>2
  <2>4. Missing' = (((Missing + v) + x) + shut) - now
    <3>1. PICK e \in Int, f \in Int, l \in Nat : e = Decided /\ f = FirstPlace /\ l = LetIn
      BY <1>1, <2>1, <2>3
    <3>2. Missing = ((e - f) + 1) - l
      BY <2>1, <3>1
    <3>3. Missing' = ((((e + v) + x) - f) + 1) - ((l - shut) + now)
      BY <2>1, <2>3, <3>1
    <3> QED
      BY <2>2, <3>1, <3>2, <3>3
  <2> QED
    BY <2>2, <2>4
<1>16. ASSUME LetIn > 0, LetIn' = 0
       PROVE  Missing >= 0 /\ Missing' = 0
  <2>1. took = <<>> /\ fifo'.q = <<>> /\ ~wrt'.fwr /\ Len(fifo'.q) = 0
    BY <1>6, <1>8, <1>16
  <2>2. fifo.q = <<>> /\ wrt.fwr /\ Len(fifo.q) = 0
    BY <1>1, <1>4, <1>5, <1>7, <1>16, <2>1
  <2>3. LetIn = 1 /\ FirstPlace = Place(wrt.data)
    BY <1>6, <2>1, <2>2 DEF One, FirstPlace
  <2>4. Place(wrt.data) <= Decided
    BY <2>2 DEF InOrder
  <2> QED
    BY <1>1, <1>10, <1>11, <1>16, <2>2, <2>3, <2>4
<1>17. Missing \in Int /\ Missing' \in Int
  <2>1. Missing \in Int
    BY <1>1, <1>6, <1>9, <1>10
  <2>2. LetIn' > 0 => FirstPlace' \in Int
    <3>1. CASE took # <<>>
      BY <1>1, <1>4, <3>1 DEF FirstPlace
    <3>2. CASE took = <<>> /\ fifo'.q # <<>>
      <4>1. fifo'.q \in Seq(Samples) /\ Len(fifo'.q) > 0
        BY <3>2 DEF InTypeOK
      <4>2. fifo'.q[1] \in Samples
        BY <4>1
      <4> QED
        BY <1>4, <3>2, <4>2 DEF FirstPlace, Place, Samples, Halves
    <3>3. CASE took = <<>> /\ fifo'.q = <<>> /\ wrt'.fwr
      BY <1>1, <1>2, <1>3, <1>4, <3>3 DEF FirstPlace
    <3> QED
      BY <1>8, <3>1, <3>2, <3>3
  <2>3. Decided' \in Int
    BY <1>1, <1>3, <1>5
  <2> QED
    BY <1>6, <1>11, <2>1, <2>2, <2>3
<1> QED
  BY <1>6, <1>12, <1>13, <1>15, <1>16, <1>17

\* A sample is let in, or counted as dropped, or it is a slip.
LEMMA EdgeHoles ==
  ASSUME InTypeOK, DesFollows, InOrder, SessionBegins, SessionLasts, HolesKnown,
         PulseWaits(wrt.drop), CrossIq(wrt.drop), FifoMoves, NEW s \in {0, 1}, EdgeMoves(s), InTypeOK'
  PROVE  HolesKnown'
<1> SUFFICES ASSUME Known'
             PROVE  /\ LetIn' > 0 => IqEnable'
                    /\ (inlog'.gone + Missing') + One(Owed')
                         <= (Shown(pulse') + One(wrt'.drop /\ ~pulse'.old)) + inlog'.slips
  BY DEF HolesKnown, Pending
<1>1. /\ inctl' = inctl
      /\ IqReset <=> cross.rst[SyncStages]
      /\ IqEnable <=> cross.en[SyncStages]
      /\ IqEnable' <=> cross.en[SyncStages - 1]
      /\ SyncStages \in Nat /\ SyncStages >= 2
  BY EdgeCross
<1>2. Known
  BY <1>1, EdgeKnown
<1>3. SyncStages \in Stages /\ SyncStages - 1 \in 1 .. SyncStages
  BY <1>1 DEF Stages
<1>4. ~IqReset /\ (IqEnable => IqEnable') /\ ~fifo.busy
  BY <1>1, <1>2, <1>3 DEF SessionLasts
<1>5. /\ LetIn > 0 => IqEnable
      /\ (inlog.gone + Missing) + One(Owed) <= (Shown(pulse) + Pending(wrt.drop)) + inlog.slips
  BY <1>2 DEF HolesKnown
<1>6. /\ LetIn \in Nat /\ LetIn' \in Nat /\ Missing \in Int /\ Missing' \in Int
      /\ LetIn' = (LetIn - One(wrt.fwr /\ Closed)) + One(wrt'.fwr)
      /\ LetIn = 0 => Missing = 0 /\ ~wrt.fwr
      /\ LetIn = 0 /\ LetIn' > 0 => Missing' = One(line.h = 1 /\ s = 1) /\ des.valid
      /\ LetIn > 0 /\ LetIn' > 0 /\ (wrt.fwr /\ Closed => ~des.valid) =>
           Missing' = (((Missing + One(des.valid)) + One(line.h = 1 /\ s = 1))
                         + One(wrt.fwr /\ Closed)) - One(wrt'.fwr)
      /\ LetIn > 0 /\ LetIn' = 0 => Missing >= 0 /\ Missing' = 0
  BY <1>4, EdgeMissing
<1>7. /\ One(Owed') + One(line.h = 1 /\ s = 1) <= One(Owed) + s
      /\ ~des.valid => One(Owed') + One(line.h = 1 /\ s = 1) <= s
      /\ des.valid /\ wrt.drop => Owed /\ (wrt'.fwr \/ ~Owed')
  BY EdgeOwed
<1>8. /\ wrt'.fwr => Received
      /\ Received /\ ~wrt'.fwr => wrt'.drop
      /\ Received <=> (IqEnable /\ ~IqReset /\ des.valid)
  <2>1. /\ wrt'.fwr => Received
        /\ Received /\ ~wrt'.fwr => wrt'.drop
    BY Zenon DEF EdgeMoves
  <2> QED
    BY <2>1, Zenon DEF Received
<1>9. wrt.fwr /\ Closed => ~des.valid /\ Owed /\ ~wrt'.fwr
  <2>1. fifo.occ >= RxDepth \/ ~Closed
    BY <1>4 DEF Closed
  <2>2. wrt.fwr /\ Closed => ~des.valid /\ Owed
    BY <2>1 DEF DesFollows, Owed
  <2> QED
    BY <1>8, <2>2
<1>10. LetIn' > 0 => IqEnable'
  <2>1. CASE LetIn > 0
    BY <1>4, <1>5, <2>1
  <2>2. CASE LetIn = 0 /\ LetIn' > 0
    <3>1. wrt'.fwr
      <4>1. One(wrt.fwr /\ Closed) = 0
        BY <1>6, <2>2 DEF One
      <4>2. PICK n \in {0, 1} : n = One(wrt'.fwr)
        BY DEF One
      <4>3. LetIn' = (0 - 0) + n
        BY <1>6, <2>2, <4>1, <4>2
      <4> QED
        BY <2>2, <4>2, <4>3 DEF One
    <3> QED
      BY <1>4, <1>8, <3>1
  <2> QED
    BY <1>6, <2>1, <2>2
<1>11. /\ Shown(pulse') = Shown(pulse) + Pending(wrt.drop) /\ (pulse'.old <=> wrt.drop)
       /\ Shown(pulse) \in Nat /\ wrt.drop \in BOOLEAN
  <2>1. CrossTypeOK /\ wrt.drop \in BOOLEAN /\ pulse \in Pulses
    BY InTypes DEF InTypeOK
  <2>2. Shown(pulse') = Shown(pulse) + Pending(wrt.drop) /\ pulse'.old = wrt.drop
    BY <1>4, <2>1, IqCounts
  <2> QED
    BY <2>1, <2>2, CountedIs
<1>12. /\ inlog'.gone = inlog.gone /\ inlog'.slips = inlog.slips + s
       /\ inlog.gone \in Nat /\ inlog.slips \in Nat
  BY InTypes DEF EdgeMoves
<1>13. PICK v \in {0, 1}, x \in {0, 1}, shut \in {0, 1}, now \in {0, 1}, o \in {0, 1}, p \in {0, 1} :
          /\ v = One(des.valid) /\ x = One(line.h = 1 /\ s = 1)
          /\ shut = One(wrt.fwr /\ Closed) /\ now = One(wrt'.fwr)
          /\ o = One(Owed) /\ p = Pending(wrt.drop)
  BY DEF One, Pending
<1>14. PICK o2 \in {0, 1}, p2 \in {0, 1} : o2 = One(Owed') /\ p2 = One(wrt'.drop /\ ~pulse'.old)
  BY DEF One
<1>15. PICK m \in Int, m2 \in Int, l \in Nat, sh \in Nat, g \in Nat, sl \in Nat :
          /\ m = Missing /\ m2 = Missing' /\ l = LetIn /\ sh = Shown(pulse) /\ g = inlog.gone
          /\ sl = inlog.slips
  BY <1>6, <1>11, <1>12
<1>16. (g + m) + o <= (sh + p) + sl /\ o2 + x <= o + s /\ (v = 0 => o2 + x <= s)
  <2>1. v = 0 => ~des.valid
    BY <1>13 DEF One
  <2> QED
    BY <1>5, <1>7, <1>13, <1>14, <1>15, <2>1
<1>17. (g + m2) + o2 <= (((sh + p) + p2) + sl) + s
  <2>1. CASE LetIn' = 0
    <3>1. m2 = 0 /\ m >= 0
      <4>1. CASE LetIn = 0
        <5>1. m = 0
          BY <1>6, <1>15, <4>1
        <5>2. Missing' = 0
          BY <2>1 DEF Missing
        <5> QED
          BY <1>15, <5>1, <5>2
      <4>2. CASE LetIn > 0
        BY <1>6, <1>15, <2>1, <4>2
      <4> QED
        BY <1>6, <4>1, <4>2
    <3> QED
      BY <1>13, <1>14, <1>15, <1>16, <3>1
  <2>2. CASE LetIn = 0 /\ LetIn' > 0
    <3>1. m2 = x /\ m = 0
      BY <1>6, <1>13, <1>15, <2>2
    <3>2. /\ g \in Nat /\ sh \in Nat /\ sl \in Nat /\ p \in {0, 1} /\ p2 \in {0, 1}
          /\ o \in {0, 1} /\ o2 \in {0, 1} /\ x \in {0, 1}
      BY <1>13, <1>14, <1>15
    <3> QED
      BY <1>16, <3>1, <3>2
  <2>3. CASE LetIn > 0 /\ LetIn' > 0
    <3>1. m2 = (((m + v) + x) + shut) - now
      BY <1>6, <1>9, <1>13, <1>15, <2>3
    <3>2. CASE wrt.fwr /\ Closed
      <4>1. v = 0 /\ now = 0 /\ o = 1 /\ shut = 1
        BY <1>9, <1>13, <3>2 DEF One
      <4> QED
        BY <1>13, <1>14, <1>15, <1>16, <3>1, <4>1
    <3>3. CASE ~(wrt.fwr /\ Closed) /\ ~des.valid
      <4>1. v = 0 /\ now = 0 /\ shut = 0
        BY <1>8, <1>13, <3>3 DEF One
      <4> QED
        BY <1>13, <1>14, <1>15, <1>16, <3>1, <4>1
    <3>4. CASE ~(wrt.fwr /\ Closed) /\ des.valid /\ wrt'.fwr
      <4>1. v = 1 /\ now = 1 /\ shut = 0
        BY <1>13, <3>4 DEF One
      <4> QED
        BY <1>13, <1>14, <1>15, <1>16, <3>1, <4>1
    <3>5. CASE ~(wrt.fwr /\ Closed) /\ des.valid /\ ~wrt'.fwr
      <4>1. wrt'.drop
        BY <1>4, <1>5, <1>8, <2>3, <3>5
      <4>2. v = 1 /\ now = 0 /\ shut = 0
        BY <1>13, <3>5 DEF One
      <4>3. CASE ~wrt.drop
        <5>1. p2 = 1
          BY <1>11, <1>14, <4>1, <4>3 DEF One
        <5> QED
          BY <1>13, <1>14, <1>15, <1>16, <3>1, <4>2, <5>1
      <4>4. CASE wrt.drop
        <5>1. o = 1 /\ o2 = 0
          BY <1>7, <1>13, <1>14, <3>5, <4>4 DEF One
        <5>2. x <= s
          BY <1>13 DEF One
        <5> QED
          BY <1>13, <1>14, <1>15, <1>16, <3>1, <4>2, <5>1, <5>2
      <4> QED
        BY <4>3, <4>4
    <3> QED
      BY <3>2, <3>3, <3>4, <3>5
  <2> QED
    BY <1>6, <2>1, <2>2, <2>3
<1>18. (inlog'.gone + Missing') + One(Owed') <= (Shown(pulse') + One(wrt'.drop /\ ~pulse'.old)) + inlog'.slips
  BY <1>11, <1>12, <1>13, <1>14, <1>15, <1>17
<1> QED
  BY <1>10, <1>18

\* An edge of the chip's clock.
LEMMA IqEdgePreserves ==
  ASSUME InInv, IqEdge
  PROVE  InInv'
<1>1. /\ InTypeOK /\ DesFollows /\ MixedCounted /\ InOrder /\ DropsCounted
      /\ SessionBegins /\ SessionLasts /\ HolesKnown /\ HolesTaken
      /\ PulseWaits(wrt.drop) /\ CrossIq(wrt.drop)
  BY DEF InInv, DropsCounted, IqEdge
<1>2. InTypeOK' /\ FifoMoves
  BY <1>1, EdgeIs
<1>3. PICK s \in {0, 1} : EdgeMoves(s)
  BY <1>1, EdgeIs
<1>4. DesFollows' /\ MixedCounted' /\ InOrder' /\ DropsCounted'
  BY <1>1, <1>2, <1>3, EdgeDes, EdgeMixed, EdgeOrder, EdgeDrops
<1>5. SessionBegins' /\ SessionLasts'
  BY <1>1, <1>2, <1>3, EdgeBegins, EdgeLasts
<1>6. HolesKnown' /\ HolesTaken'
  BY <1>1, <1>2, <1>3, EdgeHoles, EdgeTaken
<1> QED
  BY <1>2, <1>4, <1>5, <1>6 DEF InInv
-----------------------------------------------------------------------------
\* The master takes the first sample of the queue: what was missing before it is gone.
TakeMoves ==
  /\ fifo.q # <<>> /\ took' = fifo.q[1] /\ fifo'.q = Tail(fifo.q)
  /\ fifo'.occ = fifo.occ /\ fifo'.busy = fifo.busy
  /\ inlog' = IF took = <<>> \/ ~Known THEN inlog
              ELSE [inlog EXCEPT !.gone = @ + ((Place(took') - Place(took)) - 1)]

\* What taking a sample does to the queue.
LEMMA TakeIs ==
  ASSUME InTypeOK, InOrder, CrossTypeOK', Take, UNCHANGED <<line, des, wrt>>
  PROVE  /\ InTypeOK' /\ TakeMoves
         /\ Len(fifo.q) >= 1 /\ Len(fifo'.q) = Len(fifo.q) - 1
         /\ \A k \in 1 .. Len(fifo.q) - 1 : fifo'.q[k] = fifo.q[k + 1]
         /\ inlog'.gone = (IF took = <<>> \/ ~Known THEN inlog.gone
                           ELSE inlog.gone + ((Place(fifo.q[1]) - Place(took)) - 1))
         /\ inlog'.slips = inlog.slips /\ inlog'.first = inlog.first /\ inlog'.hit = inlog.hit
         /\ inlog'.mixed = inlog.mixed /\ inlog'.drops = inlog.drops /\ inlog'.resets = inlog.resets
<1>1. fifo.q \in Seq(Samples) /\ fifo \in [q : Seq(Samples), occ : Nat, busy : BOOLEAN]
  BY DEF InTypeOK
<1>2. fifo.q # <<>> /\ took' = fifo.q[1] /\ fifo' = [fifo EXCEPT !.q = Tail(fifo.q)]
  BY DEF Take
<1>3. Len(fifo.q) >= 1 /\ Len(fifo.q) \in Nat /\ fifo.q[1] \in Samples
  BY <1>1, <1>2
<1>4. /\ Tail(fifo.q) \in Seq(Samples) /\ Len(Tail(fifo.q)) = Len(fifo.q) - 1
      /\ \A k \in 1 .. Len(fifo.q) - 1 : Tail(fifo.q)[k] = fifo.q[k + 1]
  BY <1>1, <1>2
<1>5. /\ fifo' \in [q : Seq(Samples), occ : Nat, busy : BOOLEAN] /\ fifo'.q = Tail(fifo.q)
      /\ fifo'.occ = fifo.occ /\ fifo'.busy = fifo.busy
  BY <1>1, <1>2, <1>4
<1>6. inlog' = IF took = <<>> \/ ~Known THEN inlog
               ELSE [inlog EXCEPT !.gone = @ + ((Place(took') - Place(took)) - 1)]
  BY DEF Take
<1>7. inlog \in [drops : Nat, resets : Nat, slips : Nat, mixed : Nat, gone : Nat, first : Nat, hit : BOOLEAN]
  BY DEF InTypeOK
<1>8. took # <<>> => (Place(fifo.q[1]) - Place(took)) - 1 \in Nat
  <2>1. Place(fifo.q[1]) \in Nat /\ (took # <<>> => Place(took) \in Nat)
    BY <1>3, InTypes
  <2>2. took # <<>> => Place(took) < Place(fifo.q[1])
    BY <1>3 DEF InOrder
  <2> QED
    BY <2>1, <2>2
<1>9. /\ inlog' \in [drops : Nat, resets : Nat, slips : Nat, mixed : Nat, gone : Nat, first : Nat, hit : BOOLEAN]
      /\ inlog'.gone = (IF took = <<>> \/ ~Known THEN inlog.gone
                        ELSE inlog.gone + ((Place(fifo.q[1]) - Place(took)) - 1))
      /\ inlog'.slips = inlog.slips /\ inlog'.first = inlog.first /\ inlog'.hit = inlog.hit
      /\ inlog'.mixed = inlog.mixed /\ inlog'.drops = inlog.drops /\ inlog'.resets = inlog.resets
  <2>1. CASE took = <<>> \/ ~Known
    <3>1. inlog' = inlog
      BY <1>6, <2>1
    <3> QED
      BY <1>7, <2>1, <3>1
  <2>2. CASE ~(took = <<>> \/ ~Known)
    <3>1. PICK n \in Nat : n = (Place(fifo.q[1]) - Place(took)) - 1
      BY <1>8, <2>2
    <3>2. inlog' = [inlog EXCEPT !.gone = @ + n]
      BY <1>2, <1>6, <2>2, <3>1
    <3>3. inlog.gone \in Nat /\ inlog.gone + n \in Nat
      BY <1>7, <3>1
    <3>4. /\ inlog' \in [drops : Nat, resets : Nat, slips : Nat, mixed : Nat, gone : Nat, first : Nat, hit : BOOLEAN]
          /\ inlog'.gone = inlog.gone + n
          /\ inlog'.slips = inlog.slips /\ inlog'.first = inlog.first /\ inlog'.hit = inlog.hit
          /\ inlog'.mixed = inlog.mixed /\ inlog'.drops = inlog.drops /\ inlog'.resets = inlog.resets
      BY <1>7, <3>2, <3>3
    <3> QED
      BY <2>2, <3>1, <3>4
  <2> QED
    BY <2>1, <2>2
<1>10. InTypeOK'
  BY <1>2, <1>3, <1>5, <1>9 DEF InTypeOK
<1>11. TakeMoves
  BY <1>2, <1>5, <1>6 DEF TakeMoves
<1> QED
  BY <1>3, <1>4, <1>5, <1>9, <1>10, <1>11

\* What is queued behind the first sample leaves no more of the missing than before it.
LEMMA HoleBefore ==
  ASSUME InTypeOK, InOrder, DesFollows, took # <<>>, fifo.q # <<>>
  PROVE  ((Place(fifo.q[1]) - Place(took)) - 1) + One(wrt.drop) <= Missing
<1>1. /\ fifo.q \in Seq(Samples) /\ Decided \in Int /\ Place(took) \in Nat
      /\ \A k \in 1 .. Len(fifo.q) : Place(fifo.q[k]) \in Nat
      /\ wrt.fwr => Place(wrt.data) \in Nat
  BY InTypes
<1>2. PICK n \in Nat \ {0} : n = Len(fifo.q)
  BY <1>1
<1>3. PICK a \in Nat, z \in Nat, t \in Nat, e \in Int :
         a = Place(fifo.q[1]) /\ z = Place(fifo.q[n]) /\ t = Place(took) /\ e = Decided
  BY <1>1, <1>2
<1>4. a + (n - 1) <= z
  <2>1. CASE n = 1
    BY <1>3, <2>1
  <2>2. CASE n > 1
    <3>1. Place(fifo.q[1]) + (n - 1) <= Place(fifo.q[n])
      BY <1>2, <2>2 DEF InOrder
    <3> QED
      BY <1>3, <3>1
  <2>3. n = 1 \/ n > 1
    OBVIOUS
  <2> QED
    BY <2>1, <2>2, <2>3
<1>5. PICK d \in {0, 1}, w \in {0, 1} : d = One(wrt.drop) /\ w = One(wrt.fwr)
  BY DEF One
<1>6. z <= (e - d) - w
  <2>1. z <= e - d
    BY <1>2, <1>3, <1>5 DEF InOrder
  <2>2. ASSUME wrt.fwr
        PROVE  z < e /\ d = 0 /\ w = 1
    <3>1. PICK m \in Nat : m = Place(wrt.data) /\ z < m /\ m <= e
      BY <1>1, <1>2, <1>3, <2>2 DEF InOrder
    <3> QED
      BY <1>3, <1>5, <2>2, <3>1 DEF DesFollows, One
  <2>3. ~wrt.fwr => w = 0
    BY <1>5 DEF One
  <2> QED
    BY <1>3, <1>5, <2>1, <2>2, <2>3
<1>7. Missing = ((e - t) + 1) - ((1 + n) + w)
  <2>1. LetIn = (1 + n) + w
    BY <1>2, <1>5 DEF LetIn, One
  <2>2. LetIn # 0 /\ FirstPlace = t
    BY <1>2, <1>3, <1>5, <2>1 DEF FirstPlace
  <2> QED
    BY <1>3, <2>1, <2>2 DEF Missing
<1>8. ((a - t) - 1) + d <= Missing
  <2>1. a \in Nat /\ z \in Nat /\ t \in Nat /\ e \in Int /\ n \in Nat /\ d \in 0 .. 1 /\ w \in 0 .. 1
    BY <1>2, <1>3, <1>5
  <2>2. ((a - t) - 1) + d <= ((e - t) + 1) - ((1 + n) + w)
    BY <1>4, <1>6, <2>1
  <2> QED
    BY <1>7, <2>2
<1> QED
  BY <1>3, <1>5, <1>8

\* The hole before a sample goes with it from the queue to what is taken.
LEMMA TakePreserves ==
  ASSUME InInv, CrossAclk, Take, UNCHANGED <<line, des, wrt>>
  PROVE  InInv'
<1>1. /\ InTypeOK /\ DesFollows /\ MixedCounted /\ InOrder /\ DropsCounted
      /\ SessionBegins /\ SessionLasts /\ HolesKnown /\ HolesTaken /\ CrossTypeOK
  BY DEF InInv, InTypeOK
<1>2. /\ CrossTypeOK' /\ rate' = 0 /\ cross' = cross
      /\ pulse'.level = pulse.level /\ pulse'.old = pulse.old /\ pulse'.sync[1] = pulse.level
      /\ inctl'.en = inctl.en /\ inctl'.rst = inctl.rst /\ inctl'.next = inctl.next
      /\ Arrived(pulse') = Shown(pulse) /\ Shown(pulse') = Shown(pulse)
  BY <1>1, AclkCounts
<1>3. InTypeOK' /\ TakeMoves
  BY <1>1, <1>2, TakeIs
<1>4. /\ Len(fifo.q) >= 1 /\ Len(fifo'.q) = Len(fifo.q) - 1
      /\ \A k \in 1 .. Len(fifo.q) - 1 : fifo'.q[k] = fifo.q[k + 1]
      /\ inlog'.gone = (IF took = <<>> \/ ~Known THEN inlog.gone
                        ELSE inlog.gone + ((Place(fifo.q[1]) - Place(took)) - 1))
      /\ inlog'.slips = inlog.slips /\ inlog'.first = inlog.first /\ inlog'.hit = inlog.hit
      /\ inlog'.mixed = inlog.mixed /\ inlog'.drops = inlog.drops /\ inlog'.resets = inlog.resets
  BY <1>1, <1>2, TakeIs
<1>5. fifo.q # <<>> /\ took' = fifo.q[1] /\ fifo'.occ = fifo.occ /\ fifo'.busy = fifo.busy
  BY <1>3 DEF TakeMoves
<1>6. /\ Len(fifo.q) \in Nat /\ \A k \in 1 .. Len(fifo.q) : Place(fifo.q[k]) \in Nat
      /\ (took # <<>> => Place(took) \in Nat) /\ Decided \in Int /\ fifo.q[1] # <<>>
      /\ inlog.gone \in Nat /\ inlog.slips \in Nat
      /\ wrt.fwr \in BOOLEAN
      /\ Arrived(pulse) \in Nat /\ Shown(pulse) \in Nat /\ Shown(pulse) >= Arrived(pulse)
  <2>1. fifo.q[1] \in Samples
    BY <1>1, <1>4, InTypes
  <2>2. fifo.q[1] # <<>>
    <3>1. 1 \in DOMAIN fifo.q[1]
      BY <2>1 DEF Samples
    <3> QED
      BY <3>1
  <2>3. pulse \in Pulses /\ One(pulse.level # pulse.sync[1]) \in {0, 1}
    BY <1>1, InTypes DEF One
  <2>4. Arrived(pulse) \in Nat /\ Shown(pulse) \in Nat /\ Shown(pulse) >= Arrived(pulse)
    BY <2>3, CountedIs
  <2> QED
    BY <1>1, <2>2, <2>4, InTypes
<1>7. Decided' = Decided /\ (Owed' <=> Owed) /\ (Known' <=> Known)
  BY <1>2, <1>4, <1>5 DEF Decided, Owed, Known
<1>8. DesFollows' /\ MixedCounted'
  BY <1>1, <1>4, <1>5 DEF DesFollows, MixedCounted
<1>9. InOrder'
  <2>1. ASSUME NEW j \in 1 .. Len(fifo'.q), NEW k \in 1 .. Len(fifo'.q), j < k
        PROVE  Place(fifo'.q[j]) + (k - j) <= Place(fifo'.q[k])
    <3>1. PICK n \in Nat : n = Len(fifo.q) /\ Len(fifo'.q) = n - 1
      BY <1>4, <1>6
    <3>2. /\ j \in 1 .. n - 1 /\ k \in 1 .. n - 1
          /\ j + 1 \in 1 .. n /\ k + 1 \in 1 .. n /\ j + 1 < k + 1 /\ (k + 1) - (j + 1) = k - j
      BY <2>1, <3>1
    <3>3. fifo'.q[j] = fifo.q[j + 1] /\ fifo'.q[k] = fifo.q[k + 1]
      BY <1>4, <3>1, <3>2
    <3>4. Place(fifo.q[j + 1]) + ((k + 1) - (j + 1)) <= Place(fifo.q[k + 1])
      BY <1>1, <3>1, <3>2 DEF InOrder
    <3> QED
      BY <3>2, <3>3, <3>4
  <2>2. ASSUME NEW k \in 1 .. Len(fifo'.q)
        PROVE  /\ Place(took') < Place(fifo'.q[k])
               /\ wrt.fwr => Place(fifo'.q[k]) < Place(wrt.data)
               /\ Place(fifo'.q[k]) <= Decided - One(wrt.drop)
    <3>1. PICK i \in 1 .. Len(fifo.q) : i = k + 1 /\ fifo'.q[k] = fifo.q[i] /\ 1 < i
      <4>1. PICK n \in Nat : n = Len(fifo.q) /\ Len(fifo'.q) = n - 1
        BY <1>4, <1>6
      <4>2. k \in 1 .. n - 1 /\ k + 1 \in 1 .. n /\ 1 < k + 1
        BY <4>1
      <4> QED
        BY <1>4, <4>1, <4>2
    <3>2. Place(fifo.q[1]) + (i - 1) <= Place(fifo.q[i])
      <4>1. 1 \in 1 .. Len(fifo.q) /\ i \in 1 .. Len(fifo.q) /\ 1 < i
        BY <1>4, <1>6, <3>1
      <4> QED
        BY <1>1, <4>1 DEF InOrder
    <3>3. Place(took') < Place(fifo'.q[k])
      BY <1>4, <1>5, <1>6, <3>1, <3>2
    <3> QED
      BY <1>1, <3>1, <3>3 DEF InOrder
  <2>3. /\ wrt.fwr => Place(took') < Place(wrt.data) /\ Place(wrt.data) <= Decided
        /\ Place(took') <= Decided - One(wrt.drop)
    BY <1>1, <1>4, <1>5, <1>6 DEF InOrder
  <2> QED
    BY <1>7, <2>1, <2>2, <2>3 DEF InOrder
<1>10. DropsCounted'
  BY <1>1, <1>2, <1>4 DEF DropsCounted, PulseWaits
<1>11. SessionBegins'
  <2>1. Flushing' <=> Flushing
    BY <1>2 DEF Flushing
  <2>2. ~Flushed
    BY <1>5 DEF Flushed
  <2> QED
    BY <1>1, <1>2, <1>4, <2>1, <2>2 DEF SessionBegins
<1>12. SessionLasts'
  <2>1. ASSUME Known
        PROVE  /\ ~fifo'.busy
               /\ \A k \in Stages : /\ ~cross'.rst[k]
                                    /\ cross'.en[k] => /\ \A j \in 1 .. k : cross'.en[j]
                                                       /\ 4 * line'.n + line'.h >= 4 * inlog'.first + 2 * k
               /\ took' # <<>> => Place(took') >= inlog'.first
               /\ wrt'.fwr => Place(wrt'.data) >= inlog'.first
    BY <1>1, <1>2, <1>4, <1>5, <1>6, <2>1 DEF SessionLasts
  <2>2. ASSUME Known, NEW k \in 1 .. Len(fifo'.q)
        PROVE  Place(fifo'.q[k]) >= inlog'.first
    <3>1. k + 1 \in 1 .. Len(fifo.q) /\ fifo'.q[k] = fifo.q[k + 1]
      BY <1>4, <1>6
    <3> QED
      BY <1>1, <1>4, <2>2, <3>1 DEF SessionLasts
  <2> QED
    BY <1>7, <2>1, <2>2 DEF SessionLasts
<1>13. HolesKnown'
  <2> SUFFICES ASSUME Known
               PROVE  /\ LetIn' > 0 => IqEnable'
                      /\ (inlog'.gone + Missing') + One(Owed')
                           <= (Shown(pulse') + Pending(wrt.drop)') + inlog'.slips
    BY <1>7 DEF HolesKnown
  <2>1. PICK n \in Nat, w \in {0, 1}, t \in {0, 1} :
           n = Len(fifo.q) /\ n >= 1 /\ w = One(wrt.fwr) /\ t = One(took # <<>>)
    BY <1>4, <1>6 DEF One
  <2>2. LetIn = (t + n) + w /\ LetIn' = (1 + (n - 1)) + w
    <3>1. One(took' # <<>>) = 1
      BY <1>5, <1>6 DEF One
    <3> QED
      BY <1>4, <2>1, <3>1 DEF LetIn
  <2>3. Missing = ((Decided - FirstPlace) + 1) - LetIn /\ Missing' = ((Decided - FirstPlace') + 1) - LetIn'
    <3>1. n \in Nat /\ n >= 1 /\ w \in 0 .. 1 /\ t \in 0 .. 1
      BY <2>1
    <3>2. (t + n) + w # 0 /\ (1 + (n - 1)) + w # 0
      BY <3>1
    <3>3. LetIn # 0 /\ LetIn' # 0
      BY <2>2, <3>2
    <3> QED
      BY <1>7, <3>3 DEF Missing
  <2>4. FirstPlace' = Place(fifo.q[1]) /\ FirstPlace = IF took = <<>> THEN Place(fifo.q[1]) ELSE Place(took)
    BY <1>5, <1>6 DEF FirstPlace
  <2>5. inlog'.gone + Missing' = inlog.gone + Missing
    <3>1. PICK a \in Nat, e \in Int, g \in Nat : a = Place(fifo.q[1]) /\ e = Decided /\ g = inlog.gone
      BY <1>4, <1>6
    <3>2. CASE took = <<>>
      <4>1. t = 0
        BY <2>1, <3>2 DEF One
      <4>2. inlog'.gone = g /\ Missing = ((e - a) + 1) - ((0 + n) + w) /\ Missing' = ((e - a) + 1) - ((1 + (n - 1)) + w)
        BY <1>4, <2>2, <2>3, <2>4, <3>1, <3>2, <4>1
      <4> QED
        BY <2>1, <3>1, <4>2
    <3>3. CASE took # <<>>
      <4>1. t = 1
        BY <2>1, <3>3 DEF One
      <4>2. PICK b \in Nat : b = Place(took)
        BY <1>6, <3>3
      <4>3. /\ inlog'.gone = g + ((a - b) - 1) /\ Missing = ((e - b) + 1) - ((1 + n) + w)
            /\ Missing' = ((e - a) + 1) - ((1 + (n - 1)) + w)
        BY <1>4, <2>2, <2>3, <2>4, <3>1, <3>3, <4>1, <4>2
      <4>4. n \in Nat /\ w \in 0 .. 1 /\ a \in Nat /\ b \in Nat /\ e \in Int /\ g \in Nat
        BY <2>1, <3>1, <4>2
      <4>5. (g + ((a - b) - 1)) + (((e - a) + 1) - ((1 + (n - 1)) + w)) = g + (((e - b) + 1) - ((1 + n) + w))
        BY <4>4
      <4> QED
        BY <3>1, <4>3, <4>5
    <3> QED
      BY <3>2, <3>3
  <2>6. One(Owed') = One(Owed) /\ Pending(wrt.drop)' = Pending(wrt.drop)
    BY <1>2, <1>7 DEF One, Pending
  <2>7. LetIn > 0 /\ IqEnable' = IqEnable
    BY <1>2, <2>1, <2>2 DEF IqEnable
  <2> QED
    BY <1>1, <1>2, <1>4, <2>5, <2>6, <2>7 DEF HolesKnown
<1>14. HolesTaken'
  <2>1. PICK o \in {0, 1}, p \in {0, 1}, d \in {0, 1} :
           o = One(Owed) /\ p = Pending(wrt.drop) /\ d = One(wrt.drop) /\ p <= d
    BY DEF One, Pending
  <2>2. One(Owed') = o
    BY <1>7, <2>1 DEF One
  <2>3. PICK sh \in Nat, g \in Nat, sl \in Nat, ar \in Nat :
           sh = Shown(pulse) /\ g = inlog.gone /\ sl = inlog.slips /\ ar = Arrived(pulse) /\ ar <= sh
    BY <1>6
  <2>4. inlog'.gone + o <= sh + sl
    <3>1. CASE took = <<>> \/ ~Known
      <4>1. inlog'.gone = g /\ g + o <= ar + sl
        BY <1>1, <1>4, <2>1, <2>3, <3>1 DEF HolesTaken
      <4> QED
        BY <2>1, <2>3, <4>1
    <3>2. CASE took # <<>> /\ Known
      <4>1. ((Place(fifo.q[1]) - Place(took)) - 1) + d <= Missing
        BY <1>1, <1>5, <2>1, <3>2, HoleBefore
      <4>2. (g + Missing) + o <= (sh + p) + sl
        BY <1>1, <2>1, <2>3, <3>2 DEF HolesKnown
      <4>3. PICK x \in Int : x = (Place(fifo.q[1]) - Place(took)) - 1
        BY <1>4, <1>6, <3>2
      <4>4. inlog'.gone = g + x
        BY <1>4, <2>3, <3>2, <4>3
      <4>5. Missing \in Int
        <5>1. LetIn \in Int /\ FirstPlace = Place(took)
          BY <1>6, <3>2 DEF LetIn, FirstPlace, One
        <5> QED
          BY <1>6, <3>2, <5>1 DEF Missing
      <4> QED
        BY <2>1, <2>3, <4>1, <4>2, <4>3, <4>4, <4>5
    <3> QED
      BY <3>1, <3>2
  <2> QED
    BY <1>2, <1>4, <2>2, <2>3, <2>4 DEF HolesTaken
<1> QED
  BY <1>3, <1>8, <1>9, <1>10, <1>11, <1>12, <1>13, <1>14 DEF InInv

\* An edge of the bus clock keeps the invariant of the way in.
LEMMA InAclkPreserves ==
  ASSUME InInv, InAclk
  PROVE  InInv'
<1>1. /\ InTypeOK /\ DesFollows /\ MixedCounted /\ InOrder /\ DropsCounted
      /\ SessionBegins /\ SessionLasts /\ HolesKnown /\ HolesTaken /\ CrossTypeOK
  BY DEF InInv, InTypeOK
<1>2. CrossAclk /\ UNCHANGED <<line, des, wrt>>
  BY DEF InAclk
<1>3. CASE Take
  BY <1>2, <1>3, TakePreserves
<1>4. CASE UNCHANGED <<took, fifo, inlog>>
  <2>1. /\ CrossTypeOK' /\ rate' = 0 /\ cross' = cross
        /\ pulse'.level = pulse.level /\ pulse'.old = pulse.old /\ pulse'.sync[1] = pulse.level
        /\ inctl'.en = inctl.en /\ inctl'.rst = inctl.rst /\ inctl'.next = inctl.next
        /\ Arrived(pulse') = Shown(pulse) /\ Shown(pulse') = Shown(pulse)
    BY <1>1, <1>2, AclkCounts
  <2>2. InTypeOK'
    BY <1>1, <1>2, <1>4, <2>1 DEF InTypeOK
  <2>3. /\ Decided' = Decided /\ (Owed' <=> Owed) /\ (Known' <=> Known) /\ LetIn' = LetIn
        /\ FirstPlace' = FirstPlace /\ Pending(wrt.drop)' = Pending(wrt.drop) /\ IqEnable' = IqEnable
    BY <1>2, <1>4, <2>1 DEF Decided, Owed, Known, LetIn, FirstPlace, Pending, IqEnable
  <2>4. Missing' = Missing
    BY <2>3 DEF Missing
  <2>5. DesFollows' /\ MixedCounted'
    BY <1>1, <1>2, <1>4 DEF DesFollows, MixedCounted
  <2>6. InOrder'
    BY <1>1, <1>2, <1>4, <2>3 DEF InOrder
  <2>7. DropsCounted'
    BY <1>1, <1>2, <1>4, <2>1 DEF DropsCounted, PulseWaits
  <2>8. SessionBegins'
    BY <1>1, <1>2, <1>4, <2>1 DEF SessionBegins, Flushing, Flushed
  <2>9. SessionLasts'
    BY <1>1, <1>2, <1>4, <2>1, <2>3 DEF SessionLasts
  <2>10. One(Owed') = One(Owed)
    BY <2>3 DEF One
  <2>11. HolesKnown'
    BY <1>1, <1>4, <2>1, <2>3, <2>4, <2>10 DEF HolesKnown
  <2>12. HolesTaken'
    <3>1. Arrived(pulse) \in Nat /\ Shown(pulse) \in Nat /\ Shown(pulse) >= Arrived(pulse)
      <4>1. pulse \in Pulses /\ One(pulse.level # pulse.sync[1]) \in {0, 1}
        BY <1>1, InTypes DEF One
      <4> QED
        BY <4>1, CountedIs
    <3>2. inlog.gone \in Nat /\ inlog.slips \in Nat /\ One(Owed) \in {0, 1}
      BY <1>1, InTypes DEF One
    <3> QED
      BY <1>1, <1>4, <2>1, <2>10, <3>1, <3>2 DEF HolesTaken
  <2> QED
    BY <2>2, <2>5, <2>6, <2>7, <2>8, <2>9, <2>11, <2>12 DEF InInv
<1> QED
  BY <1>3, <1>4 DEF InAclk

\* A register write of the driver changes the control bits, and the ghosts of the session.
LEMMA RegisterIs ==
  ASSUME CrossTypeOK, NEW now \in {"open", "opened", "enable", "release"}, NEW en \in BOOLEAN,
         NEW rst \in BOOLEAN, NEW after \in {"open", "opened", "enable", "release"},
         RegisterWrite(now, en, rst, after), UNCHANGED <<cross, pulse, awake, rate>>
  PROVE  /\ CrossTypeOK' /\ inctl.next = now
         /\ inctl'.en = en /\ inctl'.rst = rst /\ inctl'.next = after
<1>1. inctl.next = now /\ inctl \in Controls
  BY DEF RegisterWrite, CrossTypeOK
<1>2. PICK o \in {0, 1} : o = One(after = "opened")
  BY DEF One
<1>3. inctl' = [en |-> en, rst |-> rst, next |-> after, edge |-> FALSE, opens |-> inctl.opens + o]
  BY <1>2 DEF RegisterWrite
<1>4. inctl' \in Controls
  BY <1>1, <1>2, <1>3 DEF Controls
<1> QED
  BY <1>1, <1>3, <1>4 DEF CrossTypeOK

\* So does each call of the driver.
LEMMA InDriverPreserves ==
  ASSUME InInv, InDriver
  PROVE  InInv'
<1>1. /\ InTypeOK /\ DesFollows /\ MixedCounted /\ InOrder /\ DropsCounted
      /\ SessionBegins /\ SessionLasts /\ HolesKnown /\ HolesTaken /\ CrossTypeOK
  BY DEF InInv, InTypeOK
<1>2. UNCHANGED <<cross, pulse, awake, rate>> /\ UNCHANGED <<line, des, wrt, fifo>>
  BY DEF InDriver
<1>3. inlog \in [drops : Nat, resets : Nat, slips : Nat, mixed : Nat, gone : Nat, first : Nat, hit : BOOLEAN]
      /\ line.n \in Nat
  BY <1>1, InTypes DEF InTypeOK
<1>4. DesFollows' /\ Decided' = Decided /\ (Owed' <=> Owed) /\ (Flushing' <=> Flushing) /\ (Flushed' <=> Flushed)
  BY <1>1, <1>2 DEF DesFollows, Decided, Owed, Flushing, Flushed
<1>5. One(Owed') = One(Owed)
  BY <1>4 DEF One
<1>6. CASE DriverOpens /\ inlog' = [inlog EXCEPT !.first = line.n, !.hit = FALSE] /\ UNCHANGED took
  <2>1. CrossTypeOK' /\ inctl'.en = FALSE /\ inctl'.rst = TRUE /\ inctl'.next = "opened"
    BY <1>1, <1>2, <1>6, RegisterIs DEF DriverOpens
  <2>2. /\ inlog' \in [drops : Nat, resets : Nat, slips : Nat, mixed : Nat, gone : Nat, first : Nat, hit : BOOLEAN]
        /\ inlog'.drops = inlog.drops /\ inlog'.resets = inlog.resets /\ inlog'.slips = inlog.slips
        /\ inlog'.mixed = inlog.mixed /\ inlog'.gone = inlog.gone
        /\ inlog'.first = line.n /\ inlog'.hit = FALSE
    BY <1>3, <1>6
  <2>3. InTypeOK' /\ ~Known'
    BY <1>1, <1>2, <1>6, <2>1, <2>2 DEF InTypeOK, Known
  <2>4. MixedCounted' /\ InOrder' /\ DropsCounted'
    BY <1>1, <1>2, <1>4, <1>6, <2>2 DEF MixedCounted, InOrder, DropsCounted, PulseWaits
  <2>5. SessionBegins'
    <3>1. line'.n >= inlog'.first
      BY <1>2, <1>3, <2>2
    <3>2. inctl'.rst = (inctl'.next = "opened") /\ inctl'.en = (inctl'.next = "release")
      BY <2>1
    <3> QED
      BY <2>2, <3>1, <3>2 DEF SessionBegins
  <2>6. SessionLasts' /\ HolesKnown' /\ HolesTaken'
    BY <1>1, <1>2, <1>5, <2>2, <2>3 DEF SessionLasts, HolesKnown, HolesTaken
  <2> QED
    BY <1>4, <2>3, <2>4, <2>5, <2>6 DEF InInv
<1>7. CASE DriverOpened /\ UNCHANGED <<took, inlog>>
  <2>1. CrossTypeOK' /\ inctl.next = "opened" /\ inctl'.en = FALSE /\ inctl'.rst = FALSE /\ inctl'.next = "enable"
    BY <1>1, <1>2, <1>7, RegisterIs DEF DriverOpened
  <2>2. InTypeOK' /\ ~Known'
    BY <1>1, <1>2, <1>7, <2>1 DEF InTypeOK, Known
  <2>3. MixedCounted' /\ InOrder' /\ DropsCounted'
    BY <1>1, <1>2, <1>4, <1>7 DEF MixedCounted, InOrder, DropsCounted, PulseWaits
  <2>4. SessionBegins'
    BY <1>1, <1>2, <1>4, <1>7, <2>1 DEF SessionBegins
  <2>5. SessionLasts' /\ HolesKnown' /\ HolesTaken'
    BY <1>1, <1>2, <1>5, <1>7, <2>2 DEF SessionLasts, HolesKnown, HolesTaken
  <2> QED
    BY <1>4, <2>2, <2>3, <2>4, <2>5 DEF InInv
<1>8. CASE DriverEnables(inlog.hit => Settled /\ ~fifo.busy) /\ took' = <<>> /\ UNCHANGED inlog
  <2>1. CrossTypeOK' /\ inctl.next = "enable" /\ inctl'.en = TRUE /\ inctl'.rst = FALSE /\ inctl'.next = "release"
    BY <1>1, <1>2, <1>8, RegisterIs DEF DriverEnables
  <2>2. InTypeOK' /\ (Known' <=> inlog.hit)
    BY <1>1, <1>2, <1>8, <2>1 DEF InTypeOK, Known
  <2>3. MixedCounted' /\ InOrder' /\ DropsCounted'
    BY <1>1, <1>2, <1>4, <1>8 DEF MixedCounted, InOrder, DropsCounted, PulseWaits
  <2>4. SessionBegins'
    BY <1>1, <1>2, <1>8, <2>1 DEF SessionBegins
  <2>5. ASSUME inlog.hit
        PROVE  /\ fifo.q = <<>> /\ ~wrt.fwr /\ ~fifo.busy
               /\ \A k \in Stages : ~cross.rst[k] /\ ~cross.en[k]
    <3>1. ~fifo.busy /\ \A k \in Stages : ~cross.rst[k] /\ ~cross.en[k]
      BY <1>8, <2>5 DEF DriverEnables, Settled, Stages
    <3>2. ~Flushing
      BY <3>1 DEF Flushing
    <3> QED
      BY <1>1, <2>1, <2>5, <3>1, <3>2 DEF SessionBegins, Flushed
  <2>6. SessionLasts'
    <3>1. Len(<<>>) = 0
      OBVIOUS
    <3> QED
      BY <1>2, <1>8, <2>2, <2>5, <3>1 DEF SessionLasts
  <2>7. HolesTaken'
    BY <1>1, <1>2, <1>5, <1>8 DEF HolesTaken
  <2>8. HolesKnown'
    <3> SUFFICES ASSUME inlog.hit
                 PROVE  /\ LetIn' > 0 => IqEnable'
                        /\ (inlog'.gone + Missing') + One(Owed')
                             <= (Shown(pulse') + Pending(wrt.drop)') + inlog'.slips
      BY <2>2 DEF HolesKnown
    <3>1. LetIn' = 0
      <4>1. /\ took' = <<>> /\ fifo'.q = <<>> /\ ~wrt'.fwr
            /\ LetIn' = (One(took' # <<>>) + Len(fifo'.q)) + One(wrt'.fwr)
        BY <1>2, <1>8, <2>5 DEF LetIn
      <4>2. One(took' # <<>>) = 0 /\ One(wrt'.fwr) = 0 /\ Len(fifo'.q) = 0
        BY <4>1 DEF One
      <4> QED
        BY <4>1, <4>2
    <3>2. Missing' = 0
      BY <3>1 DEF Missing
    <3>3. Arrived(pulse) \in Nat /\ Shown(pulse) \in Nat /\ Shown(pulse) >= Arrived(pulse)
      <4>1. pulse \in Pulses /\ One(pulse.level # pulse.sync[1]) \in {0, 1}
        BY <1>1, InTypes DEF One
      <4> QED
        BY <4>1, CountedIs
    <3>4. One(Owed) \in {0, 1} /\ Pending(wrt.drop) \in {0, 1} /\ Pending(wrt.drop)' = Pending(wrt.drop)
      BY <1>2 DEF One, Pending
    <3>5. inlog.gone + One(Owed) <= Arrived(pulse) + inlog.slips
      BY <1>1 DEF HolesTaken
    <3>6. (inlog.gone + 0) + One(Owed) <= (Shown(pulse) + Pending(wrt.drop)) + inlog.slips
      BY <1>3, <3>3, <3>4, <3>5
    <3>7. inlog' = inlog /\ pulse' = pulse
      BY <1>2, <1>8
    <3> QED
      BY <1>5, <3>1, <3>2, <3>4, <3>6, <3>7
  <2> QED
    BY <1>4, <2>2, <2>3, <2>4, <2>6, <2>7, <2>8 DEF InInv
<1>9. CASE DriverReleases /\ UNCHANGED <<took, inlog>>
  <2>1. CrossTypeOK' /\ inctl'.en = FALSE /\ inctl'.rst = FALSE /\ inctl'.next = "open"
    BY <1>1, <1>2, <1>9, RegisterIs DEF DriverReleases
  <2>2. InTypeOK' /\ ~Known'
    BY <1>1, <1>2, <1>9, <2>1 DEF InTypeOK, Known
  <2>3. MixedCounted' /\ InOrder' /\ DropsCounted'
    BY <1>1, <1>2, <1>4, <1>9 DEF MixedCounted, InOrder, DropsCounted, PulseWaits
  <2>4. SessionBegins'
    BY <1>1, <1>2, <1>9, <2>1 DEF SessionBegins
  <2>5. SessionLasts' /\ HolesKnown' /\ HolesTaken'
    BY <1>1, <1>2, <1>5, <1>9, <2>2 DEF SessionLasts, HolesKnown, HolesTaken
  <2> QED
    BY <1>4, <2>2, <2>3, <2>4, <2>5 DEF InInv
<1> QED
  BY <1>6, <1>7, <1>8, <1>9 DEF InDriver
-----------------------------------------------------------------------------
\* The crossings start with nothing on its way.
LEMMA CrossStarts ==
  ASSUME CrossInit
  PROVE  /\ CrossTypeOK /\ Arrived(pulse) = 0 /\ Shown(pulse) = 0
         /\ \A x \in BOOLEAN : PulseWaits(x)
<1>1. SyncStages \in Nat /\ SyncStages >= 2
  BY ChainIs
<1>2. PICK c \in Chain : c = All(FALSE) /\ \A k \in Stages : ~c[k]
  <2>1. All(FALSE) \in Chain /\ \A k \in Stages : ~All(FALSE)[k]
    BY DEF All, Chain, Stages
  <2> QED
    BY <2>1
<1>3. /\ pulse = [level |-> FALSE, old |-> FALSE, sync |-> c, cnt |-> 0]
      /\ inctl = [en |-> FALSE, rst |-> FALSE, next |-> "open", opens |-> 0, edge |-> TRUE]
      /\ cross = [en |-> c, rst |-> c] /\ awake = FALSE /\ rate = 0
  BY <1>2 DEF CrossInit
<1>4. pulse \in Pulses /\ CrossTypeOK
  <2>1. pulse \in Pulses
    BY <1>3 DEF Pulses
  <2>2. inctl \in Controls
    BY <1>3 DEF Controls
  <2>3. cross \in [en : Chain, rst : Chain]
    BY <1>3
  <2>4. awake \in BOOLEAN
    BY Zenon DEF CrossInit
  <2>5. rate \in 0 .. 2
    BY <1>3
  <2> QED
    BY <2>1, <2>2, <2>3, <2>4, <2>5 DEF CrossTypeOK
<1>5. ~pulse.sync[1] /\ ~pulse.level /\ pulse.sync[1] \in BOOLEAN /\ pulse.level \in BOOLEAN
  <2>1. 1 \in Stages
    BY <1>1 DEF Stages
  <2> QED
    BY <1>2, <1>3, <2>1 DEF Chain
<1>6. Arrived(pulse) = 0
  <2>1. Len(c) = SyncStages
    BY ChainIs
  <2>2. ASSUME NEW k \in 1 .. Len(c) - 1
        PROVE  c[k] = c[k + 1]
    <3>1. k \in Stages /\ k + 1 \in Stages
      BY <1>1, <2>1 DEF Stages
    <3>2. c[k] \in BOOLEAN /\ c[k + 1] \in BOOLEAN
      BY <3>1 DEF Chain
    <3> QED
      BY <1>2, <3>1, <3>2
  <2>3. {k \in 1 .. Len(c) - 1 : c[k] # c[k + 1]} = {}
    BY <2>2
  <2>4. Changes(c) = 0
    BY <2>3, FS_EmptySet DEF Changes
  <2>5. pulse.cnt = 0 /\ pulse.sync = c
    BY <1>3
  <2> QED
    BY <2>4, <2>5 DEF Arrived
<1>7. Shown(pulse) = Arrived(pulse) + One(pulse.level # pulse.sync[1])
  BY <1>4, CountedIs
<1>8. One(pulse.level # pulse.sync[1]) = 0
  BY <1>5, Zenon DEF One
<1>9. Shown(pulse) = 0
  BY <1>6, <1>7, <1>8
<1>10. \A x \in BOOLEAN : PulseWaits(x)
  BY <1>3, <1>5, Zenon DEF PulseWaits
<1> QED
  BY <1>4, <1>6, <1>9, <1>10

\* The invariant of the way in holds at the start,
LEMMA InInitEstablishes ==
  ASSUME SampleInInit
  PROVE  InInv
<1>1. /\ CrossTypeOK /\ Arrived(pulse) = 0 /\ Shown(pulse) = 0 /\ PulseWaits(FALSE)
  BY CrossStarts DEF SampleInInit
<1>2. /\ line \in [n : {1}, h : {0, 3}] /\ line.n = 1
      /\ des = [i |-> <<0, 0>>, q |-> <<0, 0>>, ih |-> 0, valid |-> FALSE]
      /\ wrt = [fwr |-> FALSE, data |-> <<>>, drop |-> FALSE]
      /\ fifo = [q |-> <<>>, occ |-> 0, busy |-> FALSE] /\ took = <<>>
      /\ inlog = [drops |-> 0, resets |-> 0, slips |-> 0, mixed |-> 0, gone |-> 0, first |-> 1, hit |-> TRUE]
      /\ inctl.en = FALSE /\ inctl.rst = FALSE /\ inctl.next = "open"
  BY DEF SampleInInit, CrossInit
<1>3. InTypeOK
  <2>1. <<0, 0>> \in Halves /\ <<>> \in Seq(Samples)
    BY DEF Halves
  <2>2. line \in [n : Nat \ {0}, h : 0 .. 3]
    BY <1>2
  <2>3. des \in [i : Halves, q : Halves, ih : Nat, valid : BOOLEAN]
    BY <1>2, <2>1
  <2> QED
    BY <1>1, <1>2, <2>1, <2>2, <2>3 DEF InTypeOK
<1>4. DesFollows
  BY <1>2 DEF DesFollows
<1>5. MixedCounted
  BY <1>2 DEF MixedCounted, One
<1>6. Len(fifo.q) = 0 /\ 1 .. 0 = {}
  BY <1>2
<1>7. InOrder
  BY <1>2, <1>6 DEF InOrder
<1>8. DropsCounted
  <2>1. PulseWaits(wrt.drop)
    BY <1>1, <1>2 DEF PulseWaits
  <2>2. One(wrt.drop) = 0
    BY <1>2 DEF One
  <2>3. inlog.drops = 0 /\ inlog.resets = 0
    BY <1>2
  <2>4. Shown(pulse) + One(wrt.drop) <= inlog.drops + inlog.resets
    BY <1>1, <2>2, <2>3
  <2> QED
    BY <2>1, <2>4 DEF DropsCounted
<1>9. ~Known /\ ~Owed
  BY <1>2 DEF Known, Owed
<1>10. SessionBegins
  <2>1. inctl.rst = (inctl.next = "opened") /\ inctl.en = (inctl.next = "release")
    BY <1>2
  <2>2. line.n >= inlog.first /\ ~(inctl.next \in {"opened", "enable"})
    BY <1>2
  <2> QED
    BY <2>1, <2>2 DEF SessionBegins
<1>11. SessionLasts /\ HolesKnown /\ HolesTaken
  <2>1. One(Owed) = 0 /\ inlog.gone = 0 /\ inlog.slips = 0
    BY <1>2, <1>9 DEF One
  <2> QED
    BY <1>1, <1>9, <2>1 DEF SessionLasts, HolesKnown, HolesTaken
<1> QED
  BY <1>3, <1>4, <1>5, <1>7, <1>8, <1>10, <1>11 DEF InInv

\* and while the others move,
LEMMA InStutters ==
  ASSUME InInv, UNCHANGED <<crossvars, inown>>
  PROVE  InInv'
<1>1. UNCHANGED <<inctl, cross, pulse, awake, rate, line, des, wrt, fifo, took, inlog>>
  BY DEF crossvars, inown
<1>2. /\ IqEnable' = IqEnable /\ Decided' = Decided /\ (Known' <=> Known) /\ LetIn' = LetIn
      /\ FirstPlace' = FirstPlace /\ (Owed' <=> Owed) /\ Pending(wrt.drop)' = Pending(wrt.drop)
  BY <1>1 DEF IqEnable, Decided, Known, LetIn, FirstPlace, Owed, Pending
<1>3. Missing' = Missing /\ One(Owed') = One(Owed)
  BY <1>2 DEF Missing, One
<1>4. InTypeOK' /\ DesFollows' /\ MixedCounted'
  BY <1>1 DEF InInv, InTypeOK, CrossTypeOK, DesFollows, MixedCounted
<1>5. InOrder' /\ DropsCounted'
  BY <1>1, <1>2 DEF InInv, InOrder, DropsCounted, PulseWaits
<1>6. SessionBegins' /\ SessionLasts'
  BY <1>1, <1>2 DEF InInv, SessionBegins, SessionLasts, Flushing, Flushed
<1>7. HolesKnown' /\ HolesTaken'
  BY <1>1, <1>2, <1>3 DEF InInv, HolesKnown, HolesTaken
<1> QED
  BY <1>4, <1>5, <1>6, <1>7 DEF InInv

\* and after each step.
LEMMA InPreserves ==
  ASSUME InInv, [SampleInNext]_<<crossvars, inown>>
  PROVE  InInv'
<1>1. CASE IqEdge
  BY <1>1, IqEdgePreserves
<1>2. CASE InAclk
  BY <1>2, InAclkPreserves
<1>3. CASE InDriver
  BY <1>3, InDriverPreserves
<1>4. CASE UNCHANGED <<crossvars, inown>>
  BY <1>4, InStutters
<1> QED
  BY <1>1, <1>2, <1>3, <1>4 DEF SampleInNext

-----------------------------------------------------------------------------
\* What the client has, or will: what was taken last, then the queue.
LEMMA ForClientIs ==
  ASSUME InTypeOK
  PROVE  \E t \in 0 .. 1 :
           /\ t = One(took # <<>>) /\ Len(ForClient) = t + Len(fifo.q)
           /\ \A k \in 1 .. t + Len(fifo.q) : ForClient[k] = IF k <= t THEN took ELSE fifo.q[k - t]
<1>1. fifo.q \in Seq(Samples) /\ (took # <<>> => took \in Samples)
  BY InTypes
<1>2. PICK q \in Seq(Samples), n \in Nat : q = fifo.q /\ n = Len(q)
  BY <1>1, LenProperties
<1>3. CASE took = <<>>
  <2>1. <<>> \o q = q
    BY ConcatEmptySeq
  <2>2. ForClient = q
    BY <1>2, <1>3, <2>1 DEF ForClient
  <2>3. /\ 0 = One(took # <<>>) /\ Len(ForClient) = 0 + n
        /\ \A k \in 1 .. 0 + n : ForClient[k] = IF k <= 0 THEN took ELSE q[k - 0]
    BY <1>2, <1>3, <2>2 DEF One
  <2> QED
    BY <1>2, <2>3
<1>4. CASE took # <<>>
  <2>1. PICK e \in Samples : e = took
    BY <1>1, <1>4
  <2>2. <<e>> \in Seq(Samples) /\ Len(<<e>>) = 1 /\ <<e>>[1] = e
    OBVIOUS
  <2>3. /\ Len(<<e>> \o q) = 1 + n
        /\ \A k \in 1 .. 1 + n : (<<e>> \o q)[k] = IF k <= 1 THEN <<e>>[k] ELSE q[k - 1]
    BY <1>2, <2>2, ConcatProperties
  <2>4. ForClient = <<e>> \o q
    BY <1>2, <1>4, <2>1 DEF ForClient
  <2>5. \A k \in 1 .. 1 + n : k <= 1 => k = 1
    BY <1>2
  <2>6. /\ 1 = One(took # <<>>) /\ Len(ForClient) = 1 + n
        /\ \A k \in 1 .. 1 + n : ForClient[k] = IF k <= 1 THEN took ELSE q[k - 1]
    BY <1>4, <2>1, <2>2, <2>3, <2>4, <2>5 DEF One
  <2> QED
    BY <1>2, <2>6
<1> QED
  BY <1>3, <1>4

\* The way in holds what it says.
LEMMA InInvShows ==
  ASSUME InInv
  PROVE  SamplesInIntact
<1>1. /\ InTypeOK /\ DesFollows /\ MixedCounted /\ InOrder /\ DropsCounted
      /\ SessionBegins /\ SessionLasts /\ HolesKnown /\ HolesTaken /\ pulse \in Pulses
  BY InTypes DEF InInv
<1>2. PICK t \in 0 .. 1 :
         /\ t = One(took # <<>>) /\ Len(ForClient) = t + Len(fifo.q)
         /\ \A k \in 1 .. t + Len(fifo.q) : ForClient[k] = IF k <= t THEN took ELSE fifo.q[k - t]
  BY <1>1, ForClientIs
<1>3. /\ \A k \in 1 .. Len(fifo.q) : Place(fifo.q[k]) \in Nat
      /\ (took # <<>> => Place(took) \in Nat) /\ Decided \in Int
      /\ inlog.mixed \in Nat /\ inlog.slips \in Nat /\ inlog.gone \in Nat /\ wrt.fwr \in BOOLEAN
      /\ (wrt.fwr => Place(wrt.data) \in Nat)
  BY <1>1, InTypes
<1>4. PICK n \in Nat : n = Len(fifo.q)
  BY <1>1, InTypes
<1>5. t = 1 <=> took # <<>>
  BY <1>2 DEF One
<1>6. /\ Shown(pulse) \in Nat /\ Arrived(pulse) \in Nat /\ Arrived(pulse) <= Shown(pulse)
      /\ Counted = Shown(pulse)
  <2>1. One(pulse.level # pulse.sync[1]) \in {0, 1}
    BY DEF One
  <2> QED
    BY <1>1, <2>1, CountedIs DEF Counted, Shown
<1>7. ASSUME NEW k \in 1 .. (t + n) - 1
      PROVE  Place(ForClient[k]) < Place(ForClient[k + 1])
  <2>1. k \in 1 .. t + n /\ k + 1 \in 1 .. t + n /\ t \in 0 .. 1
    BY <1>2
  <2>2. CASE k <= t
    <3>1. k = 1 /\ t = 1 /\ ForClient[k] = took /\ ForClient[k + 1] = fifo.q[1] /\ 1 \in 1 .. n
      BY <1>2, <1>4, <2>1, <2>2
    <3> QED
      BY <1>1, <1>4, <1>5, <3>1 DEF InOrder
  <2>3. CASE k > t
    <3>1. PICK i \in 1 .. n : i = k - t /\ i + 1 \in 1 .. n
      BY <2>1, <2>3
    <3>2. ForClient[k] = fifo.q[i] /\ ForClient[k + 1] = fifo.q[i + 1]
      <4>1. (k + 1) - t = i + 1 /\ ~(k <= t) /\ ~(k + 1 <= t)
        BY <2>1, <2>3, <3>1
      <4> QED
        BY <1>2, <1>4, <2>1, <3>1, <4>1
    <3>3. Place(fifo.q[i]) + ((i + 1) - i) <= Place(fifo.q[i + 1])
      <4>1. i \in 1 .. n /\ i + 1 \in 1 .. n /\ i < i + 1
        BY <3>1
      <4> QED
        BY <1>1, <1>4, <4>1 DEF InOrder
    <3>4. Place(fifo.q[i]) \in Nat /\ Place(fifo.q[i + 1]) \in Nat
      BY <1>3, <1>4, <3>1
    <3> QED
      BY <3>2, <3>3, <3>4
  <2> QED
    BY <2>1, <2>2, <2>3
<1>8. InWhole
  <2>1. One(des.valid /\ ~Pure(des.i, des.q)) \in Nat /\ One(~Assembling(des, line.n, line.h)) \in Nat
    BY DEF One
  <2>2. inlog.mixed <= inlog.slips + 1
    BY <1>1, <1>3, <2>1 DEF MixedCounted
  <2>3. \A k \in 1 .. Len(ForClient) - 1 : Place(ForClient[k]) < Place(ForClient[k + 1])
    BY <1>2, <1>4, <1>7
  <2> QED
    BY <2>2, <2>3 DEF InWhole
<1>9. inlog.gone + (IF Known THEN Holes ELSE 0) <= (Counted + One(wrt.drop)) + inlog.slips
  <2>1. PICK o \in {0, 1}, d \in {0, 1}, p \in {0, 1}, w \in {0, 1} :
           o = One(Owed) /\ d = One(wrt.drop) /\ p = Pending(wrt.drop) /\ p <= d /\ w = One(wrt.fwr)
    BY DEF One, Pending
  <2>2. PICK g \in Nat, sl \in Nat, sh \in Nat, ar \in Nat :
           g = inlog.gone /\ sl = inlog.slips /\ sh = Shown(pulse) /\ ar = Arrived(pulse) /\ ar <= sh
    BY <1>3, <1>6
  <2>3. CASE ~Known \/ Len(ForClient) < 2
    <3>1. (IF Known THEN Holes ELSE 0) = 0
      BY <2>3 DEF Holes
    <3>2. g + o <= ar + sl
      BY <1>1, <2>1, <2>2 DEF HolesTaken
    <3>3. g + 0 <= (sh + d) + sl
      BY <2>1, <2>2, <3>2
    <3> QED
      BY <1>6, <2>1, <2>2, <3>1, <3>3
  <2>4. CASE Known /\ ~(Len(ForClient) < 2)
    <3>1. t \in 0 .. 1 /\ n \in Nat /\ t + n >= 2 /\ n >= 1
      BY <1>2, <1>4, <2>4
    <3>2. Last(ForClient) = fifo.q[n]
      <4>1. t + n \in 1 .. t + n /\ ~(t + n <= t) /\ (t + n) - t = n
        BY <3>1
      <4> QED
        BY <1>2, <1>4, <4>1 DEF Last
    <3>3. ForClient[1] = IF took # <<>> THEN took ELSE fifo.q[1]
      <4>1. 1 \in 1 .. t + n /\ (1 <= t <=> took # <<>>) /\ (took = <<>> => 1 - t = 1)
        BY <1>5, <3>1
      <4> QED
        BY <1>2, <1>4, <4>1
    <3>4. PICK z \in Nat, f \in Nat, e \in Int :
             z = Place(fifo.q[n]) /\ f = Place(ForClient[1]) /\ e = Decided
      BY <1>3, <1>4, <3>1, <3>3
    <3>5. Holes = ((z - f) + 1) - (t + n)
      BY <1>2, <1>4, <2>4, <3>2, <3>4 DEF Holes
    <3>6. LetIn = (t + n) + w /\ FirstPlace = f
      <4>1. fifo.q # <<>>
        BY <1>4, <3>1
      <4> QED
        BY <1>2, <1>4, <2>1, <3>3, <3>4, <4>1 DEF LetIn, FirstPlace
    <3>7. Missing = ((e - f) + 1) - ((t + n) + w)
      <4>1. (t + n) + w # 0
        BY <2>1, <3>1
      <4> QED
        BY <3>4, <3>6, <4>1 DEF Missing
    <3>8. z <= e - w
      <4>1. CASE wrt.fwr
        <5>1. n \in 1 .. Len(fifo.q)
          BY <1>4, <3>1
        <5>2. PICK m \in Nat : m = Place(wrt.data) /\ z < m /\ m <= e
          BY <1>1, <1>3, <3>4, <4>1, <5>1 DEF InOrder
        <5> QED
          BY <2>1, <3>4, <5>2
      <4>2. CASE ~wrt.fwr
        <5>1. w = 0
          BY <2>1, <4>2 DEF One
        <5>2. z <= e - d
          BY <1>1, <1>4, <2>1, <3>1, <3>4 DEF InOrder
        <5> QED
          BY <2>1, <3>4, <5>1, <5>2
      <4> QED
        BY <4>1, <4>2
    <3>9. (g + Missing) + o <= (sh + p) + sl
      BY <1>1, <2>1, <2>2, <2>4 DEF HolesKnown
    <3>10. g + (((z - f) + 1) - (t + n)) <= (sh + d) + sl
      BY <2>1, <2>2, <3>1, <3>4, <3>7, <3>8, <3>9
    <3> QED
      BY <1>6, <2>1, <2>2, <2>4, <3>5, <3>10
  <2> QED
    BY <2>3, <2>4
<1>10. HolesCounted
  <2>1. Shown(pulse) + One(wrt.drop) <= inlog.drops + inlog.resets /\ One(wrt.drop) \in Nat
    BY <1>1 DEF DropsCounted, One
  <2>2. inlog.drops \in Nat /\ inlog.resets \in Nat
    BY <1>1, InTypes
  <2>3. Counted <= inlog.drops + inlog.resets
    BY <1>6, <2>1, <2>2
  <2> QED
    BY <1>9, <2>3 DEF HolesCounted
<1>11. InFresh
  <2>1. ASSUME Known, NEW k \in DOMAIN ForClient
        PROVE  Place(ForClient[k]) >= inlog.first
    <3>1. ForClient \in Seq(Samples)
      <4>1. fifo.q \in Seq(Samples) /\ (took # <<>> => took \in Samples)
        BY <1>1, InTypes
      <4>2. (IF took = <<>> THEN <<>> ELSE <<took>>) \in Seq(Samples)
        BY <4>1
      <4> QED
        BY <4>1, <4>2, ConcatProperties DEF ForClient
    <3>2. k \in 1 .. t + n
      BY <1>2, <1>4, <2>1, <3>1
    <3>3. CASE k <= t
      BY <1>1, <1>2, <1>4, <1>5, <2>1, <3>2, <3>3 DEF SessionLasts
    <3>4. CASE k > t
      <4>1. PICK i \in 1 .. n : i = k - t
        BY <1>2, <3>2, <3>4
      <4>2. ForClient[k] = fifo.q[i]
        BY <1>2, <1>4, <3>2, <3>4, <4>1
      <4> QED
        BY <1>1, <1>4, <2>1, <4>1, <4>2 DEF SessionLasts
    <3> QED
      BY <3>2, <3>3, <3>4
  <2> QED
    BY <2>1 DEF InFresh, Known
<1> QED
  BY <1>8, <1>10, <1>11 DEF SamplesInIntact
-----------------------------------------------------------------------------
(* The way out. *)

Fifos == [q : Seq(Nat), occ : Nat, seen : Nat, wbusy : BOOLEAN, asked : BOOLEAN, rbusy : BOOLEAN]
OutLogs == [edges : Nat, unders : Nat, resets : Nat, off : Nat, started : Nat,
            skipped : Int, drained : Nat, first : Nat, hit : BOOLEAN]

OutTypeOK ==
  /\ CrossTypeOK
  /\ txf \in Fifos
  /\ feed \in Nat \ {0}
  /\ ser \in [flag : BOOLEAN, lat : Nat, under : BOOLEAN]
  /\ sent \in Nat \X Nat
  /\ outlog \in OutLogs

\* What is on the line is what is latched, and zeros reach first the one, then the other.
LineFollows ==
  /\ sent[1] = ser.lat
  /\ ~ser.flag => sent[2] = ser.lat
  /\ outlog.off >= 1 /\ ser.flag => ser.lat = 0
  /\ outlog.off >= 2 => ser.lat = 0
  /\ outlog.off >= 3 => sent[2] = 0

\* Two underruns are two edges apart, so that each is a pulse of its own; while the reset
\* is there the enable is not, and there are none.
UndersCounted ==
  /\ ser.under => ser.flag
  /\ pulse.old => ~ser.flag
  /\ ~(inctl.en /\ inctl.rst)
  /\ \A k \in Stages : ~(cross.en[k] /\ cross.rst[k])
  /\ PulseWaits(ser.under)
  /\ outlog.unders - outlog.resets <= Shown(pulse) + One(ser.under)
  /\ Shown(pulse) + One(ser.under) <= outlog.unders + outlog.resets

\* The FIFO holds the samples from NextOut on, each one fed so far.
NextOut == feed - Len(txf.q)
FifoFollows ==
  /\ \A k \in 1 .. Len(txf.q) : txf.q[k] = (NextOut + k) - 1
  /\ NextOut >= 1
  /\ txf.seen <= Len(txf.q)
  /\ outlog.started < NextOut
  /\ outlog.first <= feed

\* From open() to ENABLE nothing is fed, and the reset empties the FIFO before it ends.
ResetEmpties ==
  /\ txf.asked => txf.wbusy
  /\ txf.rbusy => txf.wbusy /\ txf.q = <<>>
  /\ inctl.next = "opened" => inctl.rst /\ (inctl.edge => txf.asked /\ ~awake)
  /\ inctl.next # "opened" => ~inctl.rst
  /\ inctl.next = "enable" => ~inctl.en /\ ~awake /\ (txf.asked \/ txf.q = <<>>)
  /\ inctl.next \in {"open", "release"} /\ txf.wbusy => feed = outlog.first

\* The samples of the session between the one started last and the head of the FIFO.
Unsent == IF NextOut > Behind THEN (NextOut - Behind) - 1 ELSE 0
SkipsDrained ==
  /\ outlog.skipped <= outlog.drained
  /\ (txf.q # <<>> \/ inctl.next \in {"open", "release"}) => outlog.skipped + Unsent <= outlog.drained

SessionFresh ==
  outlog.hit /\ inctl.next = "release" =>
    /\ NextOut >= outlog.first /\ ~txf.wbusy
    /\ ser.lat = 0 \/ ser.lat >= outlog.first

OutInv ==
  /\ OutTypeOK /\ LineFollows /\ UndersCounted /\ FifoFollows /\ ResetEmpties
  /\ SkipsDrained /\ SessionFresh

\* The types the steps below count with.
LEMMA OutTypes ==
  ASSUME OutTypeOK
  PROVE  /\ txf.q \in Seq(Nat) /\ Len(txf.q) \in Nat /\ txf.occ \in Nat /\ txf.seen \in Nat
         /\ txf.wbusy \in BOOLEAN /\ txf.asked \in BOOLEAN /\ txf.rbusy \in BOOLEAN
         /\ feed \in Nat \ {0} /\ NextOut \in Int
         /\ ser.flag \in BOOLEAN /\ ser.lat \in Nat /\ ser.under \in BOOLEAN
         /\ sent[1] \in Nat /\ sent[2] \in Nat /\ sent = <<sent[1], sent[2]>>
         /\ outlog.edges \in Nat /\ outlog.unders \in Nat /\ outlog.resets \in Nat
         /\ outlog.off \in Nat /\ outlog.started \in Nat /\ outlog.skipped \in Int
         /\ outlog.drained \in Nat /\ outlog.first \in Nat /\ outlog.hit \in BOOLEAN
         /\ IqReset \in BOOLEAN /\ IqEnable \in BOOLEAN /\ awake \in BOOLEAN
         /\ inctl.en \in BOOLEAN /\ inctl.rst \in BOOLEAN /\ inctl.edge \in BOOLEAN
         /\ pulse \in Pulses /\ pulse.level \in BOOLEAN /\ pulse.old \in BOOLEAN
<1>1. /\ txf.q \in Seq(Nat) /\ txf.occ \in Nat /\ txf.seen \in Nat
      /\ txf.wbusy \in BOOLEAN /\ txf.asked \in BOOLEAN /\ txf.rbusy \in BOOLEAN
      /\ feed \in Nat \ {0}
      /\ ser.flag \in BOOLEAN /\ ser.lat \in Nat /\ ser.under \in BOOLEAN
      /\ sent[1] \in Nat /\ sent[2] \in Nat /\ sent = <<sent[1], sent[2]>>
  BY DEF OutTypeOK, Fifos
<1>2. Len(txf.q) \in Nat
  BY <1>1
<1>3. NextOut \in Int
  BY <1>1, <1>2 DEF NextOut
<1>4. /\ outlog.edges \in Nat /\ outlog.unders \in Nat /\ outlog.resets \in Nat
      /\ outlog.off \in Nat /\ outlog.started \in Nat /\ outlog.skipped \in Int
      /\ outlog.drained \in Nat /\ outlog.first \in Nat /\ outlog.hit \in BOOLEAN
  BY DEF OutTypeOK, OutLogs
<1>5. /\ inctl.en \in BOOLEAN /\ inctl.rst \in BOOLEAN /\ inctl.edge \in BOOLEAN /\ awake \in BOOLEAN
      /\ pulse \in Pulses /\ pulse.level \in BOOLEAN /\ pulse.old \in BOOLEAN
      /\ cross.en \in Chain /\ cross.rst \in Chain
  BY DEF OutTypeOK, CrossTypeOK, Controls, Pulses
<1>6. IqReset \in BOOLEAN /\ IqEnable \in BOOLEAN
  <2>1. PICK c \in Chain, z \in Chain : c = cross.en /\ z = cross.rst
    BY <1>5
  <2>2. Newest(c) = c[SyncStages] /\ Newest(z) = z[SyncStages] /\ SyncStages \in Stages
    BY ChainIs, ShiftIs DEF Stages
  <2>3. Newest(cross.en) \in BOOLEAN /\ Newest(cross.rst) \in BOOLEAN
    BY <2>1, <2>2 DEF Chain
  <2> QED
    BY <2>3 DEF IqReset, IqEnable
<1> QED
  BY <1>1, <1>2, <1>3, <1>4, <1>5, <1>6

\* The sample the serializer is offered is the next of the client.
LEMMA OfferIs ==
  ASSUME OutTypeOK, FifoFollows, TxThere
  PROVE  /\ txf.q # <<>> /\ Len(txf.q) >= 1 /\ Head(txf.q) = NextOut
         /\ NextOut \in Nat \ {0} /\ NextOut < feed
<1>1. txf.q \in Seq(Nat) /\ Len(txf.q) \in Nat /\ txf.seen \in Nat /\ feed \in Nat /\ NextOut \in Int
  BY OutTypes
<1>2. txf.seen > 0 /\ txf.seen <= Len(txf.q)
  BY DEF TxThere, FifoFollows
<1>3. Len(txf.q) >= 1
  BY <1>1, <1>2
<1>4. txf.q # <<>> /\ Head(txf.q) = txf.q[1]
  BY <1>1, <1>3
<1>5. txf.q[1] = (NextOut + 1) - 1
  <2>1. 1 \in 1 .. Len(txf.q)
    BY <1>1, <1>3
  <2> QED
    BY <2>1 DEF FifoFollows
<1>6. NextOut >= 1
  BY DEF FifoFollows
<1>7. NextOut < feed
  BY <1>1, <1>3 DEF NextOut
<1>8. Head(txf.q) = NextOut
  BY <1>1, <1>4, <1>5
<1> QED
  BY <1>1, <1>3, <1>4, <1>6, <1>7, <1>8
\* The serializer takes a sample of the client.
Starts == (~ser.flag /\ IqEnable) /\ TxThere

\* What an edge of the chip's clock does to the serializer and to the ghosts.
OutEdgeMoves ==
  /\ ser'.flag <=> ~ser.flag
  /\ ser'.under <=> (~ser.flag /\ IqEnable) /\ ~TxThere
  /\ Starts => ser'.lat = NextOut
  /\ ~ser.flag /\ ~IqEnable => ser'.lat = 0
  /\ ser.flag \/ (IqEnable /\ ~TxThere) => ser'.lat = ser.lat
  /\ sent'[1] = ser'.lat
  /\ ser.flag => sent'[2] = ser.lat
  /\ ~ser.flag => sent'[2] = sent[2]
  /\ feed' = feed
  /\ outlog'.unders = outlog.unders + One(ser'.under)
  /\ outlog'.resets = outlog.resets + One(IqReset /\ (pulse.level \/ ser.under))
  /\ outlog'.off = IF IqEnable THEN 0 ELSE outlog.off + 1
  /\ outlog'.started = IF Starts THEN NextOut ELSE outlog.started
  /\ outlog'.skipped = IF Starts /\ NextOut >= outlog.first
                       THEN outlog.skipped + ((NextOut - Behind) - 1) ELSE outlog.skipped
  /\ outlog'.drained = outlog.drained + One(TxRead /\ ~IqEnable)
  /\ outlog'.first = outlog.first
  /\ outlog'.hit <=> outlog.hit

\* Each part of an edge of the chip's clock is one of these.
LEMMA OutEdgeIs ==
  ASSUME OutTypeOK, LineFollows, FifoFollows, PulseWaits(ser.under), OutEdge
  PROVE  /\ CrossTypeOK' /\ feed' \in Nat \ {0}
         /\ ser' \in [flag : BOOLEAN, lat : Nat, under : BOOLEAN]
         /\ sent' \in Nat \X Nat /\ outlog' \in OutLogs
         /\ OutEdgeMoves
<1>1. /\ ser' = [flag |-> ~ser.flag, under |-> ~ser.flag /\ ~TxValid,
                 lat |-> IF ~ser.flag /\ TxValid THEN TxData ELSE ser.lat]
      /\ sent' = Serialize
      /\ CrossIq(ser.under) /\ feed' = feed
      /\ LET started == ~ser.flag /\ TxValid /\ TxData # 0
         IN  outlog' = [outlog EXCEPT
               !.edges = @ + 1, !.unders = @ + One(ser'.under),
               !.resets = @ + One(IqReset /\ (pulse.level \/ ser.under)),
               !.off = IF IqEnable THEN 0 ELSE @ + 1,
               !.started = IF started THEN TxData ELSE @,
               !.skipped = IF started /\ TxData >= outlog.first THEN @ + ((TxData - Behind) - 1) ELSE @,
               !.drained = @ + One(TxRead /\ ~IqEnable)]
  BY DEF OutEdge
<1>2. /\ ser.flag \in BOOLEAN /\ ser.lat \in Nat /\ ser.under \in BOOLEAN /\ IqEnable \in BOOLEAN
      /\ sent[1] \in Nat /\ sent[2] \in Nat /\ feed \in Nat \ {0} /\ NextOut \in Int
      /\ outlog \in OutLogs
  BY OutTypes DEF OutTypeOK
<1>3. TxThere \in BOOLEAN
  BY OutTypes DEF TxThere
<1>4. /\ TxValid <=> (IqEnable => TxThere)
      /\ TxData = IF IqEnable /\ TxThere THEN NextOut ELSE 0
      /\ TxThere => NextOut \in Nat \ {0}
  BY <1>2, <1>3, OfferIs DEF TxValid, TxData
<1>5. CrossTypeOK'
  <2>1. CrossTypeOK /\ CrossIq(ser.under) /\ ser.under \in BOOLEAN /\ PulseWaits(ser.under)
    BY <1>1, <1>2 DEF OutTypeOK
  <2> QED
    BY <2>1, IqCounts
<1>6. PICK t \in BOOLEAN, v \in BOOLEAN, d \in Nat : t = TxThere /\ v = TxValid /\ d = TxData
  <2>1. TxValid \in BOOLEAN
    BY <1>2, <1>3 DEF TxValid
  <2>2. TxData \in Nat
    BY <1>4
  <2> QED
    BY <1>3, <2>1, <2>2
<1>7. PICK f \in BOOLEAN, u \in BOOLEAN : f = ~ser.flag /\ u = (~ser.flag /\ ~v)
  BY <1>2
<1>8. ser' = [flag |-> f, under |-> u, lat |-> IF f /\ v THEN d ELSE ser.lat]
  BY <1>1, <1>6, <1>7, Zenon
<1>9. /\ ser' \in [flag : BOOLEAN, lat : Nat, under : BOOLEAN]
      /\ ser'.flag = f /\ ser'.under = u /\ ser'.lat = IF f /\ v THEN d ELSE ser.lat
  BY <1>2, <1>6, <1>7, <1>8
<1>10. /\ Starts => f /\ v /\ d = NextOut
       /\ ~ser.flag /\ ~IqEnable => f /\ v /\ d = 0
       /\ ser.flag \/ (IqEnable /\ ~TxThere) => ~(f /\ v)
       /\ u <=> (~ser.flag /\ IqEnable) /\ ~TxThere
  BY <1>2, <1>3, <1>4, <1>6, <1>7 DEF Starts
<1>11. sent' = IF f THEN <<IF v THEN d ELSE ser.lat, sent[2]>> ELSE <<sent[1], ser.lat>>
  BY <1>1, <1>6, <1>7, Zenon DEF Serialize
<1>12. /\ sent' \in Nat \X Nat
       /\ sent'[1] = ser'.lat
       /\ ser.flag => sent'[2] = ser.lat
       /\ ~ser.flag => sent'[2] = sent[2]
  <2>1. sent[1] = ser.lat
    BY DEF LineFollows
  <2>2. CASE f
    BY <1>2, <1>6, <1>7, <1>9, <1>11, <2>2
  <2>3. CASE ~f
    BY <1>2, <1>6, <1>7, <1>9, <1>11, <2>1, <2>3
  <2> QED
    BY <2>2, <2>3
<1>13. (~ser.flag /\ TxValid /\ TxData # 0) <=> Starts
  BY <1>2, <1>3, <1>4 DEF Starts
<1>14. PICK a \in {0, 1}, b \in {0, 1}, c \in {0, 1}, o \in Nat, h \in Nat, k \in Int :
            /\ a = One(ser'.under) /\ b = One(IqReset /\ (pulse.level \/ ser.under))
            /\ c = One(TxRead /\ ~IqEnable)
            /\ o = (IF IqEnable THEN 0 ELSE outlog.off + 1)
            /\ h = (IF Starts THEN NextOut ELSE outlog.started)
            /\ k = (IF Starts /\ NextOut >= outlog.first
                    THEN outlog.skipped + ((NextOut - Behind) - 1) ELSE outlog.skipped)
  <2>1. /\ One(ser'.under) \in {0, 1} /\ One(IqReset /\ (pulse.level \/ ser.under)) \in {0, 1}
        /\ One(TxRead /\ ~IqEnable) \in {0, 1}
    BY DEF One
  <2>2. outlog.off \in Nat /\ outlog.started \in Nat /\ outlog.first \in Nat /\ outlog.skipped \in Int
    BY OutTypes
  <2>3. Behind \in Int
    BY <2>2 DEF Behind
  <2>4. Starts => NextOut \in Nat
    BY <1>4 DEF Starts
  <2>5. (IF IqEnable THEN 0 ELSE outlog.off + 1) \in Nat
    BY <2>2
  <2>6. (IF Starts THEN NextOut ELSE outlog.started) \in Nat
    BY <2>2, <2>4
  <2>7. (IF Starts /\ NextOut >= outlog.first
         THEN outlog.skipped + ((NextOut - Behind) - 1) ELSE outlog.skipped) \in Int
    BY <1>2, <2>2, <2>3
  <2> QED
    BY <2>1, <2>5, <2>6, <2>7
<1>15. Starts => TxData = NextOut
  BY <1>2, <1>4 DEF Starts
<1>16. outlog' = [outlog EXCEPT !.edges = @ + 1, !.unders = @ + a, !.resets = @ + b, !.off = o,
                                !.started = h, !.skipped = k, !.drained = @ + c]
  <2>1. CASE Starts
    <3>1. ~ser.flag /\ TxValid /\ TxData # 0
      BY <1>13, <2>1
    <3>2. (TxData >= outlog.first) = (NextOut >= outlog.first) /\ TxData - Behind = NextOut - Behind
      BY <1>15, <2>1
    <3> QED
      BY <1>1, <1>14, <1>15, <2>1, <3>1, <3>2
  <2>2. CASE ~Starts
    <3>1. ~(~ser.flag /\ TxValid /\ TxData # 0)
      BY <1>13, <2>2
    <3> QED
      BY <1>1, <1>14, <2>2, <3>1
  <2> QED
    BY <2>1, <2>2
<1>17. /\ outlog'.unders = outlog.unders + a /\ outlog'.resets = outlog.resets + b
       /\ outlog'.off = o /\ outlog'.started = h /\ outlog'.skipped = k
       /\ outlog'.drained = outlog.drained + c /\ outlog'.first = outlog.first
       /\ outlog'.hit = outlog.hit
       /\ outlog' \in OutLogs
  <2>1. outlog.edges \in Nat /\ outlog.unders \in Nat /\ outlog.resets \in Nat /\ outlog.drained \in Nat
    BY OutTypes
  <2>2. /\ outlog.edges + 1 \in Nat /\ outlog.unders + a \in Nat /\ outlog.resets + b \in Nat
        /\ outlog.drained + c \in Nat
    <3>1. a \in Nat /\ b \in Nat /\ c \in Nat
      BY <1>14
    <3> QED
      BY <2>1, <3>1
  <2>3. o \in Nat /\ h \in Nat /\ k \in Int
    BY <1>14
  <2>4. outlog \in OutLogs
    BY <1>2
  <2> QED
    BY <1>16, <2>2, <2>3, <2>4 DEF OutLogs
<1>18. OutEdgeMoves
  <2>1. /\ ser'.flag <=> ~ser.flag
        /\ ser'.under <=> (~ser.flag /\ IqEnable) /\ ~TxThere
    BY <1>7, <1>9, <1>10
  <2>2. /\ Starts => ser'.lat = NextOut
        /\ ~ser.flag /\ ~IqEnable => ser'.lat = 0
        /\ ser.flag \/ (IqEnable /\ ~TxThere) => ser'.lat = ser.lat
    BY <1>9, <1>10
  <2> QED
    BY <1>1, <1>12, <1>14, <1>17, <2>1, <2>2 DEF OutEdgeMoves
<1> QED
  BY <1>1, <1>2, <1>5, <1>9, <1>12, <1>17, <1>18
\* What an edge of the chip's clock does to the FIFO: the reset empties it, or the
\* serializer takes the head of it, or it stays.
EmptyMoves == txf.asked /\ txf'.q = <<>> /\ txf'.rbusy
ReadMoves == TxRead /\ txf'.q = Tail(txf.q) /\ ~txf'.rbusy
KeepMoves == ~TxRead /\ txf'.q = txf.q /\ ~txf'.rbusy

\* The read side of the FIFO does one of the three.
LEMMA FifoReadIs ==
  ASSUME OutTypeOK, FifoFollows, FifoRead
  PROVE  /\ txf' \in Fifos
         /\ txf'.wbusy = txf.wbusy /\ txf'.asked = txf.asked
         /\ txf'.seen <= Len(txf'.q)
         /\ EmptyMoves \/ ReadMoves \/ KeepMoves
<1>1. /\ txf \in Fifos /\ txf.q \in Seq(Nat) /\ Len(txf.q) \in Nat /\ txf.seen \in Nat
      /\ txf.seen <= Len(txf.q)
  BY OutTypes DEF OutTypeOK, FifoFollows
<1>2. PICK w \in Seq(Nat), n \in Nat : /\ w = IF TxRead THEN Tail(txf.q) ELSE txf.q
                                       /\ n = IF TxRead THEN txf.seen - 1 ELSE txf.seen
                                       /\ n <= Len(w)
  <2>1. CASE TxRead
    <3>1. txf.seen > 0
      BY <2>1 DEF TxRead, TxThere
    <3>2. txf.q # <<>> /\ Tail(txf.q) \in Seq(Nat) /\ Len(Tail(txf.q)) = Len(txf.q) - 1
      BY <1>1, <3>1
    <3>3. txf.seen - 1 \in Nat /\ txf.seen - 1 <= Len(Tail(txf.q))
      BY <1>1, <3>1, <3>2
    <3> QED
      BY <2>1, <3>2, <3>3
  <2>2. CASE ~TxRead
    BY <1>1, <2>2
  <2> QED
    BY <2>1, <2>2
<1>3. \/ txf.asked /\ txf' = [txf EXCEPT !.q = <<>>, !.seen = 0, !.rbusy = TRUE]
      \/ \E seen \in n .. (IF txf.wbusy THEN n ELSE Len(w)) :
           txf' = [txf EXCEPT !.q = w, !.seen = seen, !.rbusy = FALSE]
  BY <1>2 DEF FifoRead
<1>4. CASE txf.asked /\ txf' = [txf EXCEPT !.q = <<>>, !.seen = 0, !.rbusy = TRUE]
  <2>1. <<>> \in Seq(Nat) /\ Len(<<>>) = 0
    OBVIOUS
  <2>2. /\ txf'.q = <<>> /\ txf'.seen = 0 /\ txf'.rbusy = TRUE
        /\ txf'.wbusy = txf.wbusy /\ txf'.asked = txf.asked /\ txf' \in Fifos
    BY <1>1, <1>4, <2>1 DEF Fifos
  <2>3. txf'.seen <= Len(txf'.q)
    BY <2>1, <2>2
  <2>4. EmptyMoves
    BY <1>4, <2>2, Zenon DEF EmptyMoves
  <2> QED
    BY <2>2, <2>3, <2>4
<1>5. ASSUME NEW seen \in n .. (IF txf.wbusy THEN n ELSE Len(w)),
             txf' = [txf EXCEPT !.q = w, !.seen = seen, !.rbusy = FALSE]
      PROVE  /\ txf' \in Fifos /\ txf'.wbusy = txf.wbusy /\ txf'.asked = txf.asked
             /\ txf'.seen <= Len(txf'.q) /\ (ReadMoves \/ KeepMoves)
  <2>1. seen \in Nat /\ seen <= Len(w)
    <3>1. Len(w) \in Nat /\ n \in Nat /\ n <= Len(w)
      BY <1>2
    <3> QED
      BY <1>5, <3>1
  <2>2. /\ txf'.q = w /\ txf'.seen = seen /\ txf'.rbusy = FALSE
        /\ txf'.wbusy = txf.wbusy /\ txf'.asked = txf.asked /\ txf' \in Fifos
    BY <1>1, <1>2, <1>5, <2>1 DEF Fifos
  <2> QED
    BY <1>2, <2>1, <2>2 DEF ReadMoves, KeepMoves
<1> QED
  BY <1>3, <1>4, <1>5

\* The zeros of a disabled transmitter reach the line in three edges at most.
LEMMA EdgeLine ==
  ASSUME OutTypeOK, LineFollows, OutEdgeMoves
  PROVE  LineFollows'
<1>1. /\ ser.flag \in BOOLEAN /\ ser.lat \in Nat /\ IqEnable \in BOOLEAN /\ outlog.off \in Nat
      /\ sent[1] \in Nat /\ sent[2] \in Nat
  BY OutTypes
<1>2. /\ ser'.flag <=> ~ser.flag
      /\ sent'[1] = ser'.lat
      /\ ser.flag => sent'[2] = ser.lat
      /\ ~ser.flag => sent'[2] = sent[2]
      /\ ~ser.flag /\ ~IqEnable => ser'.lat = 0
      /\ ser.flag => ser'.lat = ser.lat
      /\ outlog'.off = IF IqEnable THEN 0 ELSE outlog.off + 1
  BY DEF OutEdgeMoves
<1>3. /\ sent[1] = ser.lat
      /\ ~ser.flag => sent[2] = ser.lat
      /\ outlog.off >= 1 /\ ser.flag => ser.lat = 0
      /\ outlog.off >= 2 => ser.lat = 0
      /\ outlog.off >= 3 => sent[2] = 0
  BY DEF LineFollows
<1>4. CASE ser.flag
  BY <1>1, <1>2, <1>3, <1>4 DEF LineFollows
<1>5. CASE ~ser.flag
  BY <1>1, <1>2, <1>3, <1>5 DEF LineFollows
<1> QED
  BY <1>4, <1>5

\* An underrun is counted at the next edge, or met by the reset.
LEMMA EdgeUnders ==
  ASSUME OutTypeOK, UndersCounted, CrossIq(ser.under), OutEdgeMoves, ser'.under \in BOOLEAN
  PROVE  UndersCounted'
<1>1. /\ ser.flag \in BOOLEAN /\ ser.under \in BOOLEAN /\ IqEnable \in BOOLEAN /\ IqReset \in BOOLEAN
      /\ outlog.unders \in Nat /\ outlog.resets \in Nat /\ pulse \in Pulses
      /\ pulse.old \in BOOLEAN /\ pulse.level \in BOOLEAN
      /\ inctl.en \in BOOLEAN /\ inctl.rst \in BOOLEAN
  BY OutTypes
<1>2. /\ ser.under => ser.flag
      /\ pulse.old => ~ser.flag
      /\ ~(inctl.en /\ inctl.rst)
      /\ \A k \in Stages : ~(cross.en[k] /\ cross.rst[k])
      /\ PulseWaits(ser.under)
      /\ outlog.unders - outlog.resets <= Shown(pulse) + One(ser.under)
      /\ Shown(pulse) + One(ser.under) <= outlog.unders + outlog.resets
  BY DEF UndersCounted
<1>3. /\ CrossTypeOK' /\ inctl' = inctl
      /\ cross'.en[1] = inctl.en /\ cross'.rst[1] = inctl.rst
      /\ \A k \in Stages : k > 1 => cross'.en[k] = cross.en[k - 1] /\ cross'.rst[k] = cross.rst[k - 1]
      /\ ~IqReset => Shown(pulse') = Shown(pulse) + Pending(ser.under) /\ pulse'.old = ser.under
      /\ IqReset => Shown(pulse') <= Shown(pulse) + One(pulse.level) /\ ~pulse'.old /\ ~pulse'.level
      /\ \A y \in BOOLEAN : (IqReset => ~y) => PulseWaits(y)'
      /\ IqReset /\ (ser.under => ~pulse.old)
           => Shown(pulse) + One(ser.under) <= Shown(pulse') + One(pulse.level \/ ser.under)
  <2>1. CrossTypeOK /\ PulseWaits(ser.under) /\ ser.under \in BOOLEAN
    BY <1>1, <1>2 DEF OutTypeOK
  <2> QED
    BY <2>1, IqCounts
<1>4. /\ ser'.flag <=> ~ser.flag
      /\ ser'.under <=> (~ser.flag /\ IqEnable) /\ ~TxThere
      /\ outlog'.unders = outlog.unders + One(ser'.under)
      /\ outlog'.resets = outlog.resets + One(IqReset /\ (pulse.level \/ ser.under))
  BY DEF OutEdgeMoves
<1>5. IqReset => ~IqEnable
  <2>1. PICK c \in Chain, z \in Chain : c = cross.en /\ z = cross.rst
    BY DEF OutTypeOK, CrossTypeOK
  <2>2. Newest(c) = c[SyncStages] /\ Newest(z) = z[SyncStages] /\ SyncStages \in Stages
    BY ChainIs, ShiftIs DEF Stages
  <2> QED
    BY <1>2, <2>1, <2>2 DEF IqReset, IqEnable
<1>6. ser'.under \in BOOLEAN /\ (IqReset => ~ser'.under)
  <2>1. txf.seen \in Nat /\ txf.rbusy \in BOOLEAN
    BY OutTypes
  <2>2. TxThere \in BOOLEAN
    BY <2>1 DEF TxThere
  <2> QED
    BY <1>1, <1>4, <1>5, <2>2
<1>7. PulseWaits(ser.under)'
  BY <1>3, <1>6
<1>8. \A k \in Stages : ~(cross'.en[k] /\ cross'.rst[k])
  <2> TAKE k \in Stages
  <2>1. CASE k = 1
    BY <1>2, <1>3, <2>1
  <2>2. CASE k > 1
    <3>1. k - 1 \in Stages
      BY <2>2, ChainIs DEF Stages
    <3> QED
      BY <1>2, <1>3, <2>2, <3>1
  <2> QED
    BY <2>1, <2>2 DEF Stages
<1>9. ser.under => ~pulse.old
  BY <1>2
<1>10. PICK u \in {0, 1}, v \in {0, 1}, r \in {0, 1}, p \in {0, 1}, l \in {0, 1} :
            /\ u = One(ser.under) /\ v = One(ser'.under) /\ r = One(IqReset /\ (pulse.level \/ ser.under))
            /\ p = Pending(ser.under) /\ l = One(pulse.level)
  BY DEF One, Pending
<1>11. PICK a \in Nat, b \in Nat : a = Shown(pulse) /\ b = Shown(pulse')
  <2>1. pulse' \in Pulses
    BY <1>3 DEF CrossTypeOK
  <2> QED
    BY <1>1, <2>1, CountedIs
<1>12. /\ outlog'.unders - outlog'.resets <= b + v
       /\ b + v <= outlog'.unders + outlog'.resets
  <2>1. CASE IqReset
    <3>1. v = 0 /\ r = One(pulse.level \/ ser.under)
      BY <1>6, <1>10, <2>1 DEF One
    <3>2. b <= a + l /\ a + u <= b + r
      BY <1>3, <1>9, <1>10, <1>11, <2>1, <3>1
    <3>3. l <= r
      BY <1>10, <3>1 DEF One
    <3> QED
      BY <1>1, <1>2, <1>4, <1>10, <1>11, <3>1, <3>2, <3>3
  <2>2. CASE ~IqReset
    <3>1. p = u /\ r = 0
      BY <1>9, <1>10, <2>2 DEF One, Pending
    <3>2. b = a + p
      BY <1>3, <1>10, <1>11, <2>2
    <3> QED
      BY <1>1, <1>2, <1>4, <1>10, <1>11, <3>1, <3>2
  <2> QED
    BY <2>1, <2>2
<1>13. /\ ser'.under => ser'.flag
       /\ pulse'.old => ~ser'.flag
  BY <1>1, <1>2, <1>3, <1>4
<1> QED
  BY <1>2, <1>3, <1>7, <1>8, <1>10, <1>11, <1>12, <1>13 DEF UndersCounted
\* The head of the FIFO moves on by the sample taken, or past all that is fed so far.
LEMMA NextMoves ==
  ASSUME OutTypeOK, FifoFollows, feed' = feed
  PROVE  /\ NextOut <= feed
         /\ TxRead => NextOut < feed /\ txf.q # <<>>
         /\ EmptyMoves => NextOut' = feed
         /\ ReadMoves => NextOut' = NextOut + 1
         /\ KeepMoves => NextOut' = NextOut
<1>1. /\ txf.q \in Seq(Nat) /\ Len(txf.q) \in Nat /\ feed \in Nat /\ NextOut \in Int
      /\ NextOut = feed - Len(txf.q) /\ NextOut' = feed - Len(txf'.q)
  BY OutTypes DEF NextOut
<1>2. TxRead => NextOut < feed /\ txf.q # <<>>
  BY OfferIs DEF TxRead
<1>3. ASSUME EmptyMoves
      PROVE  NextOut' = feed
  <2>1. txf'.q = <<>> /\ Len(<<>>) = 0
    BY <1>3 DEF EmptyMoves
  <2> QED
    BY <1>1, <2>1
<1>4. ASSUME ReadMoves
      PROVE  NextOut' = NextOut + 1
  <2>1. TxRead /\ txf'.q = Tail(txf.q)
    BY <1>4 DEF ReadMoves
  <2>2. Len(txf'.q) = Len(txf.q) - 1
    BY <1>1, <1>2, <2>1
  <2> QED
    BY <1>1, <2>2
<1>5. ASSUME KeepMoves
      PROVE  NextOut' = NextOut
  <2>1. txf'.q = txf.q
    BY <1>5 DEF KeepMoves
  <2> QED
    BY <1>1, <2>1
<1>6. NextOut <= feed
  BY <1>1
<1> QED
  BY <1>2, <1>3, <1>4, <1>5, <1>6

\* The FIFO still holds the samples in a row, and none of them was started.
LEMMA EdgeFifo ==
  ASSUME OutTypeOK, FifoFollows, FifoRead, OutEdgeMoves
  PROVE  FifoFollows'
<1>1. /\ txf.q \in Seq(Nat) /\ Len(txf.q) \in Nat /\ feed \in Nat \ {0} /\ NextOut \in Int
      /\ outlog.started \in Nat /\ outlog.first \in Nat
  BY OutTypes
<1>2. /\ txf'.seen <= Len(txf'.q)
      /\ EmptyMoves \/ ReadMoves \/ KeepMoves
  BY FifoReadIs
<1>3. /\ \A k \in 1 .. Len(txf.q) : txf.q[k] = (NextOut + k) - 1
      /\ NextOut >= 1 /\ outlog.started < NextOut /\ outlog.first <= feed
  BY DEF FifoFollows
<1>4. /\ feed' = feed /\ outlog'.first = outlog.first
      /\ outlog'.started = IF Starts THEN NextOut ELSE outlog.started
  BY DEF OutEdgeMoves
<1>5. /\ NextOut <= feed
      /\ TxRead => NextOut < feed /\ txf.q # <<>>
      /\ EmptyMoves => NextOut' = feed
      /\ ReadMoves => NextOut' = NextOut + 1
      /\ KeepMoves => NextOut' = NextOut
  BY <1>4, NextMoves
<1>6. Starts => TxRead
  BY DEF Starts, TxRead
<1>7. CASE EmptyMoves
  <2>1. txf'.q = <<>> /\ Len(txf'.q) = 0
    BY <1>7 DEF EmptyMoves
  <2>2. 1 .. Len(txf'.q) = {}
    BY <2>1
  <2>3. outlog'.started < NextOut' /\ NextOut' >= 1
    BY <1>1, <1>3, <1>4, <1>5, <1>6, <1>7
  <2> QED
    BY <1>2, <1>3, <1>4, <2>2, <2>3 DEF FifoFollows
<1>8. CASE ReadMoves
  <2>1. TxRead /\ txf'.q = Tail(txf.q) /\ Len(txf'.q) = Len(txf.q) - 1
    BY <1>1, <1>5, <1>8 DEF ReadMoves
  <2>2. ASSUME NEW k \in 1 .. Len(txf'.q)
        PROVE  txf'.q[k] = (NextOut' + k) - 1
    <3>1. k + 1 \in 1 .. Len(txf.q) /\ k \in Int
      BY <1>1, <2>1
    <3>2. txf'.q[k] = txf.q[k + 1]
      BY <1>1, <1>5, <2>1, <3>1
    <3>3. txf.q[k + 1] = (NextOut + (k + 1)) - 1
      BY <1>3, <3>1
    <3> QED
      BY <1>1, <1>5, <1>8, <3>1, <3>2, <3>3
  <2>3. outlog'.started < NextOut' /\ NextOut' >= 1
    BY <1>1, <1>3, <1>4, <1>5, <1>8
  <2> QED
    BY <1>2, <1>3, <1>4, <2>2, <2>3 DEF FifoFollows
<1>9. CASE KeepMoves
  <2>1. txf'.q = txf.q /\ ~Starts
    BY <1>6, <1>9 DEF KeepMoves
  <2>2. \A k \in 1 .. Len(txf'.q) : txf'.q[k] = (NextOut' + k) - 1
    BY <1>3, <1>5, <1>9, <2>1
  <2>3. outlog'.started < NextOut' /\ NextOut' >= 1
    BY <1>3, <1>4, <1>5, <1>9, <2>1
  <2> QED
    BY <1>2, <1>3, <1>4, <2>2, <2>3 DEF FifoFollows
<1> QED
  BY <1>2, <1>7, <1>8, <1>9

\* The reset goes on as far as the chip's side has come.
LEMMA EdgeReset ==
  ASSUME OutTypeOK, FifoFollows, ResetEmpties, FifoRead, OutEdgeMoves, UNCHANGED <<inctl, awake>>
  PROVE  ResetEmpties'
<1>1. /\ txf'.wbusy = txf.wbusy /\ txf'.asked = txf.asked
      /\ EmptyMoves \/ ReadMoves \/ KeepMoves
  BY FifoReadIs
<1>2. txf'.rbusy => txf'.wbusy /\ txf'.q = <<>>
  BY <1>1 DEF EmptyMoves, ReadMoves, KeepMoves, ResetEmpties
<1>3. txf.q = <<>> => txf'.q = <<>>
  <2>1. feed' = feed
    BY DEF OutEdgeMoves
  <2>2. TxRead => txf.q # <<>>
    BY <2>1, NextMoves
  <2> QED
    BY <1>1, <2>2 DEF EmptyMoves, ReadMoves, KeepMoves
<1>4. feed' = feed /\ outlog'.first = outlog.first
  BY DEF OutEdgeMoves
<1> QED
  BY <1>1, <1>2, <1>3, <1>4 DEF ResetEmpties

\* What is not sent of a session was given up before the enable had crossed.
LEMMA EdgeSkips ==
  ASSUME OutTypeOK, FifoFollows, ResetEmpties, SkipsDrained, FifoRead, OutEdgeMoves, inctl' = inctl
  PROVE  SkipsDrained'
<1>1. /\ feed \in Nat \ {0} /\ NextOut \in Int
      /\ outlog.started \in Nat /\ outlog.first \in Nat /\ outlog.drained \in Nat /\ outlog.skipped \in Int
      /\ IqEnable \in BOOLEAN
  BY OutTypes
<1>2. EmptyMoves \/ ReadMoves \/ KeepMoves
  BY FifoReadIs
<1>3. NextOut >= 1 /\ outlog.started < NextOut /\ outlog.first <= feed
  BY DEF FifoFollows
<1>4. /\ feed' = feed /\ outlog'.first = outlog.first
      /\ outlog'.started = IF Starts THEN NextOut ELSE outlog.started
      /\ outlog'.skipped = IF Starts /\ NextOut >= outlog.first
                           THEN outlog.skipped + ((NextOut - Behind) - 1) ELSE outlog.skipped
      /\ outlog'.drained = outlog.drained + One(TxRead /\ ~IqEnable)
  BY DEF OutEdgeMoves
<1>5. /\ NextOut <= feed
      /\ TxRead => NextOut < feed /\ txf.q # <<>>
      /\ EmptyMoves => NextOut' = feed
      /\ ReadMoves => NextOut' = NextOut + 1
      /\ KeepMoves => NextOut' = NextOut
  BY <1>4, NextMoves
<1>6. Starts <=> TxRead /\ IqEnable
  BY DEF Starts, TxRead
<1>7. PICK b \in Int, c \in Int, m \in Int :
           /\ b = Behind /\ b = IF outlog.started < outlog.first THEN outlog.first - 1 ELSE outlog.started
           /\ c = Behind' /\ c = IF outlog'.started < outlog.first THEN outlog.first - 1 ELSE outlog'.started
           /\ m = NextOut'
  <2>1. /\ Behind = IF outlog.started < outlog.first THEN outlog.first - 1 ELSE outlog.started
        /\ Behind' = IF outlog'.started < outlog.first THEN outlog.first - 1 ELSE outlog'.started
    BY <1>4 DEF Behind
  <2>2. Behind \in Int /\ Behind' \in Int
    BY <1>1, <1>4, <2>1
  <2>3. NextOut' \in Int
    BY <1>1, <1>2, <1>5
  <2> QED
    BY <2>1, <2>2, <2>3
<1>8. PICK d \in {0, 1} : d = One(TxRead /\ ~IqEnable)
  BY DEF One
<1>9. PICK g \in Int, h \in Int : /\ g = Unsent /\ g = IF NextOut > b THEN (NextOut - b) - 1 ELSE 0
                                  /\ h = Unsent' /\ h = IF m > c THEN (m - c) - 1 ELSE 0
  <2>1. /\ Unsent = IF NextOut > b THEN (NextOut - b) - 1 ELSE 0
        /\ Unsent' = IF m > c THEN (m - c) - 1 ELSE 0
    BY <1>7 DEF Unsent
  <2> QED
    BY <1>1, <1>7, <2>1
<1>10. /\ outlog.skipped <= outlog.drained
       /\ (txf.q # <<>> \/ inctl.next \in {"open", "release"}) => outlog.skipped + g <= outlog.drained
  BY <1>9 DEF SkipsDrained
<1>11. /\ outlog'.drained = outlog.drained + d
       /\ outlog'.skipped = IF Starts /\ NextOut >= outlog.first
                            THEN outlog.skipped + ((NextOut - b) - 1) ELSE outlog.skipped
  BY <1>4, <1>7, <1>8
<1>12. outlog'.skipped <= outlog'.drained
  <2>1. CASE Starts /\ NextOut >= outlog.first
    <3>1. g = (NextOut - b) - 1 /\ outlog.skipped + g <= outlog.drained
      BY <1>1, <1>3, <1>5, <1>6, <1>7, <1>9, <1>10, <2>1
    <3> QED
      BY <1>1, <1>8, <1>11, <2>1, <3>1
  <2>2. CASE ~(Starts /\ NextOut >= outlog.first)
    BY <1>1, <1>8, <1>10, <1>11, <2>2
  <2> QED
    BY <2>1, <2>2
<1>13. ASSUME txf'.q # <<>> \/ inctl.next \in {"open", "release"}
       PROVE  outlog'.skipped + h <= outlog'.drained
  <2>1. CASE EmptyMoves
    <3>1. feed = outlog.first
      BY <1>13, <2>1 DEF EmptyMoves, ResetEmpties
    <3>2. m = outlog.first
      BY <1>5, <1>7, <2>1, <3>1
    <3>3. c >= outlog.first - 1
      BY <1>1, <1>4, <1>7
    <3>4. h = 0
      BY <1>1, <1>7, <1>9, <3>2, <3>3
    <3> QED
      BY <1>1, <1>8, <1>11, <1>12, <3>4
  <2>2. CASE ReadMoves
    <3>1. TxRead /\ m = NextOut + 1 /\ outlog.skipped + g <= outlog.drained
      BY <1>5, <1>7, <1>10, <2>2 DEF ReadMoves
    <3>2. CASE Starts
      <4>1. h = 0
        BY <1>1, <1>4, <1>7, <1>9, <3>1, <3>2
      <4> QED
        BY <1>1, <1>8, <1>11, <1>12, <4>1
    <3>3. CASE ~Starts
      <4>1. d = 1 /\ outlog'.skipped = outlog.skipped
        BY <1>1, <1>6, <1>8, <1>11, <3>1, <3>3 DEF One
      <4>2. c = b
        BY <1>4, <1>7, <3>3
      <4>3. h <= g + 1
        BY <1>1, <1>7, <1>9, <3>1, <4>2
      <4> QED
        BY <1>1, <1>9, <1>11, <3>1, <4>1, <4>3
    <3> QED
      BY <3>2, <3>3
  <2>3. CASE KeepMoves
    <3>1. ~TxRead /\ ~Starts /\ txf'.q = txf.q /\ m = NextOut
      BY <1>5, <1>6, <1>7, <2>3 DEF KeepMoves
    <3>2. c = b /\ h = g
      BY <1>4, <1>7, <1>9, <3>1
    <3>3. outlog.skipped + g <= outlog.drained /\ outlog'.skipped = outlog.skipped
      BY <1>10, <1>11, <1>13, <3>1
    <3> QED
      BY <1>1, <1>8, <1>9, <1>11, <3>2, <3>3
  <2> QED
    BY <1>2, <2>1, <2>2, <2>3
<1> QED
  BY <1>9, <1>12, <1>13 DEF SkipsDrained

\* A session that began with nothing left over starts no sample of the one before.
LEMMA EdgeFresh ==
  ASSUME OutTypeOK, FifoFollows, SessionFresh, FifoRead, OutEdgeMoves, inctl' = inctl
  PROVE  SessionFresh'
<1>1. /\ feed \in Nat \ {0} /\ NextOut \in Int /\ outlog.first \in Nat /\ ser.lat \in Nat
      /\ ser.flag \in BOOLEAN /\ IqEnable \in BOOLEAN
  BY OutTypes
<1>2. /\ txf'.wbusy = txf.wbusy
      /\ EmptyMoves \/ ReadMoves \/ KeepMoves
  BY FifoReadIs
<1>3. /\ feed' = feed /\ outlog'.first = outlog.first /\ (outlog'.hit <=> outlog.hit)
      /\ Starts => ser'.lat = NextOut
      /\ ~ser.flag /\ ~IqEnable => ser'.lat = 0
      /\ ser.flag \/ (IqEnable /\ ~TxThere) => ser'.lat = ser.lat
  BY DEF OutEdgeMoves
<1>4. NextOut' >= NextOut
  BY <1>1, <1>2, <1>3, NextMoves
<1>5. NextOut' \in Int
  BY <1>1, <1>2, <1>3, NextMoves
<1>6. Starts \/ (~ser.flag /\ ~IqEnable) \/ ser.flag \/ (IqEnable /\ ~TxThere)
  BY <1>1 DEF Starts
<1> SUFFICES ASSUME outlog.hit, inctl.next = "release"
             PROVE  /\ NextOut' >= outlog.first /\ ~txf.wbusy
                    /\ ser'.lat = 0 \/ ser'.lat >= outlog.first
  BY <1>2, <1>3 DEF SessionFresh
<1>7. /\ NextOut >= outlog.first /\ ~txf.wbusy
      /\ ser.lat = 0 \/ ser.lat >= outlog.first
  BY DEF SessionFresh
<1>8. NextOut' >= outlog.first
  BY <1>1, <1>4, <1>5, <1>7
<1> QED
  BY <1>3, <1>6, <1>7, <1>8

\* An edge of the chip's clock keeps the invariant of the way out.
LEMMA OutEdgePreserves ==
  ASSUME OutInv, OutEdge
  PROVE  OutInv'
<1>1. /\ OutTypeOK /\ LineFollows /\ UndersCounted /\ FifoFollows /\ ResetEmpties
      /\ SkipsDrained /\ SessionFresh
  BY DEF OutInv
<1>2. FifoRead /\ CrossIq(ser.under) /\ PulseWaits(ser.under)
  BY <1>1 DEF OutEdge, UndersCounted
<1>3. /\ CrossTypeOK' /\ feed' \in Nat \ {0}
      /\ ser' \in [flag : BOOLEAN, lat : Nat, under : BOOLEAN]
      /\ sent' \in Nat \X Nat /\ outlog' \in OutLogs
      /\ OutEdgeMoves
  BY <1>1, <1>2, OutEdgeIs
<1>4. OutTypeOK'
  BY <1>1, <1>2, <1>3, FifoReadIs DEF OutTypeOK
<1>5. inctl' = inctl /\ awake' = awake /\ ser'.under \in BOOLEAN
  BY <1>2, <1>3 DEF CrossIq
<1>6. LineFollows' /\ UndersCounted'
  BY <1>1, <1>2, <1>3, <1>5, EdgeLine, EdgeUnders
<1>7. FifoFollows' /\ ResetEmpties'
  BY <1>1, <1>2, <1>3, <1>5, EdgeFifo, EdgeReset
<1>8. SkipsDrained' /\ SessionFresh'
  BY <1>1, <1>2, <1>3, <1>5, EdgeSkips, EdgeFresh
<1> QED
  BY <1>4, <1>6, <1>7, <1>8 DEF OutInv
\* A sample more in the FIFO, or a step of the reset: the write side, which the read side
\* has no part in.
WriteMoves ==
  /\ awake /\ ~txf.wbusy /\ ~inctl.rst
  /\ txf'.q = Append(txf.q, feed) /\ feed' = feed + 1
  /\ txf'.wbusy = txf.wbusy /\ txf'.asked = txf.asked
WaitMoves ==
  /\ txf'.q = txf.q /\ feed' = feed
  /\ txf'.wbusy => txf.wbusy \/ inctl.rst
  /\ txf'.asked => txf.asked \/ inctl.rst
  /\ inctl.rst => txf'.wbusy /\ txf'.asked
  /\ txf.asked /\ ~txf'.asked => txf.rbusy
  /\ txf.wbusy /\ ~txf'.wbusy => ~txf.asked /\ ~txf.rbusy

\* The write side does one of the two.
LEMMA OutAclkIs ==
  ASSUME OutTypeOK, OutAclk
  PROVE  /\ txf' \in Fifos /\ feed' \in Nat \ {0}
         /\ txf'.seen = txf.seen /\ txf'.rbusy = txf.rbusy
         /\ WriteMoves \/ WaitMoves
<1>1. /\ txf \in Fifos /\ txf.q \in Seq(Nat) /\ Len(txf.q) \in Nat /\ txf.occ \in Nat
      /\ txf.wbusy \in BOOLEAN /\ txf.asked \in BOOLEAN /\ txf.rbusy \in BOOLEAN
      /\ feed \in Nat \ {0} /\ inctl.rst \in BOOLEAN
  BY OutTypes DEF OutTypeOK
<1>2. CASE inctl.rst
  <2>1. txf' = [txf EXCEPT !.occ = 0, !.wbusy = TRUE, !.asked = TRUE] /\ feed' = feed
    BY <1>2 DEF OutAclk
  <2>2. /\ txf' \in Fifos /\ txf'.seen = txf.seen /\ txf'.rbusy = txf.rbusy
        /\ txf'.q = txf.q /\ txf'.wbusy = TRUE /\ txf'.asked = TRUE
    BY <1>1, <2>1 DEF Fifos
  <2> QED
    BY <1>1, <1>2, <2>1, <2>2 DEF WaitMoves
<1>3. CASE ~inctl.rst
  <2>1. PICK occ \in IF txf.wbusy THEN {0} ELSE Len(txf.q) .. txf.occ :
          \/ /\ \E asked \in {txf.asked, txf.asked /\ ~txf.rbusy},
                   wbusy \in {txf.wbusy, txf.wbusy /\ (txf.asked \/ txf.rbusy)} :
                   txf' = [txf EXCEPT !.occ = occ, !.asked = asked, !.wbusy = wbusy]
             /\ UNCHANGED feed
          \/ /\ awake /\ ~txf.wbusy /\ txf.occ < TxDepth /\ feed < MaxOut
             /\ txf' = [txf EXCEPT !.q = Append(@, feed), !.occ = occ + 1]
             /\ feed' = feed + 1
    BY <1>3 DEF OutAclk
  <2>2. occ \in Nat
    BY <1>1, <2>1
  <2>3. CASE /\ awake /\ ~txf.wbusy
             /\ txf' = [txf EXCEPT !.q = Append(@, feed), !.occ = occ + 1] /\ feed' = feed + 1
    <3>1. Append(txf.q, feed) \in Seq(Nat) /\ occ + 1 \in Nat /\ feed + 1 \in Nat \ {0}
      BY <1>1, <2>2
    <3>2. /\ txf' \in Fifos /\ txf'.seen = txf.seen /\ txf'.rbusy = txf.rbusy
          /\ txf'.q = Append(txf.q, feed) /\ txf'.wbusy = txf.wbusy /\ txf'.asked = txf.asked
      BY <1>1, <2>3, <3>1 DEF Fifos
    <3> QED
      BY <1>3, <2>3, <3>1, <3>2 DEF WriteMoves
  <2>4. ASSUME NEW asked \in {txf.asked, txf.asked /\ ~txf.rbusy},
               NEW wbusy \in {txf.wbusy, txf.wbusy /\ (txf.asked \/ txf.rbusy)},
               txf' = [txf EXCEPT !.occ = occ, !.asked = asked, !.wbusy = wbusy], feed' = feed
        PROVE  /\ txf' \in Fifos /\ feed' \in Nat \ {0}
               /\ txf'.seen = txf.seen /\ txf'.rbusy = txf.rbusy
               /\ WaitMoves
    <3>1. /\ asked \in BOOLEAN /\ wbusy \in BOOLEAN
          /\ asked => txf.asked
          /\ wbusy => txf.wbusy
          /\ txf.asked /\ ~asked => txf.rbusy
          /\ txf.wbusy /\ ~wbusy => ~txf.asked /\ ~txf.rbusy
      BY <1>1, <2>4, Zenon
    <3>2. /\ txf' \in Fifos /\ txf'.seen = txf.seen /\ txf'.rbusy = txf.rbusy
          /\ txf'.q = txf.q /\ txf'.wbusy = wbusy /\ txf'.asked = asked
      BY <1>1, <2>2, <2>4, <3>1 DEF Fifos
    <3>3. WaitMoves
      BY <1>3, <2>4, <3>1, <3>2, Zenon DEF WaitMoves
    <3> QED
      BY <1>1, <2>4, <3>2, <3>3
  <2> QED
    BY <2>1, <2>3, <2>4
<1> QED
  BY <1>1, <1>2, <1>3

\* An edge of the bus clock keeps the invariant of the way out.
LEMMA OutAclkPreserves ==
  ASSUME OutInv, OutAclk
  PROVE  OutInv'
<1>1. /\ OutTypeOK /\ LineFollows /\ UndersCounted /\ FifoFollows /\ ResetEmpties
      /\ SkipsDrained /\ SessionFresh /\ CrossTypeOK
  BY DEF OutInv, OutTypeOK
<1>2. CrossAclk /\ UNCHANGED <<ser, sent, outlog>>
  BY DEF OutAclk
<1>3. /\ CrossTypeOK' /\ rate' = 0 /\ cross' = cross
      /\ pulse'.level = pulse.level /\ pulse'.old = pulse.old /\ pulse'.sync[1] = pulse.level
      /\ inctl'.en = inctl.en /\ inctl'.rst = inctl.rst /\ inctl'.next = inctl.next
      /\ Shown(pulse') = Shown(pulse)
  BY <1>1, <1>2, AclkCounts
<1>4. /\ txf' \in Fifos /\ feed' \in Nat \ {0}
      /\ txf'.seen = txf.seen /\ txf'.rbusy = txf.rbusy
      /\ WriteMoves \/ WaitMoves
  BY <1>1, OutAclkIs
<1>5. /\ txf.q \in Seq(Nat) /\ Len(txf.q) \in Nat /\ feed \in Nat \ {0} /\ NextOut \in Int /\ txf.seen \in Nat
      /\ outlog.first \in Nat /\ outlog.started \in Nat
      /\ NextOut = feed - Len(txf.q) /\ NextOut' = feed' - Len(txf'.q)
  BY <1>1, OutTypes DEF NextOut
<1>6. WriteMoves => /\ Len(txf'.q) = Len(txf.q) + 1 /\ txf'.q # <<>>
                    /\ \A k \in 1 .. Len(txf.q) : txf'.q[k] = txf.q[k]
                    /\ txf'.q[Len(txf'.q)] = feed
  <2> SUFFICES ASSUME WriteMoves
               PROVE  /\ Len(txf'.q) = Len(txf.q) + 1 /\ txf'.q # <<>>
                      /\ \A k \in 1 .. Len(txf.q) : txf'.q[k] = txf.q[k]
                      /\ txf'.q[Len(txf'.q)] = feed
    OBVIOUS
  <2>1. PICK s \in Seq(Nat), x \in Nat : s = txf.q /\ x = feed
    BY <1>5
  <2>2. txf'.q = Append(s, x)
    BY <2>1 DEF WriteMoves
  <2>3. /\ Len(Append(s, x)) = Len(s) + 1 /\ Append(s, x) # <<>>
        /\ \A k \in 1 .. Len(s) : Append(s, x)[k] = s[k]
        /\ Append(s, x)[Len(s) + 1] = x
    BY <2>1
  <2> QED
    BY <2>1, <2>2, <2>3
<1>7. NextOut' = NextOut
  <2>1. CASE WriteMoves
    <3>1. feed' = feed + 1 /\ Len(txf'.q) = Len(txf.q) + 1
      BY <1>6, <2>1 DEF WriteMoves
    <3> QED
      BY <1>5, <3>1
  <2>2. CASE WaitMoves
    <3>1. feed' = feed /\ txf'.q = txf.q
      BY <2>2 DEF WaitMoves
    <3> QED
      BY <1>5, <3>1
  <2> QED
    BY <1>4, <2>1, <2>2
<1>8. OutTypeOK' /\ LineFollows'
  BY <1>1, <1>2, <1>3, <1>4 DEF OutTypeOK, LineFollows
<1>9. UndersCounted'
  <2>1. PulseWaits(ser.under)'
    BY <1>2, <1>3 DEF PulseWaits
  <2> QED
    BY <1>1, <1>2, <1>3, <2>1 DEF UndersCounted
<1>10. FifoFollows'
  <2>1. /\ \A k \in 1 .. Len(txf.q) : txf.q[k] = (NextOut + k) - 1
        /\ NextOut >= 1 /\ txf.seen <= Len(txf.q)
        /\ outlog.started < NextOut /\ outlog.first <= feed
    BY <1>1 DEF FifoFollows
  <2>2. CASE WriteMoves
    <3>1. feed' = feed + 1
      BY <2>2 DEF WriteMoves
    <3>2. ASSUME NEW k \in 1 .. Len(txf'.q)
          PROVE  txf'.q[k] = (NextOut' + k) - 1
      <4>1. CASE k = Len(txf'.q)
        BY <1>5, <1>6, <1>7, <2>2, <4>1
      <4>2. CASE k # Len(txf'.q)
        <5>1. k \in 1 .. Len(txf.q)
          BY <1>5, <1>6, <2>2, <4>2
        <5> QED
          BY <1>6, <1>7, <2>1, <2>2, <5>1
      <4> QED
        BY <4>1, <4>2
    <3>3. outlog'.first <= feed' /\ txf'.seen <= Len(txf'.q)
      BY <1>2, <1>4, <1>5, <1>6, <2>1, <2>2, <3>1
    <3> QED
      BY <1>2, <1>7, <2>1, <3>2, <3>3 DEF FifoFollows
  <2>3. CASE WaitMoves
    <3>1. feed' = feed /\ txf'.q = txf.q
      BY <2>3 DEF WaitMoves
    <3> QED
      BY <1>2, <1>4, <1>7, <2>1, <3>1 DEF FifoFollows
  <2> QED
    BY <1>4, <2>2, <2>3
<1>11. ResetEmpties'
  <2>1. inctl'.edge = TRUE /\ awake' \in IF inctl.rst THEN {FALSE} ELSE IF inctl.en THEN {TRUE} ELSE {FALSE, awake}
    <3>1. inctl \in Controls
      BY <1>1 DEF CrossTypeOK
    <3> QED
      BY <1>2, <3>1 DEF CrossAclk, Controls
  <2>2. inctl.rst \in BOOLEAN /\ inctl.en \in BOOLEAN /\ awake \in BOOLEAN /\ inctl.edge \in BOOLEAN
        /\ txf.wbusy \in BOOLEAN /\ txf.asked \in BOOLEAN /\ txf.rbusy \in BOOLEAN
    BY <1>1, OutTypes
  <2>3. /\ txf.asked => txf.wbusy
        /\ txf.rbusy => txf.wbusy /\ txf.q = <<>>
        /\ inctl.next = "opened" => inctl.rst
        /\ inctl.next # "opened" => ~inctl.rst
        /\ inctl.next = "enable" => ~inctl.en /\ ~awake /\ (txf.asked \/ txf.q = <<>>)
        /\ inctl.next \in {"open", "release"} /\ txf.wbusy => feed = outlog.first
    BY <1>1 DEF ResetEmpties
  <2>4. inctl.next = "opened" => ~awake'
    BY <2>1, <2>3, Zenon
  <2>5. inctl.next = "enable" => ~awake'
    BY <2>1, <2>3, Zenon
  <2>6. CASE WriteMoves
    <3>1. /\ awake /\ ~txf.wbusy /\ ~inctl.rst
          /\ txf'.wbusy = txf.wbusy /\ txf'.asked = txf.asked
      BY <2>6 DEF WriteMoves
    <3> QED
      BY <1>2, <1>3, <1>4, <2>3, <3>1 DEF ResetEmpties
  <2>7. CASE WaitMoves
    <3>1. /\ txf'.q = txf.q /\ feed' = feed
          /\ txf'.wbusy => txf.wbusy \/ inctl.rst
          /\ txf'.asked => txf.asked \/ inctl.rst
          /\ inctl.rst => txf'.wbusy /\ txf'.asked
          /\ txf.asked /\ ~txf'.asked => txf.rbusy
          /\ txf.wbusy /\ ~txf'.wbusy => ~txf.asked /\ ~txf.rbusy
      BY <2>7 DEF WaitMoves
    <3>2. txf'.asked => txf'.wbusy
      BY <2>2, <2>3, <3>1
    <3>3. txf'.rbusy => txf'.wbusy /\ txf'.q = <<>>
      BY <1>4, <2>3, <3>1
    <3>4. inctl'.next = "opened" => inctl'.rst /\ (inctl'.edge => txf'.asked /\ ~awake')
      BY <1>3, <2>3, <2>4, <3>1
    <3>5. inctl'.next = "enable" => ~inctl'.en /\ ~awake' /\ (txf'.asked \/ txf'.q = <<>>)
      BY <1>3, <2>3, <2>5, <3>1
    <3>6. inctl'.next \in {"open", "release"} /\ txf'.wbusy => feed' = outlog'.first
      BY <1>2, <1>3, <2>3, <3>1
    <3> QED
      BY <1>3, <2>3, <3>2, <3>3, <3>4, <3>5, <3>6 DEF ResetEmpties
  <2> QED
    BY <1>4, <2>6, <2>7
<1>12. Unsent' = Unsent
  <2>1. Behind' = Behind
    BY <1>2 DEF Behind
  <2> QED
    BY <1>7, <2>1 DEF Unsent
<1>13. SkipsDrained'
  <2>1. CASE WriteMoves
    <3>1. inctl.next \in {"open", "release"}
      <4>1. inctl.next \in {"open", "opened", "enable", "release"}
        BY <1>1 DEF CrossTypeOK, Controls
      <4>2. awake /\ ~inctl.rst
        BY <2>1 DEF WriteMoves
      <4> QED
        BY <1>1, <4>1, <4>2 DEF ResetEmpties
    <3> QED
      BY <1>1, <1>2, <1>12, <3>1 DEF SkipsDrained
  <2>2. CASE WaitMoves
    <3>1. txf'.q = txf.q
      BY <2>2 DEF WaitMoves
    <3> QED
      BY <1>1, <1>2, <1>3, <1>12, <3>1 DEF SkipsDrained
  <2> QED
    BY <1>4, <2>1, <2>2
<1>14. SessionFresh'
  <2>1. inctl.next = "release" /\ ~txf.wbusy => ~txf'.wbusy
    BY <1>1, <1>4 DEF ResetEmpties, WriteMoves, WaitMoves
  <2> QED
    BY <1>1, <1>2, <1>3, <1>7, <2>1 DEF SessionFresh
<1> QED
  BY <1>8, <1>9, <1>10, <1>11, <1>13, <1>14 DEF OutInv

\* So does each call of the driver.
LEMMA OutDriverPreserves ==
  ASSUME OutInv, OutDriver
  PROVE  OutInv'
<1>1. /\ OutTypeOK /\ LineFollows /\ UndersCounted /\ FifoFollows /\ ResetEmpties
      /\ SkipsDrained /\ SessionFresh /\ CrossTypeOK
  BY DEF OutInv, OutTypeOK
<1>2. UNCHANGED <<cross, pulse, awake, rate, txf, feed, ser, sent>>
  BY DEF OutDriver
<1>3. /\ feed \in Nat \ {0} /\ NextOut \in Int /\ Len(txf.q) \in Nat /\ NextOut = feed - Len(txf.q)
      /\ outlog \in OutLogs /\ outlog.first \in Nat /\ outlog.started \in Nat /\ outlog.skipped \in Int
      /\ outlog.drained \in Nat
      /\ ser.lat \in Nat /\ txf.wbusy \in BOOLEAN
  BY <1>1, OutTypes DEF OutTypeOK, NextOut
<1>4. NextOut' = NextOut
  BY <1>2 DEF NextOut
<1>5. CASE DriverOpens /\ UNCHANGED outlog
  <2>1. /\ CrossTypeOK' /\ inctl'.en = FALSE /\ inctl'.rst = TRUE /\ inctl'.next = "opened"
        /\ inctl'.edge = FALSE
    BY <1>1, <1>2, <1>5, RegisterIs DEF DriverOpens, RegisterWrite
  <2>2. OutTypeOK' /\ LineFollows'
    BY <1>1, <1>2, <1>5, <2>1 DEF OutTypeOK, LineFollows
  <2>3. UndersCounted' /\ FifoFollows'
    BY <1>1, <1>2, <1>4, <1>5, <2>1 DEF UndersCounted, FifoFollows, PulseWaits
  <2>4. ResetEmpties'
    BY <1>1, <1>2, <2>1 DEF ResetEmpties
  <2>5. Unsent' = Unsent
    BY <1>4, <1>5 DEF Unsent, Behind
  <2>6. inctl.next = "open"
    BY <1>5 DEF DriverOpens, RegisterWrite
  <2>7. SkipsDrained' /\ SessionFresh'
    BY <1>1, <1>2, <1>5, <2>1, <2>5, <2>6 DEF SkipsDrained, SessionFresh
  <2> QED
    BY <2>2, <2>3, <2>4, <2>7 DEF OutInv
<1>6. CASE DriverOpened /\ UNCHANGED outlog
  <2>1. /\ CrossTypeOK' /\ inctl.next = "opened" /\ inctl'.en = FALSE /\ inctl'.rst = FALSE
        /\ inctl'.next = "enable" /\ inctl.edge
    BY <1>1, <1>2, <1>6, RegisterIs DEF DriverOpened, RegisterWrite
  <2>2. OutTypeOK' /\ LineFollows'
    BY <1>1, <1>2, <1>6, <2>1 DEF OutTypeOK, LineFollows
  <2>3. UndersCounted' /\ FifoFollows'
    BY <1>1, <1>2, <1>4, <1>6, <2>1 DEF UndersCounted, FifoFollows, PulseWaits
  <2>4. ResetEmpties'
    BY <1>1, <1>2, <2>1 DEF ResetEmpties
  <2>5. Unsent' = Unsent
    BY <1>4, <1>6 DEF Unsent, Behind
  <2>6. SkipsDrained' /\ SessionFresh'
    BY <1>1, <1>2, <1>6, <2>1, <2>5 DEF SkipsDrained, SessionFresh
  <2> QED
    BY <2>2, <2>3, <2>4, <2>6 DEF OutInv
<1>7. CASE /\ DriverEnables(TRUE)
           /\ outlog' = [outlog EXCEPT !.first = feed, !.hit = ser.lat = 0 /\ ~txf.wbusy]
  <2>1. /\ CrossTypeOK' /\ inctl.next = "enable" /\ inctl'.en = TRUE /\ inctl'.rst = FALSE
        /\ inctl'.next = "release"
    BY <1>1, <1>2, <1>7, RegisterIs DEF DriverEnables
  <2>2. /\ outlog' \in OutLogs /\ outlog'.unders = outlog.unders /\ outlog'.resets = outlog.resets
        /\ outlog'.off = outlog.off /\ outlog'.started = outlog.started
        /\ outlog'.skipped = outlog.skipped /\ outlog'.drained = outlog.drained
        /\ outlog'.first = feed /\ outlog'.hit = (ser.lat = 0 /\ ~txf.wbusy)
    <3>1. PICK h \in BOOLEAN : h = (ser.lat = 0 /\ ~txf.wbusy)
      BY <1>3
    <3>2. outlog' = [outlog EXCEPT !.first = feed, !.hit = h]
      BY <1>7, <3>1
    <3> QED
      BY <1>3, <3>1, <3>2 DEF OutLogs
  <2>3. OutTypeOK' /\ LineFollows'
    BY <1>1, <1>2, <2>1, <2>2 DEF OutTypeOK, LineFollows
  <2>4. UndersCounted'
    BY <1>1, <1>2, <2>1, <2>2 DEF UndersCounted, PulseWaits
  <2>5. FifoFollows'
    BY <1>1, <1>2, <1>3, <1>4, <2>2 DEF FifoFollows
  <2>6. ResetEmpties'
    BY <1>1, <1>2, <2>1, <2>2 DEF ResetEmpties
  <2>7. SkipsDrained'
    <3>1. outlog.started < NextOut
      BY <1>1 DEF FifoFollows
    <3>2. PICK b \in Int : b = Behind' /\ b >= feed - 1
      <4>1. Behind' = IF outlog.started < feed THEN feed - 1 ELSE outlog.started
        BY <2>2 DEF Behind
      <4> QED
        BY <1>3, <4>1
    <3>3. NextOut > b => (NextOut - b) - 1 = 0
      BY <1>3, <3>2
    <3>4. Unsent' = 0
      BY <1>4, <3>2, <3>3 DEF Unsent
    <3> QED
      BY <1>1, <1>3, <2>2, <3>4 DEF SkipsDrained
  <2>8. SessionFresh'
    <3>1. ASSUME ser.lat = 0, ~txf.wbusy
          PROVE  NextOut' >= feed
      <4>1. txf.q = <<>>
        BY <1>1, <2>1, <3>1 DEF ResetEmpties
      <4>2. Len(txf.q) = 0
        BY <4>1
      <4> QED
        BY <1>3, <1>4, <4>2
    <3> QED
      BY <1>2, <2>2, <3>1 DEF SessionFresh
  <2> QED
    BY <2>3, <2>4, <2>5, <2>6, <2>7, <2>8 DEF OutInv
<1>8. CASE DriverReleases /\ UNCHANGED outlog
  <2>1. /\ CrossTypeOK' /\ inctl.next = "release" /\ inctl'.en = FALSE /\ inctl'.rst = FALSE
        /\ inctl'.next = "open"
    BY <1>1, <1>2, <1>8, RegisterIs DEF DriverReleases
  <2>2. OutTypeOK' /\ LineFollows'
    BY <1>1, <1>2, <1>8, <2>1 DEF OutTypeOK, LineFollows
  <2>3. UndersCounted' /\ FifoFollows'
    BY <1>1, <1>2, <1>4, <1>8, <2>1 DEF UndersCounted, FifoFollows, PulseWaits
  <2>4. ResetEmpties'
    BY <1>1, <1>2, <1>8, <2>1 DEF ResetEmpties
  <2>5. Unsent' = Unsent
    BY <1>4, <1>8 DEF Unsent, Behind
  <2>6. SkipsDrained' /\ SessionFresh'
    BY <1>1, <1>2, <1>8, <2>1, <2>5 DEF SkipsDrained, SessionFresh
  <2> QED
    BY <2>2, <2>3, <2>4, <2>6 DEF OutInv
<1> QED
  BY <1>5, <1>6, <1>7, <1>8 DEF OutDriver

\* The invariant of the way out holds at the start,
LEMMA OutInitEstablishes ==
  ASSUME SampleOutInit
  PROVE  OutInv
<1>1. /\ CrossTypeOK /\ Shown(pulse) = 0 /\ \A x \in BOOLEAN : PulseWaits(x)
  BY CrossStarts DEF SampleOutInit
<1>2. /\ txf = [q |-> <<>>, occ |-> 0, seen |-> 0, wbusy |-> FALSE, asked |-> FALSE, rbusy |-> FALSE]
      /\ feed = 1
      /\ ser \in [flag : BOOLEAN, lat : {0}, under : {FALSE}]
      /\ sent = <<0, 0>>
      /\ outlog = [edges |-> 0, unders |-> 0, resets |-> 0, off |-> 0, started |-> 0,
                   skipped |-> 0, drained |-> 0, first |-> 1, hit |-> TRUE]
      /\ inctl.en = FALSE /\ inctl.rst = FALSE /\ inctl.next = "open"
      /\ cross = [en |-> All(FALSE), rst |-> All(FALSE)] /\ pulse.old = FALSE
  BY DEF SampleOutInit, CrossInit
<1>3. ser.lat = 0 /\ ser.under = FALSE /\ sent[1] = 0 /\ sent[2] = 0
  BY <1>2
<1>4. Len(txf.q) = 0 /\ NextOut = 1 /\ 1 .. 0 = {}
  <2>1. Len(txf.q) = 0
    BY <1>2
  <2> QED
    BY <1>2, <2>1 DEF NextOut
<1>5. OutTypeOK
  <2>1. txf \in Fifos
    BY <1>2 DEF Fifos
  <2>2. ser \in [flag : BOOLEAN, lat : Nat, under : BOOLEAN]
    <3>1. PICK f \in BOOLEAN : ser = [flag |-> f, lat |-> 0, under |-> FALSE]
      BY <1>2
    <3> QED
      BY <3>1
  <2>3. outlog \in OutLogs
    BY <1>2 DEF OutLogs
  <2>4. sent \in Nat \X Nat
    BY <1>2
  <2> QED
    BY <1>1, <1>2, <2>1, <2>2, <2>3, <2>4 DEF OutTypeOK
<1>6. LineFollows
  BY <1>2, <1>3 DEF LineFollows
<1>7. UndersCounted
  <2>1. \A k \in Stages : ~(cross.en[k] /\ cross.rst[k])
    BY <1>2 DEF All, Stages
  <2>2. PulseWaits(ser.under)
    BY <1>1, <1>3
  <2>3. One(ser.under) = 0 /\ outlog.unders = 0 /\ outlog.resets = 0
    BY <1>2, <1>3 DEF One
  <2>4. /\ outlog.unders - outlog.resets <= Shown(pulse) + One(ser.under)
        /\ Shown(pulse) + One(ser.under) <= outlog.unders + outlog.resets
    BY <1>1, <2>3
  <2>5. ~ser.under /\ ~pulse.old /\ ~(inctl.en /\ inctl.rst)
    BY <1>2, <1>3
  <2> QED
    BY <2>1, <2>2, <2>4, <2>5 DEF UndersCounted
<1>8. FifoFollows
  BY <1>2, <1>4 DEF FifoFollows
<1>9. ResetEmpties
  BY <1>2 DEF ResetEmpties
<1>10. SkipsDrained
  <2>1. Behind = 0
    BY <1>2 DEF Behind
  <2>2. Unsent = 0
    BY <1>4, <2>1 DEF Unsent
  <2> QED
    BY <1>2, <2>2 DEF SkipsDrained
<1>11. SessionFresh
  BY <1>2 DEF SessionFresh
<1> QED
  BY <1>5, <1>6, <1>7, <1>8, <1>9, <1>10, <1>11 DEF OutInv

\* and while the others move,
LEMMA OutStutters ==
  ASSUME OutInv, UNCHANGED <<crossvars, outown>>
  PROVE  OutInv'
<1>1. UNCHANGED <<inctl, cross, pulse, awake, rate, txf, feed, ser, sent, outlog>>
  BY DEF crossvars, outown
<1>2. NextOut' = NextOut /\ Behind' = Behind
  BY <1>1 DEF NextOut, Behind
<1>3. Unsent' = Unsent
  BY <1>2 DEF Unsent
<1>4. OutTypeOK' /\ LineFollows' /\ UndersCounted'
  BY <1>1 DEF OutInv, OutTypeOK, CrossTypeOK, LineFollows, UndersCounted, PulseWaits
<1>5. FifoFollows' /\ ResetEmpties'
  BY <1>1, <1>2 DEF OutInv, FifoFollows, ResetEmpties
<1>6. SkipsDrained' /\ SessionFresh'
  BY <1>1, <1>2, <1>3 DEF OutInv, SkipsDrained, SessionFresh
<1> QED
  BY <1>4, <1>5, <1>6 DEF OutInv

\* and after each step,
LEMMA OutPreserves ==
  ASSUME OutInv, [SampleOutNext]_<<crossvars, outown>>
  PROVE  OutInv'
<1>1. CASE OutEdge
  BY <1>1, OutEdgePreserves
<1>2. CASE OutAclk
  BY <1>2, OutAclkPreserves
<1>3. CASE OutDriver
  BY <1>3, OutDriverPreserves
<1>4. CASE UNCHANGED <<crossvars, outown>>
  BY <1>4, OutStutters
<1> QED
  BY <1>1, <1>2, <1>3, <1>4 DEF SampleOutNext

\* and it says what is promised of the samples.
LEMMA OutInvShows ==
  ASSUME OutInv
  PROVE  SamplesOutIntact
<1>1. /\ OutTypeOK /\ LineFollows /\ UndersCounted /\ FifoFollows /\ SkipsDrained /\ SessionFresh
  BY DEF OutInv
<1>2. /\ sent = <<sent[1], sent[2]>> /\ outlog.off \in Nat /\ sent[1] \in Nat /\ outlog.first \in Nat
      /\ outlog.skipped \in Int /\ outlog.drained \in Nat
  BY <1>1, OutTypes
<1>3. OutWhole
  BY <1>1 DEF OutWhole, LineFollows, SkipsDrained
<1>4. OutSilent
  <2>1. outlog.off > 2 => sent[1] = 0 /\ sent[2] = 0
    BY <1>1, <1>2 DEF LineFollows
  <2> QED
    BY <1>2, <2>1 DEF OutSilent
<1>5. RepeatsCounted
  BY <1>1 DEF UndersCounted, RepeatsCounted, Counted, Shown
<1>6. OutFresh
  BY <1>1, <1>2 DEF LineFollows, SessionFresh, OutFresh
<1> QED
  BY <1>3, <1>4, <1>5, <1>6 DEF SamplesOutIntact
-----------------------------------------------------------------------------
(* The theorems. *)

\* The way in by itself, for every depth of the FIFO and of the synchronizers: the
\* invariant of its two clocks and of the driver.
THEOREM InInvariance == SampleInSpec => []InInv
<1> QED
  BY InInitEstablishes, InPreserves, PTL DEF SampleInSpec

\* What leaves the chip reaches the write master whole, in order and of this session, and
\* what is missing is counted.
THEOREM SamplesArrive == SampleInSpec => []SamplesInIntact
<1> QED
  BY InInvariance, InInvShows, PTL

\* The way out by itself: the invariant of its two clocks and of the driver.
THEOREM OutInvariance == SampleOutSpec => []OutInv
<1> QED
  BY OutInitEstablishes, OutPreserves, PTL DEF SampleOutSpec

\* What the read master stores reaches the chip whole and in order, a disabled transmitter
\* sends zeros, and every repeat is counted.
THEOREM SamplesLeave == SampleOutSpec => []SamplesOutIntact
<1> QED
  BY OutInvariance, OutInvShows, PTL

\* Either way, where it is the one that moves.
WaysInv == /\ owner = "in" => InInv
           /\ owner = "out" => OutInv

\* Each part keeps its own invariant, and touches no other's.
LEMMA WaysPreserve ==
  ASSUME WaysInv, [StreamsNext]_streams
  PROVE  WaysInv'
<1>1. owner' = owner
  BY DEF StreamsNext, streams
<1>2. ASSUME owner = "in"
      PROVE  InInv'
  <2>1. [SampleInNext]_<<crossvars, inown>>
    BY <1>2 DEF StreamsNext, streams
  <2> QED
    BY <1>2, <2>1, InPreserves DEF WaysInv
<1>3. ASSUME owner = "out"
      PROVE  OutInv'
  <2>1. [SampleOutNext]_<<crossvars, outown>>
    BY <1>3 DEF StreamsNext, streams
  <2> QED
    BY <1>3, <2>1, OutPreserves DEF WaysInv
<1> QED
  BY <1>1, <1>2, <1>3 DEF WaysInv

\* Both ways through the FPGA keep every sample whole, in order and of its session, and
\* count what they lose, whatever the depths, the rates and the number of openings.
THEOREM BothWaysWhole == StreamsSpec => []SamplesWhole
<1>1. StreamsInit => WaysInv
  BY InInitEstablishes, OutInitEstablishes DEF StreamsInit, WaysInv
<1>2. WaysInv => SamplesWhole
  BY InInvShows, OutInvShows DEF WaysInv, SamplesWhole
<1> QED
  BY <1>1, <1>2, WaysPreserve, PTL DEF StreamsSpec
=============================================================================
