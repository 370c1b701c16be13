----------------------------- MODULE MediaProofs -----------------------------
(***************************************************************************)
(* The loss accounting of RtpStats, for every size of the number space,     *)
(* every reporting period and every order in which packets arrive; and the  *)
(* subscriptions and offers of one subscriber (Subscriptions, Negotiation), *)
(* for every set of tracks: offers take turns, no track is missed, and the  *)
(* maps name senders of the peer connection only.                           *)
(***************************************************************************)
EXTENDS Subscriptions, RtpStats, FiniteSetTheorems, TLAPS

-----------------------------------------------------------------------------
(* RtpStats *)

\* Before the first packet nothing is counted; a report never runs ahead of the
\* statistics.
StatsInv ==
    /\ StatsTypeOK
    /\ maxSeq = NoSeq =>
          stats = [packets |-> 0, expected |-> 0, lost |-> 0, outOfOrder |-> 0]
    /\ LossAddsUp
    /\ TotalsAddUp
    /\ reported.outOfOrder <= stats.outOfOrder

-----------------------------------------------------------------------------

\* Of a round of the forwarding loop only this matters to the sums: how the
\* statistics move, and that skipped grows with lost.
StatsMove(s, new) ==
    /\ new \in [packets : Nat, expected : Nat, lost : Nat, outOfOrder : Nat]
    /\ s.outOfOrder <= new.outOfOrder
    /\ new.packets + new.lost <= new.expected
    /\ new.outOfOrder <= new.packets
    /\ skipped' \in Nat
    /\ skipped <= skipped'
    /\ new.lost <= s.lost + (skipped' - skipped)

\* A difference of sequence numbers is a number.
LEMMA GapIsInt ==
    ASSUME NEW x \in Int, NEW y \in Int
    PROVE  (x - y) % SeqMod \in Nat
  BY StatsAssumption

\* Each branch of observe is such a move, and sets the high-water mark to the
\* packet or leaves it where it is.
LEMMA ObserveMoves ==
    ASSUME StatsInv, NEW seq \in Int, Observe(seq)
    PROVE  StatsMove(stats, stats') /\ maxSeq' \in Int
  <1> USE DEF StatsInv, StatsTypeOK, LossAddsUp
  <1>1. CASE /\ maxSeq = NoSeq
             /\ stats' = FirstPacket
             /\ maxSeq' = seq
             /\ UNCHANGED skipped
    BY <1>1, StatsAssumption DEF FirstPacket, StatsMove
  <1>2. CASE /\ maxSeq # NoSeq
             /\ stats' = LatePacket
             /\ UNCHANGED <<maxSeq, skipped>>
    BY <1>2 DEF LatePacket, StatsMove
  <1>3. ASSUME NEW gap \in Nat, gap > 0, maxSeq # NoSeq,
               stats' = PacketAhead(gap), maxSeq' = seq,
               skipped' = skipped + (gap - 1)
        PROVE  StatsMove(stats, stats') /\ maxSeq' \in Int
    BY <1>3 DEF PacketAhead, StatsMove
  <1>4. CASE /\ maxSeq # NoSeq
             /\ stats' = DuplicatePacket
             /\ UNCHANGED <<maxSeq, skipped>>
    BY <1>4 DEF DuplicatePacket, StatsMove
  <1>5. maxSeq # NoSeq => (seq - maxSeq) % SeqMod \in Nat
    BY Zenon, GapIsInt
  <1>6. QED
    BY <1>1, <1>2, <1>3, <1>4, <1>5 DEF Observe

\* A move without a report keeps the totals in step.
LEMMA MoveKeeps ==
    ASSUME StatsInv, StatsMove(stats, stats'), maxSeq' \in Int,
           arrived' \in SUBSET Positions, jumped' \in BOOLEAN,
           UNCHANGED <<reported, totals>>
    PROVE  StatsInv'
  <1> USE DEF StatsInv, StatsTypeOK, StatsMove
  <1>1. LossAddsUp'
    BY DEF LossAddsUp
  <1>2. TotalsAddUp'
    BY DEF TotalsAddUp, SaturatingSub
  <1>3. (reported.outOfOrder <= stats.outOfOrder)'
    OBVIOUS
  <1>4. QED
    BY <1>1, <1>2, <1>3, StatsAssumption

\* A report brings the totals up to the statistics.
LEMMA ReportKeeps ==
    ASSUME StatsInv, StatsMove(stats, stats'), maxSeq' \in Int,
           arrived' \in SUBSET Positions, jumped' \in BOOLEAN,
           RecordQuality(stats')
    PROVE  StatsInv'
  <1> USE DEF StatsInv, StatsTypeOK, StatsMove
  <1>1. LossAddsUp'
    BY DEF LossAddsUp
  <1>2. /\ totals' \in [lost : Nat, outOfOrder : Nat]
        /\ reported' \in [lost : Nat, outOfOrder : Nat]
    BY DEF RecordQuality, SaturatingSub
  <1>3. TotalsAddUp'
    BY DEF TotalsAddUp, LossAddsUp, RecordQuality, SaturatingSub
  <1>4. (reported.outOfOrder <= stats.outOfOrder)'
    BY DEF RecordQuality
  <1>5. QED
    BY <1>1, <1>2, <1>3, <1>4, StatsAssumption

-----------------------------------------------------------------------------

LEMMA StatsInvHolds == StatsSpec => []StatsInv
  <1>1. ASSUME StatsInit PROVE StatsInv
    <2>1. jumped \in BOOLEAN
      BY Zenon, <1>1 DEF StatsInit
    <2>2. QED
      BY <1>1, <2>1 DEF StatsInit, StatsInv, StatsTypeOK, LossAddsUp, TotalsAddUp,
         SaturatingSub, NoLoss
  <1>2. StatsInv /\ [StatsNext]_statsVars => StatsInv'
    <2> SUFFICES ASSUME StatsInv, [StatsNext]_statsVars PROVE StatsInv'
      OBVIOUS
    <2>1. ASSUME NEW pos \in Positions, ForwardPacket(pos) PROVE StatsInv'
      <3>1. pos % SeqMod \in Int
        BY StatsAssumption
      <3>2. Observe(pos % SeqMod)
        BY <2>1 DEF ForwardPacket
      <3>3. StatsMove(stats, stats') /\ maxSeq' \in Int
        BY <3>1, <3>2, ObserveMoves
      <3>4. arrived' \in SUBSET Positions /\ jumped' \in BOOLEAN
        BY Zenon, <2>1 DEF ForwardPacket, StatsInv, StatsTypeOK
      <3>5. QED
        BY <2>1, <3>3, <3>4, MoveKeeps, ReportKeeps DEF ForwardPacket
    <2>2. CASE UNCHANGED statsVars
      BY <2>2 DEF statsVars, StatsInv, StatsTypeOK, LossAddsUp, TotalsAddUp
    <2>3. QED
      BY <2>1, <2>2 DEF StatsNext
  <1>3. QED
    BY <1>1, <1>2, PTL DEF StatsSpec

\* Whatever order packets arrive in, received and lost packets are no more than
\* were expected: RtpStats.loss_percent and out_of_order_percent never leave 0
\* to 100, and what observe counts as lost was skipped by the high-water mark.
THEOREM LossAlwaysAddsUp == StatsSpec => []LossAddsUp
  BY StatsInvHolds, PTL DEF StatsInv

\* The counters that record_quality feeds with deltas never fall behind the loss
\* that was last reported and never count a skipped number twice, although the
\* loss goes down when packets come late.
THEOREM TotalsAlwaysAddUp == StatsSpec => []TotalsAddUp
  BY StatsInvHolds, PTL DEF StatsInv

-----------------------------------------------------------------------------
(* RtpStats: what is counted as lost is missing *)

\* A number is its remainder, whatever the quotient.
LEMMA ModUnique ==
    ASSUME NEW x \in Int, NEW k \in Int, NEW r \in 0 .. SeqMod - 1,
           x = SeqMod * k + r
    PROVE  x % SeqMod = r
  <1> DEFINE q == x \div SeqMod
             m == x % SeqMod
             d == k - q
  <1>1. SeqMod \in Int /\ SeqMod > 0
    BY StatsAssumption
  <1>2. q \in Int /\ m \in 0 .. SeqMod - 1 /\ x = SeqMod * q + m
    BY <1>1
  <1> HIDE DEF q, m
  <1>3. d \in Int /\ SeqMod * d = m - r
    BY <1>1, <1>2
  <1> HIDE DEF d
  <1>4. d >= 1 => SeqMod * d >= SeqMod
    BY <1>1, <1>3
  <1>5. d <= -1 => SeqMod * d <= -SeqMod
    BY <1>1, <1>3
  <1>6. -SeqMod < m - r /\ m - r < SeqMod
    BY <1>1, <1>2
  <1>7. d = 0
    BY <1>1, <1>2, <1>3, <1>4, <1>5, <1>6
  <1>8. SeqMod * d = 0
    BY <1>1, <1>7
  <1>9. QED
    BY <1>1, <1>2, <1>3, <1>8 DEF m

\* The wrapping difference of two sequence numbers is the difference of the
\* positions, modulo SeqMod.
LEMMA WrappingSub ==
    ASSUME NEW a \in Int, NEW b \in Int, NEW k \in Int, NEW r \in 0 .. SeqMod - 1,
           a - b = SeqMod * k + r
    PROVE  ((a % SeqMod) - (b % SeqMod)) % SeqMod = r
  <1> DEFINE qa == a \div SeqMod
             qb == b \div SeqMod
             ma == a % SeqMod
             mb == b % SeqMod
             n == (k - qa) + qb
  <1>1. SeqMod \in Int /\ SeqMod > 0
    BY StatsAssumption
  <1>2. /\ qa \in Int /\ ma \in Int /\ a = SeqMod * qa + ma
        /\ qb \in Int /\ mb \in Int /\ b = SeqMod * qb + mb
    BY <1>1
  <1> HIDE DEF qa, qb, ma, mb
  <1>3. n \in Int /\ SeqMod * n = (SeqMod * k - SeqMod * qa) + SeqMod * qb
    BY <1>1, <1>2
  <1> HIDE DEF n
  <1>4. ma - mb \in Int /\ ma - mb = SeqMod * n + r
    BY <1>1, <1>2, <1>3
  <1>5. (ma - mb) % SeqMod = r
    BY <1>3, <1>4, ModUnique
  <1>6. QED
    BY <1>5 DEF ma, mb

\* The missing positions of a stretch of the stream.
Missing(lo, hi, got) == (lo .. hi) \ got

\* Until the stream jumps, the high-water mark is the highest position that arrived,
\* and what counts as lost is missing.
HighWater ==
    /\ maxSeq = NoSeq <=> arrived = {}
    /\ ~jumped /\ arrived # {} =>
          \E lo, hi \in arrived :
              /\ \A q \in arrived : lo <= q /\ q <= hi
              /\ maxSeq = hi % SeqMod
              /\ stats.lost <= Cardinality(Missing(lo, hi, arrived))

\* The stretch is finite.
LEMMA MissingFinite ==
    ASSUME NEW lo \in Int, NEW hi \in Int, NEW got
    PROVE  /\ IsFiniteSet(Missing(lo, hi, got))
           /\ Cardinality(Missing(lo, hi, got)) \in Nat
  <1>1. IsFiniteSet(lo .. hi)
    BY FS_Interval
  <1>2. IsFiniteSet(Missing(lo, hi, got))
    BY Zenon, <1>1, FS_Difference DEF Missing
  <1>3. QED
    BY <1>2, FS_CardinalityType

\* A packet ahead of all others leaves the positions it jumped over missing.
LEMMA MissingAhead ==
    ASSUME NEW lo \in Int, NEW hi \in Int, NEW pos \in Int, NEW got \in SUBSET Int,
           lo <= hi, hi < pos, \A q \in got : q <= hi
    PROVE  Cardinality(Missing(lo, pos, got \cup {pos}))
             = Cardinality(Missing(lo, hi, got)) + (pos - hi - 1)
  <1> DEFINE A == Missing(lo, hi, got)
             B == (hi + 1) .. (pos - 1)
  <1>1. IsFiniteSet(A) /\ Cardinality(A) \in Nat
    BY MissingFinite
  <1>2. hi + 1 \in Int /\ pos - 1 \in Int
    OBVIOUS
  <1>3. IsFiniteSet(B) /\ Cardinality(B) = pos - hi - 1
    BY <1>2, FS_Interval
  <1>4. A \cap B = {}
    BY DEF Missing
  <1>5. Missing(lo, pos, got \cup {pos}) = A \cup B
    BY DEF Missing
  <1> HIDE DEF A, B
  <1>6. Cardinality(A \cup B) = Cardinality(A) + Cardinality(B) - Cardinality(A \cap B)
    BY <1>1, <1>3, FS_Union
  <1>7. Cardinality(A \cap B) = 0
    BY <1>4, FS_EmptySet
  <1>8. Cardinality(A \cup B) = Cardinality(A) + (pos - hi - 1)
    BY <1>1, <1>3, <1>6, <1>7
  <1>9. QED
    BY Zenon, <1>5, <1>8 DEF A

\* A packet behind the highest fills one position at most.
LEMMA MissingBehind ==
    ASSUME NEW lo \in Int, NEW hi \in Int, NEW pos \in Int, NEW got \in SUBSET Int,
           NEW low \in Int, low = lo \/ (low = pos /\ pos < lo)
    PROVE  Cardinality(Missing(low, hi, got \cup {pos}))
             >= Cardinality(Missing(lo, hi, got)) - 1
  <1> DEFINE A == Missing(lo, hi, got)
             B == Missing(low, hi, got \cup {pos})
  <1>1. IsFiniteSet(A) /\ Cardinality(A) \in Nat /\ IsFiniteSet(B)
        /\ Cardinality(B) \in Nat
    BY MissingFinite
  <1>2. A \ {pos} \in SUBSET B
    BY DEF Missing
  <1> HIDE DEF A, B
  <1>3. Cardinality(A \ {pos}) <= Cardinality(B)
    BY <1>1, <1>2, FS_Subset
  <1>4. Cardinality(A \ {pos}) >= Cardinality(A) - 1
    BY <1>1, FS_RemoveElement
  <1>5. Cardinality(A \ {pos}) \in Int
    BY <1>1, FS_RemoveElement
  <1>6. QED
    BY <1>1, <1>3, <1>4, <1>5 DEF A, B

\* observe tells a late packet, one ahead and a copy of the highest apart.
LEMMA Distances ==
    ASSUME NEW hi \in Int, NEW pos \in Int, pos - hi < Half, hi - pos < Half
    PROVE  LET behind == ((hi % SeqMod) - (pos % SeqMod)) % SeqMod
               gap == ((pos % SeqMod) - (hi % SeqMod)) % SeqMod
           IN  /\ pos < hi => behind = hi - pos
               /\ pos = hi => behind = 0 /\ gap = 0
               /\ pos > hi => gap = pos - hi /\ behind >= Half
  <1>1. SeqMod \in Nat /\ SeqMod > 0 /\ Half \in Nat /\ 2 * Half <= SeqMod
    BY StatsAssumption DEF Half
  <1>2. SeqMod * 0 = 0 /\ SeqMod * (-1) = -SeqMod
    BY <1>1
  <1>3. CASE pos < hi
    <2>1. hi - pos \in 0 .. SeqMod - 1 /\ hi - pos = SeqMod * 0 + (hi - pos)
      BY <1>1, <1>2, <1>3
    <2>2. ((hi % SeqMod) - (pos % SeqMod)) % SeqMod = hi - pos
      BY <2>1, WrappingSub
    <2>3. QED
      BY <1>3, <2>2
  <1>4. CASE pos = hi
    <2>1. 0 \in 0 .. SeqMod - 1 /\ hi - hi = SeqMod * 0 + 0
      BY <1>1, <1>2
    <2>2. ((hi % SeqMod) - (hi % SeqMod)) % SeqMod = 0
      BY <2>1, WrappingSub
    <2>3. QED
      BY <1>4, <2>2
  <1>5. CASE pos > hi
    <2>1. pos - hi \in 0 .. SeqMod - 1 /\ pos - hi = SeqMod * 0 + (pos - hi)
      BY <1>1, <1>2, <1>5
    <2>2. ((pos % SeqMod) - (hi % SeqMod)) % SeqMod = pos - hi
      BY <2>1, WrappingSub
    <2>3. /\ SeqMod - (pos - hi) \in 0 .. SeqMod - 1
          /\ hi - pos = SeqMod * (-1) + (SeqMod - (pos - hi))
          /\ SeqMod - (pos - hi) >= Half
      BY <1>1, <1>2, <1>5
    <2>4. ((hi % SeqMod) - (pos % SeqMod)) % SeqMod = SeqMod - (pos - hi)
      BY <2>3, WrappingSub
    <2>5. QED
      BY <1>5, <2>2, <2>3, <2>4
  <1>6. QED
    BY <1>3, <1>4, <1>5

\* A round of the forwarding loop keeps the count of the lost within what is
\* missing.
LEMMA HighWaterStep ==
    ASSUME StatsInv, HighWater, NEW pos \in Positions, ForwardPacket(pos)
    PROVE  HighWater'
  <1> DEFINE seq == pos % SeqMod
             behind == (maxSeq - seq) % SeqMod
             gap == (seq - maxSeq) % SeqMod
             late == behind > 0 /\ behind < Half
             ahead == gap > 0 /\ gap < Half
  <1>1. /\ pos \in Int /\ seq \in Int /\ arrived \in SUBSET Int /\ stats.lost \in Nat
        /\ NoSeq \notin Int /\ Half \in Nat
    BY StatsAssumption DEF StatsInv, StatsTypeOK, Half
  <1>2. arrived' = arrived \cup {pos} /\ Observe(seq) /\ jumped' = (jumped \/ Jumps(pos))
    BY Zenon DEF ForwardPacket
  <1>3. CASE arrived = {}
    <2>1. maxSeq = NoSeq /\ stats.lost = 0
      BY <1>3 DEF HighWater, StatsInv
    <2>2. maxSeq' = seq /\ stats'.lost = 0
      BY <1>2, <2>1 DEF Observe, FirstPacket
    <2>3. arrived' = {pos}
      BY <1>2, <1>3
    <2>4. Cardinality(Missing(pos, pos, {pos})) \in Nat
      BY <1>1, MissingFinite
    <2>5. /\ \A q \in arrived' : pos <= q /\ q <= pos
          /\ stats'.lost <= Cardinality(Missing(pos, pos, arrived'))
      BY <1>1, <2>2, <2>3, <2>4
    <2>6. maxSeq' # NoSeq
      BY <1>1, <2>2
    <2>7. QED
      BY Zenon, <2>2, <2>3, <2>5, <2>6 DEF HighWater
  <1>0. maxSeq' = NoSeq <=> arrived' = {}
    <2>1. arrived' # {} /\ (maxSeq' = seq \/ (maxSeq # NoSeq /\ maxSeq' = maxSeq))
      BY Zenon, <1>2 DEF Observe
    <2>2. maxSeq' # NoSeq
      BY Zenon, <1>1, <2>1
    <2>3. QED
      BY Zenon, <2>1, <2>2
  <1>6. CASE jumped'
    BY Zenon, <1>0, <1>6 DEF HighWater
  <1>4. CASE arrived # {} /\ ~jumped'
    <2>0. ~jumped /\ ~Jumps(pos)
      BY Zenon, <1>2, <1>4
    <2>1. PICK lo \in arrived, hi \in arrived :
              /\ \A q \in arrived : lo <= q /\ q <= hi
              /\ maxSeq = hi % SeqMod
              /\ stats.lost <= Cardinality(Missing(lo, hi, arrived))
      BY Zenon, <1>4, <2>0 DEF HighWater
    <2>2. /\ lo \in Int /\ hi \in Int /\ lo <= hi /\ maxSeq # NoSeq
          /\ pos - hi < Half /\ hi - pos < Half
          /\ Cardinality(Missing(lo, hi, arrived)) \in Nat
      <3>1. lo \in Int /\ hi \in Int /\ lo <= hi /\ maxSeq # NoSeq
        BY <1>1, <1>4, <2>1 DEF HighWater
      <3>2. pos - hi < Half /\ hi - pos < Half
        BY <1>1, <2>0, <2>1, <3>1 DEF Jumps
      <3>3. QED
        BY Zenon, <3>1, <3>2, MissingFinite
    <2>3. /\ pos < hi => behind = hi - pos
          /\ pos = hi => behind = 0 /\ gap = 0
          /\ pos > hi => gap = pos - hi /\ behind >= Half
      BY <1>1, <2>1, <2>2, Distances
    <2>4. \/ late /\ stats' = LatePacket /\ UNCHANGED maxSeq
          \/ ~late /\ ahead /\ stats' = PacketAhead(gap) /\ maxSeq' = seq
          \/ ~late /\ ~ahead /\ stats' = DuplicatePacket /\ UNCHANGED maxSeq
      BY <1>2, <2>2 DEF Observe
    <2> HIDE DEF behind, gap
    <2>5. CASE pos > hi
      <3>1. stats'.lost = stats.lost + (pos - hi - 1) /\ maxSeq' = seq
        <4>1. behind \in Int
          BY <1>1, <2>1, <2>2, StatsAssumption, GapIsInt DEF behind
        <4>2. ~late /\ ahead /\ gap = pos - hi
          BY <1>1, <2>2, <2>3, <2>5, <4>1
        <4>3. stats' = PacketAhead(pos - hi) /\ maxSeq' = seq
          BY <2>4, <4>2
        <4>4. QED
          BY <4>3 DEF PacketAhead
      <3>2. Cardinality(Missing(lo, pos, arrived \cup {pos}))
              = Cardinality(Missing(lo, hi, arrived)) + (pos - hi - 1)
        BY <1>1, <2>1, <2>2, <2>5, MissingAhead
      <3>3. /\ lo \in arrived' /\ pos \in arrived'
            /\ \A q \in arrived' : lo <= q /\ q <= pos
            /\ stats'.lost <= Cardinality(Missing(lo, pos, arrived'))
        BY <1>1, <1>2, <2>1, <2>2, <2>5, <3>1, <3>2
      <3>4. maxSeq' # NoSeq
        BY <1>1, <3>1
      <3>5. QED
        BY <3>1, <3>3, <3>4 DEF HighWater
    <2>6. CASE pos = hi
      <3>1. stats'.lost = stats.lost /\ UNCHANGED maxSeq
        BY <1>1, <2>2, <2>3, <2>4, <2>6 DEF DuplicatePacket
      <3>2. arrived' = arrived
        BY <1>2, <2>6
      <3>3. QED
        BY <2>1, <2>2, <3>1, <3>2 DEF HighWater
    <2>7. CASE pos < hi
      <3> DEFINE low == IF pos < lo THEN pos ELSE lo
      <3>1. /\ stats'.lost = (IF stats.lost > 0 THEN stats.lost - 1 ELSE 0)
            /\ UNCHANGED maxSeq
        BY <1>1, <2>2, <2>3, <2>4, <2>7 DEF LatePacket
      <3>2. low \in Int /\ (low = lo \/ (low = pos /\ pos < lo))
        BY <1>1, <2>2
      <3>3. /\ low \in arrived' /\ hi \in arrived'
            /\ \A q \in arrived' : low <= q /\ q <= hi
        BY <1>1, <1>2, <2>1, <2>2, <2>7
      <3> HIDE DEF low
      <3>4. Cardinality(Missing(low, hi, arrived \cup {pos}))
              >= Cardinality(Missing(lo, hi, arrived)) - 1
        BY <1>1, <2>2, <3>2, MissingBehind
      <3>5. Cardinality(Missing(low, hi, arrived')) \in Nat
        BY <2>2, <3>2, MissingFinite
      <3>6. stats'.lost <= Cardinality(Missing(low, hi, arrived'))
        BY <1>1, <1>2, <2>1, <2>2, <3>1, <3>4, <3>5
      <3>7. QED
        BY <2>1, <2>2, <3>1, <3>3, <3>6 DEF HighWater
    <2>8. QED
      BY <1>1, <2>2, <2>5, <2>6, <2>7
  <1>5. QED
    BY Zenon, <1>3, <1>4, <1>6

\* However packets are reordered, repeated or dropped, the loss that observe has
\* counted is at most the number of positions that are really missing below the
\* highest one that arrived, until one is half the number space or more from it.
THEOREM LossAlwaysReal == StatsSpec => []LossIsReal
<1>1. StatsInit => HighWater
  BY DEF StatsInit, HighWater
<1>2. StatsInv /\ HighWater /\ [StatsNext]_statsVars => HighWater'
  <2> SUFFICES ASSUME StatsInv, HighWater, [StatsNext]_statsVars PROVE HighWater'
    OBVIOUS
  <2>1. CASE StatsNext
    BY <2>1, HighWaterStep DEF StatsNext
  <2>2. CASE UNCHANGED statsVars
    BY <2>2 DEF statsVars, HighWater
  <2>3. QED
    BY <2>1, <2>2
<1>3. StatsInv /\ HighWater => LossIsReal
  <2> SUFFICES ASSUME StatsInv, HighWater,
                      ~jumped, NEW lo \in arrived, NEW hi \in arrived,
                      \A q \in arrived : lo <= q /\ q <= hi
               PROVE  stats.lost <= Cardinality((lo .. hi) \ arrived)
    BY DEF LossIsReal
  <2>1. arrived \in SUBSET Int
    BY StatsAssumption DEF StatsInv, StatsTypeOK
  <2>2. PICK l \in arrived, h \in arrived :
            /\ \A q \in arrived : l <= q /\ q <= h
            /\ stats.lost <= Cardinality(Missing(l, h, arrived))
    BY DEF HighWater
  <2>3. l = lo /\ h = hi
    BY <2>1, <2>2
  <2>4. QED
    BY <2>2, <2>3 DEF Missing
<1>4. QED
  BY <1>1, <1>2, <1>3, StatsInvHolds, PTL DEF StatsSpec

-----------------------------------------------------------------------------
(* Negotiation: one offer at a time *)

\* An offer or an answer between server and client is waited for, and nobody who
\* waits for one makes another.
OfferInv ==
    /\ wire # "none" => answerPending
    /\ holder # "none" => ~answerPending

\* Only the steps of the negotiation touch what the offers rest on.
LEMMA OfferStep ==
    ASSUME OfferInv, [Next]_vars
    PROVE  OfferInv'
  <1> USE DEF OfferInv
  <1>1. CASE UNCHANGED <<wire, answerPending, holder>>
    BY <1>1
  <1>2. ASSUME NEW force \in BOOLEAN, SubscribeNegotiation(force)
        PROVE  OfferInv'
    BY <1>2 DEF SubscribeNegotiation
  <1>3. CASE CreateOffer
    BY <1>3 DEF CreateOffer, flags
  <1>4. CASE SendOffer
    BY <1>4 DEF SendOffer
  <1>5. CASE HandleSubscriberAnswer
    BY <1>5 DEF HandleSubscriberAnswer, flags
  <1>6. CASE ClientAnswers \/ LoseMessage
    BY <1>6 DEF ClientAnswers, LoseMessage, flags
  <1>7. CASE Progress
    <2>1. ASSUME NEW t \in Tracks, NEW c \in Callers, Subscribe(t, c) \/ Unsubscribe(t, c)
          PROVE  UNCHANGED <<wire, answerPending, holder>>
      BY Zenon, <2>1
         DEF Subscribe, Unsubscribe, LookUpForwarder, AttachTrack, InsertSender,
             AddSubscriber, TakeSender, RemoveSubscriber, DetachTrack,
             RequestSubscriberNegotiation, negotiationVars, flags
    <2>2. CASE SetupSubscriber \/ ListTracks \/ StartReading
      BY Zenon, <1>1, <2>2
         DEF SetupSubscriber, ListTracks, StartReading,
             RequestSubscriberNegotiation, negotiationVars, flags
    <2>3. CASE \E t \in Tracks : SubscribeExisting(t)
      BY <1>1, <2>3 DEF SubscribeExisting, negotiationVars, flags
    <2>4. CASE ClearMedia \/ ReleaseForwarders
      BY <1>1, <2>4 DEF ClearMedia, ReleaseForwarders, negotiationVars, flags
    <2>5. QED
      BY <1>1, <1>7, <2>1, <2>2, <2>3, <2>4 DEF Progress
  <1>8. CASE Publishing
    BY <1>1, <1>8
       DEF Publishing, AddTrack, OnTrack, OnTrackPublished, LoopEnds,
           OnTrackUnpublished, negotiationVars, flags
  <1>9. CASE Requests
    BY Zenon, <1>1, <1>9
       DEF Requests, Join, UpdateSubscription, SyncState, EndParticipant,
           RequestSubscriberNegotiation, negotiationVars, flags
  <1>10. CASE UNCHANGED vars
    BY <1>1, <1>10 DEF vars, negotiationVars, flags
  <1>11. QED
    BY <1>2, <1>3, <1>4, <1>5, <1>6, <1>7, <1>8, <1>9, <1>10 DEF Next, Negotiate

\* However many tasks ask for a negotiation, and whatever is lost on the way, no
\* offer is made while another or its answer is under way.
THEOREM OffersTakeTurns == Spec => []OneOfferAtATime
<1>1. Init => OfferInv
  BY DEF Init, NegotiationInit, OfferInv
<1>2. OfferInv /\ [Next]_vars => OfferInv'
  BY OfferStep
<1>3. OfferInv => OneOfferAtATime
  BY DEF OfferInv, OneOfferAtATime
<1>4. QED
  BY <1>1, <1>2, <1>3, PTL DEF Spec

-----------------------------------------------------------------------------
(* Subscriptions: no track is missed *)

\* The types that the steps of a track and its calls rest on.
CallTypes ==
    /\ DOMAIN trackPc = Tracks
    /\ DOMAIN call = Tracks
    /\ \A t \in Tracks : DOMAIN call[t] = Callers
    /\ DOMAIN senderOf = Tracks
    /\ DOMAIN fanout = Tracks
    /\ gone \in BOOLEAN /\ inRoom \in BOOLEAN

\* Where the subscriber is: it is ended by end_participant alone, and until then
\* it is in the room from its join on.
InRoomUntilGone ==
    /\ endPc # "idle" => gone
    /\ ~gone => (inRoom <=> session # "idle")

\* A track is listed from handle_add_track to on_track_unpublished, and has a
\* forwarder from on_track to the end of its loop.
TrackListed ==
    \A t \in Tracks :
        /\ t \in forwarders <=> trackPc[t] \in {"forwarding", "subscribing"}
        /\ trackPc[t] \in {"added", "forwarding", "subscribing", "ending"} => t \in published

\* A subscription is removed by request, or because its track is gone.
RemovedFor(t) == session = "remove" \/ trackPc[t] = "unpublished"

\* What the frames of add_subscription and remove_subscription know.
CallsKnow ==
    \A t \in Tracks, c \in Callers :
        /\ call[t][c] \in {"remove", "release", "detach"} => RemovedFor(t)
        /\ call[t][c] = "fan" /\ ~gone /\ ~RemovedFor(t) => senderOf[t] # NoCall

\* A track with media is yet to be listed, in the list, being subscribed to,
\* subscribed to, or was refused.
AccountedFor(t) ==
    \/ session \in {"idle", "joined", "setup"}
    \/ session = "adding" /\ t \in existing
    \/ \E c \in Callers : call[t][c] \in {"add", "attach", "insert", "fan"}
    \/ senderOf[t] # NoCall /\ fanout[t] # NoCall
    \/ t \in refused

Accounted ==
    \A t \in Tracks :
        ~gone /\ session # "remove" /\ trackPc[t] = "subscribing" => AccountedFor(t)

SubscriptionInv ==
    CallTypes /\ InRoomUntilGone /\ TrackListed /\ CallsKnow /\ Accounted

\* A call that moves leaves the others where they are.
LEMMA CallMoves ==
    ASSUME CallTypes, NEW t \in Tracks, NEW c \in Callers, NEW v, To(t, c, v)
    PROVE  /\ DOMAIN call' = Tracks /\ \A u \in Tracks : DOMAIN call'[u] = Callers
           /\ call'[t][c] = v
           /\ \A u \in Tracks, d \in Callers :
                 u # t \/ d # c => call'[u][d] = call[u][d]
  BY DEF CallTypes, To

\* A track that has media has a forwarder.
LEMMA LookUpKeeps ==
    ASSUME SubscriptionInv, NEW t \in Tracks, NEW c \in Callers, LookUpForwarder(t, c)
    PROVE  SubscriptionInv'
  <1> USE DEF SubscriptionInv
  <1>0. PICK v \in {"attach", "idle"} :
           /\ To(t, c, v) /\ refused \subseteq refused'
           /\ t \in refused' \/ v = IF t \in forwarders THEN "attach" ELSE "idle"
    BY Zenon DEF LookUpForwarder, Refuse
  <1>1. /\ call[t][c] = "add"
        /\ UNCHANGED <<gone, inRoom, session, existing, endPc, published, forwarders, trackPc,
                       senderOf, fanout>>
    BY Zenon DEF LookUpForwarder, subscriberVars, trackVars
  <1>2. /\ DOMAIN call' = Tracks /\ \A u \in Tracks : DOMAIN call'[u] = Callers
        /\ \A u \in Tracks, d \in Callers : u # t \/ d # c => call'[u][d] = call[u][d]
    BY Zenon, <1>0, CallMoves
  <1>3. call'[t][c] = v
    BY Zenon, <1>0, CallMoves
  <1>4. CallTypes'
    BY <1>1, <1>2, <1>3 DEF CallTypes
  <1>5. InRoomUntilGone'
    BY Zenon, <1>1 DEF InRoomUntilGone
  <1>6. TrackListed'
    BY <1>1 DEF TrackListed, CallTypes
  <1>7. CallsKnow'
    BY <1>0, <1>1, <1>2, <1>3 DEF CallsKnow, RemovedFor, CallTypes
  <1>8. Accounted'
    BY <1>0, <1>1, <1>2, <1>3 DEF Accounted, AccountedFor, CallTypes, TrackListed
  <1>9. QED
    BY <1>4, <1>5, <1>6, <1>7, <1>8

\* The peer connection takes the track or refuses it.
LEMMA AttachKeeps ==
    ASSUME SubscriptionInv, NEW t \in Tracks, NEW c \in Callers, AttachTrack(t, c)
    PROVE  SubscriptionInv'
  <1> USE DEF SubscriptionInv
  <1>1. /\ call[t][c] = "attach"
        /\ UNCHANGED <<gone, pc, inRoom, session, existing, endPc, published, forwarders,
                       trackPc, senderOf, fanout>>
    BY Zenon DEF AttachTrack, subscriberVars, trackVars
  <1>0. PICK v \in {"insert", "idle"} :
           To(t, c, v) /\ refused \subseteq refused' /\ (v = "insert" \/ t \in refused')
    BY Zenon DEF AttachTrack, Refuse
  <1>2. /\ DOMAIN call' = Tracks /\ \A u \in Tracks : DOMAIN call'[u] = Callers
        /\ \A u \in Tracks, d \in Callers : u # t \/ d # c => call'[u][d] = call[u][d]
    BY Zenon, <1>0, CallMoves
  <1>3. call'[t][c] = v
    BY Zenon, <1>0, CallMoves
  <1>4. CallTypes'
    BY <1>1, <1>2, <1>3 DEF CallTypes
  <1>5. InRoomUntilGone'
    BY <1>1 DEF InRoomUntilGone
  <1>6. TrackListed'
    BY <1>1 DEF TrackListed, CallTypes
  <1>7. CallsKnow'
    BY <1>1, <1>2, <1>3 DEF CallsKnow, RemovedFor, CallTypes
  <1>8. Accounted'
    BY <1>0, <1>1, <1>2, <1>3 DEF Accounted, AccountedFor, CallTypes
  <1>9. QED
    BY <1>4, <1>5, <1>6, <1>7, <1>8

\* The sender is in the map before the forwarder has its down-track.
LEMMA InsertKeeps ==
    ASSUME SubscriptionInv, NEW t \in Tracks, NEW c \in Callers, InsertSender(t, c)
    PROVE  SubscriptionInv'
  <1> USE DEF SubscriptionInv
  <1>1. /\ call[t][c] = "insert"
        /\ To(t, c, "fan")
        /\ senderOf' = [senderOf EXCEPT ![t] = c]
        /\ UNCHANGED <<gone, pc, inRoom, session, existing, endPc, published, forwarders,
                       trackPc, fanout, refused>>
    BY Zenon DEF InsertSender, subscriberVars, trackVars, mapVars
  <1>2. /\ DOMAIN call' = Tracks /\ \A u \in Tracks : DOMAIN call'[u] = Callers
        /\ \A u \in Tracks, d \in Callers : u # t \/ d # c => call'[u][d] = call[u][d]
    BY Zenon, <1>1, CallMoves
  <1>3. call'[t][c] = "fan"
    BY Zenon, <1>1, CallMoves
  <1>4. CallTypes'
    BY <1>1, <1>2, <1>3 DEF CallTypes
  <1>5. InRoomUntilGone'
    BY <1>1 DEF InRoomUntilGone
  <1>6. TrackListed'
    BY <1>1 DEF TrackListed, CallTypes
  <1>7. CallsKnow'
    BY <1>1, <1>2, <1>3, NoCallAssumption DEF CallsKnow, RemovedFor, CallTypes
  <1>8. Accounted'
    BY <1>1, <1>2, <1>3, NoCallAssumption DEF Accounted, AccountedFor, CallTypes
  <1>9. QED
    BY <1>4, <1>5, <1>6, <1>7, <1>8

\* The call that returns leaves the track subscribed to.
LEMMA AddKeeps ==
    ASSUME SubscriptionInv, NEW t \in Tracks, NEW c \in Callers, AddSubscriber(t, c)
    PROVE  SubscriptionInv'
  <1> USE DEF SubscriptionInv
  <1>1. /\ call[t][c] = "fan"
        /\ To(t, c, "idle")
        /\ fanout' = [fanout EXCEPT ![t] = c]
        /\ UNCHANGED <<gone, pc, inRoom, session, existing, endPc, published, forwarders,
                       trackPc, senderOf, refused>>
    BY Zenon DEF AddSubscriber, subscriberVars, trackVars, mapVars
  <1>2. /\ DOMAIN call' = Tracks /\ \A u \in Tracks : DOMAIN call'[u] = Callers
        /\ \A u \in Tracks, d \in Callers : u # t \/ d # c => call'[u][d] = call[u][d]
    BY Zenon, <1>1, CallMoves
  <1>3. call'[t][c] = "idle"
    BY Zenon, <1>1, CallMoves
  <1>4. CallTypes'
    BY <1>1, <1>2, <1>3 DEF CallTypes
  <1>5. InRoomUntilGone'
    BY <1>1 DEF InRoomUntilGone
  <1>6. TrackListed'
    BY <1>1 DEF TrackListed, CallTypes
  <1>7. CallsKnow'
    BY <1>1, <1>2, <1>3 DEF CallsKnow, RemovedFor, CallTypes
  <1>8. Accounted'
    BY Zenon, <1>1, <1>2, <1>3, NoCallAssumption DEF Accounted, AccountedFor, CallTypes, CallsKnow, RemovedFor
  <1>9. QED
    BY <1>4, <1>5, <1>6, <1>7, <1>8

\* Only a track that is unsubscribed from or gone loses its sender.
LEMMA TakeKeeps ==
    ASSUME SubscriptionInv, NEW t \in Tracks, NEW c \in Callers, TakeSender(t, c)
    PROVE  SubscriptionInv'
  <1> USE DEF SubscriptionInv
  <1>1. /\ call[t][c] = "remove"
        /\ To(t, c, "release")
        /\ senderOf' = [senderOf EXCEPT ![t] = NoCall]
        /\ UNCHANGED <<gone, pc, inRoom, session, existing, endPc, published, forwarders,
                       trackPc, fanout, refused>>
    BY DEF TakeSender, subscriberVars, trackVars, mapVars
  <1>2. /\ DOMAIN call' = Tracks /\ \A u \in Tracks : DOMAIN call'[u] = Callers
        /\ \A u \in Tracks, d \in Callers : u # t \/ d # c => call'[u][d] = call[u][d]
    BY Zenon, <1>1, CallMoves
  <1>3. call'[t][c] = "release"
    BY Zenon, <1>1, CallMoves
  <1>4. CallTypes'
    BY Zenon, <1>1, <1>2, <1>3 DEF CallTypes
  <1>5. InRoomUntilGone'
    BY <1>1 DEF InRoomUntilGone
  <1>6. TrackListed'
    BY <1>1 DEF TrackListed, CallTypes
  <1>7. CallsKnow'
    BY <1>1, <1>2, <1>3 DEF CallsKnow, RemovedFor, CallTypes
  <1>8. Accounted'
    BY <1>1, <1>2, <1>3 DEF Accounted, AccountedFor, CallTypes, CallsKnow, RemovedFor
  <1>9. QED
    BY <1>4, <1>5, <1>6, <1>7, <1>8

\* Nor does another lose its down-track.
LEMMA RemoveKeeps ==
    ASSUME SubscriptionInv, NEW t \in Tracks, NEW c \in Callers, RemoveSubscriber(t, c)
    PROVE  SubscriptionInv'
  <1> USE DEF SubscriptionInv
  <1>1. /\ call[t][c] = "release"
        /\ To(t, c, "detach")
        /\ fanout' = [fanout EXCEPT ![t] = IF t \in forwarders THEN NoCall ELSE @]
        /\ UNCHANGED <<gone, pc, inRoom, session, existing, endPc, published, forwarders,
                       trackPc, senderOf, refused>>
    BY Zenon DEF RemoveSubscriber, subscriberVars, trackVars, mapVars
  <1>2. /\ DOMAIN call' = Tracks /\ \A u \in Tracks : DOMAIN call'[u] = Callers
        /\ \A u \in Tracks, d \in Callers : u # t \/ d # c => call'[u][d] = call[u][d]
    BY Zenon, <1>1, CallMoves
  <1>3. call'[t][c] = "detach"
    BY Zenon, <1>1, CallMoves
  <1>4. CallTypes'
    BY <1>1, <1>2, <1>3 DEF CallTypes
  <1>5. InRoomUntilGone'
    BY <1>1 DEF InRoomUntilGone
  <1>6. TrackListed'
    BY <1>1 DEF TrackListed, CallTypes
  <1>7. CallsKnow'
    BY <1>1, <1>2, <1>3 DEF CallsKnow, RemovedFor, CallTypes
  <1>8. Accounted'
    BY <1>1, <1>2, <1>3 DEF Accounted, AccountedFor, CallTypes, CallsKnow, RemovedFor
  <1>9. QED
    BY <1>4, <1>5, <1>6, <1>7, <1>8

\* The last step of remove_subscription is on the peer connection.
LEMMA DetachKeeps ==
    ASSUME SubscriptionInv, NEW t \in Tracks, NEW c \in Callers, DetachTrack(t, c)
    PROVE  SubscriptionInv'
  <1> USE DEF SubscriptionInv
  <1>1. /\ call[t][c] = "detach"
        /\ To(t, c, "idle")
        /\ UNCHANGED <<gone, pc, inRoom, session, existing, endPc, published, forwarders,
                       trackPc, senderOf, fanout, refused>>
    BY DEF DetachTrack, subscriberVars, trackVars, mapVars
  <1>2. /\ DOMAIN call' = Tracks /\ \A u \in Tracks : DOMAIN call'[u] = Callers
        /\ \A u \in Tracks, d \in Callers : u # t \/ d # c => call'[u][d] = call[u][d]
    BY Zenon, <1>1, CallMoves
  <1>3. call'[t][c] = "idle"
    BY Zenon, <1>1, CallMoves
  <1>4. CallTypes'
    BY <1>1, <1>2, <1>3 DEF CallTypes
  <1>5. InRoomUntilGone'
    BY <1>1 DEF InRoomUntilGone
  <1>6. TrackListed'
    BY <1>1 DEF TrackListed, CallTypes
  <1>7. CallsKnow'
    BY <1>1, <1>2, <1>3 DEF CallsKnow, RemovedFor, CallTypes
  <1>8. Accounted'
    BY <1>1, <1>2, <1>3 DEF Accounted, AccountedFor, CallTypes
  <1>9. QED
    BY <1>4, <1>5, <1>6, <1>7, <1>8

\* handle_add_track lists the track.
LEMMA AddTrackKeeps ==
    ASSUME SubscriptionInv, NEW t \in Tracks, AddTrack(t)
    PROVE  SubscriptionInv'
  <1> USE DEF SubscriptionInv
  <1>1. /\ trackPc[t] = "idle" /\ trackPc' = [trackPc EXCEPT ![t] = "added"]
        /\ published' = published \cup {t}
        /\ UNCHANGED <<gone, pc, inRoom, session, existing, endPc, forwarders, call,
                       senderOf, fanout, refused>>
    BY DEF AddTrack, subscriberVars, trackVars, callVars, mapVars
  <1>2. CallTypes'
    BY Zenon, <1>1 DEF CallTypes
  <1>3. InRoomUntilGone'
    BY <1>1 DEF InRoomUntilGone
  <1>4. TrackListed'
    BY <1>1 DEF TrackListed, CallTypes
  <1>5. CallsKnow'
    BY <1>1 DEF CallsKnow, RemovedFor, CallTypes
  <1>6. Accounted'
    BY <1>1 DEF Accounted, AccountedFor, CallTypes
  <1>7. QED
    BY <1>2, <1>3, <1>4, <1>5, <1>6

\* on_track puts the forwarder in place.
LEMMA OnTrackKeeps ==
    ASSUME SubscriptionInv, NEW t \in Tracks, OnTrack(t)
    PROVE  SubscriptionInv'
  <1> USE DEF SubscriptionInv
  <1>1. /\ trackPc[t] = "added" /\ trackPc' = [trackPc EXCEPT ![t] = "forwarding"]
        /\ forwarders' = forwarders \cup {t}
        /\ UNCHANGED <<gone, pc, inRoom, session, existing, endPc, published, call,
                       senderOf, fanout, refused>>
    BY DEF OnTrack, subscriberVars, trackVars, callVars, mapVars
  <1>2. CallTypes'
    BY Zenon, <1>1 DEF CallTypes
  <1>3. InRoomUntilGone'
    BY <1>1 DEF InRoomUntilGone
  <1>4. TrackListed'
    BY <1>1 DEF TrackListed, CallTypes
  <1>5. CallsKnow'
    BY <1>1 DEF CallsKnow, RemovedFor, CallTypes
  <1>6. Accounted'
    BY <1>1 DEF Accounted, AccountedFor, CallTypes
  <1>7. QED
    BY <1>2, <1>3, <1>4, <1>5, <1>6

\* on_track_published subscribes a participant of the room; one that joins later
\* lists the track.
LEMMA PublishedKeeps ==
    ASSUME SubscriptionInv, NEW t \in Tracks, OnTrackPublished(t)
    PROVE  SubscriptionInv'
  <1> USE DEF SubscriptionInv
  <1>1. /\ trackPc[t] = "forwarding" /\ trackPc' = [trackPc EXCEPT ![t] = "subscribing"]
        /\ "publish" \in Callers /\ To(t, "publish", IF inRoom THEN "add" ELSE "idle")
        /\ UNCHANGED <<gone, pc, inRoom, session, existing, endPc, published, forwarders,
                       senderOf, fanout, refused>>
    BY DEF OnTrackPublished, Callers, subscriberVars, trackVars, callVars, mapVars
  <1>2. /\ DOMAIN call' = Tracks /\ \A u \in Tracks : DOMAIN call'[u] = Callers
        /\ \A u \in Tracks, d \in Callers : u # t \/ d # "publish" => call'[u][d] = call[u][d]
    BY Zenon, <1>1, CallMoves DEF Callers
  <1>3. call'[t]["publish"] = IF inRoom THEN "add" ELSE "idle"
    BY Zenon, <1>1, CallMoves DEF Callers
  <1>4. CallTypes'
    BY <1>1, <1>2, <1>3 DEF CallTypes
  <1>5. InRoomUntilGone'
    BY <1>1 DEF InRoomUntilGone
  <1>6. TrackListed'
    BY <1>1 DEF TrackListed, CallTypes
  <1>7. CallsKnow'
    BY <1>1, <1>2, <1>3 DEF CallsKnow, RemovedFor, CallTypes
  <1>8. Accounted'
    BY <1>1, <1>2, <1>3 DEF Accounted, AccountedFor, CallTypes, InRoomUntilGone
  <1>9. QED
    BY <1>4, <1>5, <1>6, <1>7, <1>8

\* A track whose loop has ended asks for nothing.
LEMMA LoopEndsKeeps ==
    ASSUME SubscriptionInv, NEW t \in Tracks, LoopEnds(t)
    PROVE  SubscriptionInv'
  <1> USE DEF SubscriptionInv
  <1>1. /\ trackPc[t] = "subscribing" /\ trackPc' = [trackPc EXCEPT ![t] = "ending"]
        /\ forwarders' = forwarders \ {t}
        /\ UNCHANGED <<gone, pc, inRoom, session, existing, endPc, published, call,
                       senderOf, fanout, refused>>
    BY DEF LoopEnds, subscriberVars, trackVars, callVars, mapVars
  <1>2. CallTypes'
    BY <1>1 DEF CallTypes
  <1>3. InRoomUntilGone'
    BY <1>1 DEF InRoomUntilGone
  <1>4. TrackListed'
    BY Zenon, <1>1 DEF TrackListed, CallTypes
  <1>5. CallsKnow'
    BY <1>1 DEF CallsKnow, RemovedFor, CallTypes
  <1>6. Accounted'
    BY <1>1 DEF Accounted, AccountedFor, CallTypes
  <1>7. QED
    BY <1>2, <1>3, <1>4, <1>5, <1>6

\* on_track_unpublished removes the subscription to its own track.
LEMMA UnpublishedKeeps ==
    ASSUME SubscriptionInv, NEW t \in Tracks, OnTrackUnpublished(t)
    PROVE  SubscriptionInv'
  <1> USE DEF SubscriptionInv
  <1>1. /\ trackPc[t] = "ending" /\ trackPc' = [trackPc EXCEPT ![t] = "unpublished"]
        /\ published' = published \ {t}
        /\ "publish" \in Callers /\ To(t, "publish", IF inRoom THEN "remove" ELSE "idle")
        /\ UNCHANGED <<gone, pc, inRoom, session, existing, endPc, forwarders, senderOf,
                       fanout, refused>>
    BY DEF OnTrackUnpublished, Callers, subscriberVars, trackVars, callVars, mapVars
  <1>2. /\ DOMAIN call' = Tracks /\ \A u \in Tracks : DOMAIN call'[u] = Callers
        /\ \A u \in Tracks, d \in Callers : u # t \/ d # "publish" => call'[u][d] = call[u][d]
    BY Zenon, <1>1, CallMoves DEF Callers
  <1>3. call'[t]["publish"] = IF inRoom THEN "remove" ELSE "idle"
    BY Zenon, <1>1, CallMoves DEF Callers
  <1>4. CallTypes'
    BY <1>1, <1>2, <1>3 DEF CallTypes
  <1>5. InRoomUntilGone'
    BY <1>1 DEF InRoomUntilGone
  <1>6. TrackListed'
    BY Zenon, <1>1 DEF TrackListed, CallTypes
  <1>7. CallsKnow'
    BY SMTT(60), <1>1, <1>2, <1>3 DEF CallsKnow, RemovedFor, CallTypes
  <1>8. Accounted'
    BY <1>1, <1>2, <1>3 DEF Accounted, AccountedFor, CallTypes
  <1>9. QED
    BY <1>4, <1>5, <1>6, <1>7, <1>8

\* The subscriber joins, before it lists the tracks.
LEMMA JoinKeeps ==
    ASSUME SubscriptionInv, Join \/ SetupSubscriber
    PROVE  SubscriptionInv'
  <1> USE DEF SubscriptionInv
  <1>1. /\ \/ session = "idle" /\ session' = "joined" /\ inRoom' = TRUE
           \/ session = "joined" /\ session' = "setup" /\ UNCHANGED inRoom
        /\ UNCHANGED <<gone, existing, endPc, published, forwarders, trackPc, call, senderOf,
                       fanout, refused>>
    BY Zenon DEF Join, SetupSubscriber, subscriberVars, trackVars, callVars, mapVars
  <1>2. CallTypes'
    BY Zenon, <1>1 DEF CallTypes
  <1>3. InRoomUntilGone'
    BY <1>1 DEF InRoomUntilGone
  <1>4. TrackListed'
    BY <1>1 DEF TrackListed, CallTypes
  <1>5. CallsKnow'
    BY <1>1 DEF CallsKnow, RemovedFor, CallTypes
  <1>6. Accounted'
    BY <1>1 DEF Accounted, AccountedFor, CallTypes
  <1>7. QED
    BY <1>2, <1>3, <1>4, <1>5, <1>6

\* Every track with media is on the list.
LEMMA ListKeeps ==
    ASSUME SubscriptionInv, ListTracks
    PROVE  SubscriptionInv'
  <1> USE DEF SubscriptionInv
  <1>1. /\ session = "setup" /\ session' = "adding" /\ existing' = published
        /\ UNCHANGED <<gone, pc, inRoom, endPc, published, forwarders, trackPc, call, senderOf,
                       fanout, refused>>
    BY DEF ListTracks, subscriberVars, trackVars, callVars, mapVars
  <1>2. CallTypes'
    BY <1>1 DEF CallTypes
  <1>3. InRoomUntilGone'
    BY <1>1 DEF InRoomUntilGone
  <1>4. TrackListed'
    BY <1>1 DEF TrackListed, CallTypes
  <1>5. CallsKnow'
    BY <1>1 DEF CallsKnow, RemovedFor, CallTypes
  <1>6. Accounted'
    BY <1>1 DEF Accounted, AccountedFor, CallTypes, TrackListed
  <1>7. QED
    BY <1>2, <1>3, <1>4, <1>5, <1>6

\* A track leaves the list when its subscription begins.
LEMMA ExistingKeeps ==
    ASSUME SubscriptionInv, NEW t \in Tracks, SubscribeExisting(t)
    PROVE  SubscriptionInv'
  <1> USE DEF SubscriptionInv
  <1>1. /\ session = "adding" /\ existing' = existing \ {t}
        /\ "join" \in Callers /\ To(t, "join", "add")
        /\ UNCHANGED <<gone, pc, inRoom, session, endPc, published, forwarders, trackPc,
                       senderOf, fanout, refused>>
    BY DEF SubscribeExisting, Callers, subscriberVars, trackVars, callVars, mapVars
  <1>2. /\ DOMAIN call' = Tracks /\ \A u \in Tracks : DOMAIN call'[u] = Callers
        /\ \A u \in Tracks, d \in Callers : u # t \/ d # "join" => call'[u][d] = call[u][d]
    BY Zenon, <1>1, CallMoves DEF Callers
  <1>3. call'[t]["join"] = "add"
    BY Zenon, <1>1, CallMoves DEF Callers
  <1>4. CallTypes'
    BY Zenon, <1>1, <1>2, <1>3 DEF CallTypes
  <1>5. InRoomUntilGone'
    BY <1>1 DEF InRoomUntilGone
  <1>6. TrackListed'
    BY <1>1 DEF TrackListed, CallTypes
  <1>7. CallsKnow'
    BY <1>1, <1>2, <1>3 DEF CallsKnow, RemovedFor, CallTypes
  <1>8. Accounted'
    BY Zenon, <1>1, <1>2, <1>3 DEF Accounted, AccountedFor, CallTypes
  <1>9. QED
    BY <1>4, <1>5, <1>6, <1>7, <1>8

\* The session reads once the list is empty.
LEMMA ReadingKeeps ==
    ASSUME SubscriptionInv, StartReading \/ SyncState
    PROVE  SubscriptionInv'
  <1> USE DEF SubscriptionInv
  <1>1. /\ \/ session = "adding" /\ session' = "reading" /\ existing = {}
           \/ session = "reading" /\ session' = "resumed"
        /\ UNCHANGED <<gone, pc, inRoom, existing, endPc, published, forwarders, trackPc, call,
                       senderOf, fanout, refused>>
    BY DEF StartReading, SyncState, subscriberVars, trackVars, callVars, mapVars
  <1>2. CallTypes'
    BY Zenon, <1>1 DEF CallTypes
  <1>3. InRoomUntilGone'
    BY <1>1 DEF InRoomUntilGone
  <1>4. TrackListed'
    BY <1>1 DEF TrackListed, CallTypes
  <1>5. CallsKnow'
    BY <1>1 DEF CallsKnow, RemovedFor, CallTypes
  <1>6. Accounted'
    BY <1>1 DEF Accounted, AccountedFor, CallTypes
  <1>7. QED
    BY <1>2, <1>3, <1>4, <1>5, <1>6

\* A request adds a subscription, or the subscriber has unsubscribed.
LEMMA UpdateKeeps ==
    ASSUME SubscriptionInv, NEW t \in Tracks, NEW op \in {"add", "remove"}, UpdateSubscription(t, op)
    PROVE  SubscriptionInv'
  <1> USE DEF SubscriptionInv
  <1>1. /\ session = "reading" /\ session' = op /\ op # "idle"
        /\ "update" \in Callers /\ To(t, "update", op)
        /\ UNCHANGED <<gone, pc, inRoom, existing, endPc, published, forwarders, trackPc,
                       senderOf, fanout, refused>>
    BY DEF UpdateSubscription, Callers, subscriberVars, trackVars, callVars, mapVars
  <1>2. /\ DOMAIN call' = Tracks /\ \A u \in Tracks : DOMAIN call'[u] = Callers
        /\ \A u \in Tracks, d \in Callers : u # t \/ d # "update" => call'[u][d] = call[u][d]
    BY Zenon, <1>1, CallMoves DEF Callers
  <1>3. call'[t]["update"] = op
    BY Zenon, <1>1, CallMoves DEF Callers
  <1>4. CallTypes'
    BY <1>1, <1>2, <1>3 DEF CallTypes
  <1>5. InRoomUntilGone'
    BY <1>1 DEF InRoomUntilGone
  <1>6. TrackListed'
    BY Zenon, <1>1 DEF TrackListed, CallTypes
  <1>7. CallsKnow'
    BY <1>1, <1>2, <1>3 DEF CallsKnow, RemovedFor, CallTypes
  <1>8. Accounted'
    BY Zenon, <1>1, <1>2, <1>3 DEF Accounted, AccountedFor, CallTypes
  <1>9. QED
    BY <1>4, <1>5, <1>6, <1>7, <1>8

\* Nothing is promised to a subscriber that is ending.
LEMMA EndKeeps ==
    ASSUME SubscriptionInv, EndParticipant \/ ClearMedia \/ ReleaseForwarders
    PROVE  SubscriptionInv'
  <1> USE DEF SubscriptionInv
  <1>1. /\ gone' = TRUE /\ endPc' # "idle" /\ inRoom' \in BOOLEAN
        /\ DOMAIN senderOf' = Tracks /\ DOMAIN fanout' = Tracks
        /\ UNCHANGED <<session, existing, published, forwarders, trackPc, call>>
    BY Zenon DEF CallTypes, InRoomUntilGone, EndParticipant, ClearMedia, ReleaseForwarders,
       subscriberVars, trackVars, callVars, mapVars
  <1>2. CallTypes'
    BY <1>1 DEF CallTypes
  <1>3. InRoomUntilGone'
    BY <1>1 DEF InRoomUntilGone
  <1>4. TrackListed'
    BY <1>1 DEF TrackListed, CallTypes
  <1>5. CallsKnow'
    BY <1>1 DEF CallsKnow, RemovedFor, CallTypes
  <1>6. Accounted'
    BY <1>1 DEF Accounted, AccountedFor, CallTypes
  <1>7. QED
    BY <1>2, <1>3, <1>4, <1>5, <1>6

\* The steps of the negotiation leave the subscriptions alone.
LEMMA OtherKeeps ==
    ASSUME SubscriptionInv, UNCHANGED <<gone, pc, subscriberVars, trackVars, callVars, mapVars>>
    PROVE  SubscriptionInv'
  <1> USE DEF SubscriptionInv
  <1>1. UNCHANGED <<gone, pc, inRoom, session, existing, endPc, published, forwarders,
                    trackPc, call, senderOf, fanout, refused>>
    BY DEF subscriberVars, trackVars, callVars, mapVars
  <1>2. CallTypes'
    BY <1>1 DEF CallTypes
  <1>3. InRoomUntilGone'
    BY <1>1 DEF InRoomUntilGone
  <1>4. TrackListed'
    BY <1>1 DEF TrackListed, CallTypes
  <1>5. CallsKnow'
    BY <1>1 DEF CallsKnow, RemovedFor, CallTypes
  <1>6. Accounted'
    BY <1>1 DEF Accounted, AccountedFor, CallTypes
  <1>7. QED
    BY <1>2, <1>3, <1>4, <1>5, <1>6

\* Every step of Next is one of these.
LEMMA SubscriptionStep ==
    ASSUME SubscriptionInv, [Next]_vars
    PROVE  SubscriptionInv'
  <1>1. CASE Progress
    BY Zenon, <1>1, LookUpKeeps, AttachKeeps, InsertKeeps, AddKeeps, TakeKeeps, RemoveKeeps,
       DetachKeeps, JoinKeeps, ListKeeps, ExistingKeeps, ReadingKeeps, EndKeeps
       DEF Progress, Subscribe, Unsubscribe
  <1>2. CASE Publishing
    BY Zenon, <1>2, AddTrackKeeps, OnTrackKeeps, PublishedKeeps, LoopEndsKeeps,
       UnpublishedKeeps DEF Publishing
  <1>3. CASE Requests
    BY Zenon, <1>3, JoinKeeps, UpdateKeeps, ReadingKeeps, EndKeeps DEF Requests
  <1>4. CASE /\ Negotiate \/ ClientAnswers \/ LoseMessage
             /\ UNCHANGED <<subscriberVars, trackVars, callVars, mapVars>>
    <2>1. UNCHANGED <<gone, pc>>
      BY Zenon, <1>4 DEF Negotiate, SubscribeNegotiation, CreateOffer, SendOffer,
                  HandleSubscriberAnswer, ClientAnswers, LoseMessage
    <2>2. QED
      BY <1>4, <2>1, OtherKeeps
  <1>5. CASE UNCHANGED vars
    BY <1>5, OtherKeeps DEF vars
  <1>6. QED
    BY Zenon, <1>1, <1>2, <1>3, <1>4, <1>5 DEF Next

\* However a join, the listing of the tracks and their publication interleave,
\* a subscriber that has not unsubscribed gets every track that is forwarded once
\* the calls of add_subscription for it have returned, unless the peer connection
\* could not be set up for it or did not take it.
THEOREM TracksNeverMissed == Spec => []NoTrackMissed
<1>1. Init => SubscriptionInv
  <2>1. Init => CallTypes
    <3>1. Init => /\ DOMAIN trackPc = Tracks /\ DOMAIN senderOf = Tracks
                  /\ DOMAIN fanout = Tracks
      BY DEF Init
    <3>2. Init => DOMAIN call = Tracks /\ \A t \in Tracks : DOMAIN call[t] = Callers
      BY DEF Init
    <3>3. Init => gone \in BOOLEAN /\ inRoom \in BOOLEAN
      BY Zenon DEF Init
    <3>4. QED
      BY <3>1, <3>2, <3>3 DEF CallTypes
  <2>2. Init => InRoomUntilGone /\ Accounted
    BY DEF Init, InRoomUntilGone, Accounted, AccountedFor
  <2>3. Init => TrackListed
    BY DEF Init, TrackListed
  <2>4. Init => CallsKnow
    BY DEF Init, CallsKnow
  <2>5. QED
    BY <2>1, <2>2, <2>3, <2>4 DEF SubscriptionInv
<1>2. SubscriptionInv /\ [Next]_vars => SubscriptionInv'
  BY SubscriptionStep
<1>3. SubscriptionInv => NoTrackMissed
  <2> SUFFICES ASSUME SubscriptionInv, NEW t \in Tracks,
                      session \in {"reading", "add", "resumed"}, ~gone,
                      trackPc[t] = "subscribing", \A c \in Callers : Idle(t, c),
                      t \notin refused
               PROVE  senderOf[t] # NoCall /\ fanout[t] # NoCall
    BY Zenon DEF NoTrackMissed
  <2>1. AccountedFor(t)
    BY DEF SubscriptionInv, Accounted
  <2>2. QED
    BY <2>1 DEF AccountedFor, Idle
<1>4. QED
  BY <1>1, <1>2, <1>3, PTL DEF Spec

-----------------------------------------------------------------------------
(* Subscriptions: types, and the senders in the maps *)

\* c has been asked to add a subscription to t, which happens once.
HasAdded(t, c) ==
    \/ c = "join" /\ session \notin {"idle", "joined", "setup"} /\ t \notin existing
    \/ c = "publish" /\ trackPc[t] \in {"subscribing", "ending", "unpublished"}
    \/ c = "update" /\ session \in {"add", "remove"}

\* The sender that c made for t is, or was, in the maps of the subscriber.
InMaps(t, c) == senderOf[t] = c \/ \E d \in Callers : taken[t][d] = c

\* Only who was asked to has a call, a sender or an entry.
OnceAdded ==
    \A t \in Tracks, c \in Callers :
        call[t][c] # "idle" \/ InMaps(t, c) => HasAdded(t, c)

\* A sender is made before it is in the maps, once, and leaves them for good.
InMapsOnce ==
    \A t \in Tracks, c \in Callers :
        /\ InMaps(t, c) => call[t][c] \notin {"add", "attach", "insert"}
        /\ \A d \in Callers : taken[t][d] = c => senderOf[t] # c

\* The senders that are about to be in the maps, and that are in them, are
\* senders of the peer connection, until that is closed.
MapsInStep ==
    ~gone => \A t \in Tracks, c \in Callers :
        call[t][c] = "insert" \/ senderOf[t] = c => <<t, c>> \in senders

EndIsGone == endPc # "idle" => gone

MapInv == OnceAdded /\ InMapsOnce /\ MapsInStep /\ EndIsGone

\* The types of the peer connection and its negotiation ...
OfferTypes ==
    /\ gone \in BOOLEAN /\ pc \in BOOLEAN
    /\ senders \subseteq Calls
    /\ needs \in BOOLEAN /\ answerPending \in BOOLEAN
    /\ tasks \in [BOOLEAN -> Nat]
    /\ holder \in {"none", "create", "send"}
    /\ offer \in (SUBSET Calls) \cup {NoOffer}
    /\ nextId \in 0 .. MaxOffers
    /\ wire \in {"none", "offer", "answer"}
    /\ failed \in BOOLEAN

\* ... and those of the session, the tracks and the calls.
Sessions == {"idle", "joined", "setup", "adding", "reading", "add", "remove", "resumed"}
TrackFrames == {"idle", "added", "forwarding", "subscribing", "ending", "unpublished"}
CallFrames == {"idle", "add", "attach", "insert", "fan", "remove", "release", "detach"}

SessionTypes ==
    /\ inRoom \in BOOLEAN
    /\ session \in Sessions
    /\ existing \subseteq Tracks
    /\ endPc \in {"idle", "clear", "release", "done"}
    /\ published \subseteq Tracks /\ forwarders \subseteq Tracks
    /\ trackPc \in [Tracks -> TrackFrames]

MapTypes ==
    /\ call \in [Tracks -> [Callers -> CallFrames]]
    /\ taken \in [Tracks -> [Callers -> Callers \cup {NoCall}]]
    /\ senderOf \in [Tracks -> Callers \cup {NoCall}]
    /\ fanout \in [Tracks -> Callers \cup {NoCall}]
    /\ refused \subseteq Tracks

LEMMA NextNat == \A n \in Nat : n + 1 \in Nat
  OBVIOUS

\* request_subscriber_negotiation.
LEMMA RequestTyped ==
    ASSUME OfferTypes, RequestSubscriberNegotiation, UNCHANGED <<gone, pc>>,
           senders' \subseteq Calls
    PROVE  OfferTypes'
  <1>1. tasks' \in [BOOLEAN -> Nat]
    <2>1. tasks[FALSE] \in Nat
      BY Zenon DEF OfferTypes
    <2>2. tasks[FALSE] + 1 \in Nat
      BY Zenon, <2>1, NextNat
    <2>3. tasks' = [tasks EXCEPT ![FALSE] = tasks[FALSE] + 1]
      BY Zenon DEF RequestSubscriberNegotiation
    <2>4. QED
      BY Zenon, <2>2, <2>3 DEF OfferTypes
  <1>2. needs' \in BOOLEAN
    BY Zenon DEF RequestSubscriberNegotiation
  <1>3. QED
    BY Zenon, <1>1, <1>2 DEF OfferTypes, RequestSubscriberNegotiation

\* What leaves the negotiation alone.
LEMMA OfferFrame ==
    ASSUME OfferTypes, UNCHANGED negotiationVars, gone' \in BOOLEAN, pc' \in BOOLEAN,
           senders' \subseteq Calls
    PROVE  OfferTypes'
  BY Zenon DEF OfferTypes, negotiationVars, flags

\* The steps of the negotiation.
LEMMA NegotiateTyped ==
    ASSUME OfferTypes, Negotiate \/ ClientAnswers \/ LoseMessage
    PROVE  OfferTypes'
  <1>1. ASSUME NEW force \in BOOLEAN, SubscribeNegotiation(force)
        PROVE  OfferTypes'
    <2>1. tasks' \in [BOOLEAN -> Nat]
      <3>1. tasks[force] \in Nat /\ tasks[force] > 0
        BY <1>1 DEF OfferTypes, SubscribeNegotiation
      <3>2. tasks[force] - 1 \in Nat
        BY <3>1
      <3>3. tasks' = [tasks EXCEPT ![force] = tasks[force] - 1]
        BY <1>1 DEF SubscribeNegotiation
      <3>4. QED
        BY Zenon, <3>2, <3>3 DEF OfferTypes
    <2>2. needs' \in BOOLEAN /\ holder' \in {"none", "create", "send"}
      BY Zenon, <1>1 DEF OfferTypes, SubscribeNegotiation
    <2>3. QED
      BY Zenon, <1>1, <2>1, <2>2 DEF OfferTypes, SubscribeNegotiation
  <1>2. CASE CreateOffer
    <2>1. offer' = senders \/ offer' = offer
      BY Zenon, <1>2 DEF CreateOffer
    <2>2. offer' \in (SUBSET Calls) \cup {NoOffer}
      BY Zenon, <2>1 DEF OfferTypes
    <2>3. holder' \in {"none", "create", "send"} /\ failed' \in BOOLEAN
      BY Zenon, <1>2 DEF CreateOffer, OfferTypes
    <2>4. QED
      BY Zenon, <1>2, <2>2, <2>3 DEF OfferTypes, CreateOffer, flags
  <1>3. CASE SendOffer
    <2>1. nextId' \in 0 .. MaxOffers
      BY <1>3, MaxOffersAssumption DEF OfferTypes, SendOffer
    <2>2. holder' \in {"none", "create", "send"} /\ wire' \in {"none", "offer", "answer"}
      BY <1>3 DEF SendOffer
    <2>3. answerPending' \in BOOLEAN
      BY Zenon, <1>3 DEF SendOffer
    <2>4. QED
      BY Zenon, <1>3, <2>1, <2>2, <2>3 DEF OfferTypes, SendOffer
  <1>4. CASE HandleSubscriberAnswer
    <2>1. tasks' \in [BOOLEAN -> Nat]
      <3>1. tasks' \in {tasks, [tasks EXCEPT ![TRUE] = tasks[TRUE] + 1],
                        [tasks EXCEPT ![TRUE] = tasks[TRUE]]}
        BY Zenon, <1>4 DEF HandleSubscriberAnswer
      <3>2. tasks[TRUE] \in Nat
        BY Zenon DEF OfferTypes
      <3>3. tasks[TRUE] + 1 \in Nat
        BY Zenon, <3>2, NextNat
      <3>4. QED
        BY Zenon, <3>1, <3>2, <3>3 DEF OfferTypes
    <2>2. needs' \in BOOLEAN /\ answerPending' \in BOOLEAN /\ failed' \in BOOLEAN
      BY Zenon, <1>4 DEF OfferTypes, HandleSubscriberAnswer, flags
    <2>3. wire' \in {"none", "offer", "answer"}
      BY <1>4 DEF HandleSubscriberAnswer
    <2>4. QED
      BY Zenon, <1>4, <2>1, <2>2, <2>3 DEF OfferTypes, HandleSubscriberAnswer
  <1>5. CASE ClientAnswers \/ LoseMessage
    <2>1. wire' \in {"none", "offer", "answer"}
      BY <1>5 DEF ClientAnswers, LoseMessage
    <2>2. failed' \in BOOLEAN
      BY Zenon, <1>5 DEF OfferTypes, ClientAnswers, LoseMessage
    <2>3. QED
      BY Zenon, <1>5, <2>1, <2>2 DEF OfferTypes, ClientAnswers, LoseMessage, flags
  <1>6. QED
    BY Zenon, <1>1, <1>2, <1>3, <1>4, <1>5 DEF Negotiate

\* The negotiation keeps its types.
LEMMA OfferTypesStep ==
    ASSUME OfferTypes, [Next]_vars
    PROVE  OfferTypes'
  <1>1. CASE Negotiate \/ ClientAnswers \/ LoseMessage
    BY <1>1, NegotiateTyped
  <1>2. ASSUME NEW t \in Tracks, NEW c \in Callers, Subscribe(t, c) \/ Unsubscribe(t, c)
        PROVE  OfferTypes'
    <2>1. senders' \subseteq Calls
      <3>1. senders \cup {<<t, c>>} \subseteq Calls
        BY DEF OfferTypes, Calls
      <3>2. \/ senders' = senders
            \/ senders' = senders \cup {<<t, c>>}
            \/ senders' = senders \ {<<t, taken[t][c]>>}
        BY Zenon, <1>2 DEF Subscribe, Unsubscribe, LookUpForwarder, AttachTrack, InsertSender,
              AddSubscriber, TakeSender, RemoveSubscriber, DetachTrack
      <3>3. QED
        BY Zenon, <3>1, <3>2 DEF OfferTypes
    <2>2. CASE LookUpForwarder(t, c)
      BY Zenon, <2>1, <2>2, OfferFrame DEF LookUpForwarder, OfferTypes
    <2>3. CASE AttachTrack(t, c) \/ InsertSender(t, c) \/ TakeSender(t, c)
               \/ RemoveSubscriber(t, c)
      BY Zenon, <2>1, <2>3, OfferFrame
         DEF AttachTrack, InsertSender, TakeSender, RemoveSubscriber, OfferTypes
    <2>4. CASE AddSubscriber(t, c) \/ DetachTrack(t, c)
      BY Zenon, <2>1, <2>4, RequestTyped DEF AddSubscriber, DetachTrack
    <2>5. QED
      BY Zenon, <1>2, <2>2, <2>3, <2>4 DEF Subscribe, Unsubscribe
  <1>3. CASE StartReading \/ SyncState
    BY Zenon, <1>3, RequestTyped DEF StartReading, SyncState, OfferTypes
  <1>4. CASE ListTracks \/ ReleaseForwarders \/ Join
    BY Zenon, <1>4, OfferFrame DEF ListTracks, ReleaseForwarders, Join, OfferTypes
  <1>0. CASE SetupSubscriber
    BY Zenon, <1>0 DEF SetupSubscriber, OfferTypes, flags
  <1>5. CASE EndParticipant \/ ClearMedia
    BY Zenon, <1>5, OfferFrame DEF EndParticipant, ClearMedia, OfferTypes
  <1>6. CASE \E t \in Tracks : SubscribeExisting(t)
    BY Zenon, <1>6, OfferFrame DEF SubscribeExisting, OfferTypes
  <1>7. CASE Publishing
    BY Zenon, <1>7, OfferFrame DEF Publishing, AddTrack, OnTrack, OnTrackPublished, LoopEnds,
                            OnTrackUnpublished, OfferTypes
  <1>8. CASE \E t \in Tracks, op \in {"add", "remove"} : UpdateSubscription(t, op)
    BY Zenon, <1>8, OfferFrame DEF UpdateSubscription, OfferTypes
  <1>9. CASE UNCHANGED vars
    BY Zenon, <1>9, OfferFrame DEF vars, OfferTypes
  <1>10. QED
    BY Zenon, <1>0, <1>1, <1>2, <1>3, <1>4, <1>5, <1>6, <1>7, <1>8, <1>9
       DEF Next, Progress, Requests
\* The call of c for t moves to v.
LEMMA CallTyped ==
    ASSUME MapTypes, NEW t \in Tracks, NEW c \in Callers, NEW v \in CallFrames, To(t, c, v)
    PROVE  call' \in [Tracks -> [Callers -> CallFrames]]
  <1>1. [call[t] EXCEPT ![c] = v] \in [Callers -> CallFrames]
    BY DEF MapTypes
  <1>2. call' = [call EXCEPT ![t] = [call[t] EXCEPT ![c] = v]]
    BY DEF To, MapTypes
  <1>3. QED
    BY Zenon, <1>1, <1>2 DEF MapTypes

LEMMA TakenTyped ==
    ASSUME MapTypes, NEW t \in Tracks, NEW c \in Callers, NEW v \in Callers \cup {NoCall},
           taken' = [taken EXCEPT ![t][c] = v]
    PROVE  taken' \in [Tracks -> [Callers -> Callers \cup {NoCall}]]
  <1>1. [taken[t] EXCEPT ![c] = v] \in [Callers -> Callers \cup {NoCall}]
    BY DEF MapTypes
  <1>2. taken' = [taken EXCEPT ![t] = [taken[t] EXCEPT ![c] = v]]
    BY DEF MapTypes
  <1>3. QED
    BY Zenon, <1>1, <1>2 DEF MapTypes

\* The frames that the calls go through.
LEMMA FramesKnown ==
    /\ \A v \in {"idle", "add", "attach", "insert", "fan", "remove", "release", "detach"} :
          v \in CallFrames
    /\ {"join", "publish", "update"} = Callers
  BY DEF CallFrames, Callers

\* The steps of add_subscription and remove_subscription keep the types of the maps.
LEMMA CallsTyped ==
    ASSUME MapTypes, NEW t \in Tracks, NEW c \in Callers, Subscribe(t, c) \/ Unsubscribe(t, c)
    PROVE  MapTypes' /\ UNCHANGED <<subscriberVars, trackVars>>
  <1>1. CASE LookUpForwarder(t, c)
    <2>1. PICK v \in {"attach", "idle"} : To(t, c, v)
      BY Zenon, <1>1 DEF LookUpForwarder, Refuse
    <2>2. call' \in [Tracks -> [Callers -> CallFrames]]
      BY Zenon, <2>1, CallTyped, FramesKnown
    <2>3. QED
      BY Zenon, <1>1, <2>2 DEF MapTypes, LookUpForwarder, Refuse
  <1>2. CASE AttachTrack(t, c)
    <2>1. PICK v \in {"insert", "idle"} : To(t, c, v)
      BY Zenon, <1>2 DEF AttachTrack, Refuse
    <2>2. call' \in [Tracks -> [Callers -> CallFrames]]
      BY Zenon, <2>1, CallTyped, FramesKnown
    <2>3. QED
      BY Zenon, <1>2, <2>2 DEF MapTypes, AttachTrack, Refuse
  <1>3. CASE InsertSender(t, c)
    <2>1. call' \in [Tracks -> [Callers -> CallFrames]]
      BY Zenon, <1>3, CallTyped, FramesKnown DEF InsertSender
    <2>2. senderOf' \in [Tracks -> Callers \cup {NoCall}]
      BY Zenon, <1>3 DEF MapTypes, InsertSender
    <2>3. QED
      BY Zenon, <1>3, <2>1, <2>2 DEF MapTypes, InsertSender
  <1>4. CASE AddSubscriber(t, c)
    <2>1. call' \in [Tracks -> [Callers -> CallFrames]]
      BY Zenon, <1>4, CallTyped, FramesKnown DEF AddSubscriber
    <2>2. fanout' \in [Tracks -> Callers \cup {NoCall}]
      BY Zenon, <1>4 DEF MapTypes, AddSubscriber
    <2>3. QED
      BY Zenon, <1>4, <2>1, <2>2 DEF MapTypes, AddSubscriber
  <1>5. CASE TakeSender(t, c)
    <2>1. call' \in [Tracks -> [Callers -> CallFrames]]
      BY Zenon, <1>5, CallTyped, FramesKnown DEF TakeSender
    <2>2. senderOf[t] \in Callers \cup {NoCall}
      BY Zenon DEF MapTypes
    <2>3. taken' \in [Tracks -> [Callers -> Callers \cup {NoCall}]]
      BY Zenon, <1>5, <2>2, TakenTyped DEF TakeSender
    <2>4. senderOf' \in [Tracks -> Callers \cup {NoCall}]
      BY Zenon, <1>5 DEF MapTypes, TakeSender
    <2>5. QED
      BY Zenon, <1>5, <2>1, <2>3, <2>4 DEF MapTypes, TakeSender
  <1>6. CASE RemoveSubscriber(t, c)
    <2>1. call' \in [Tracks -> [Callers -> CallFrames]]
      BY Zenon, <1>6, CallTyped, FramesKnown DEF RemoveSubscriber
    <2>2. fanout' \in [Tracks -> Callers \cup {NoCall}]
      BY Zenon, <1>6 DEF MapTypes, RemoveSubscriber
    <2>3. QED
      BY Zenon, <1>6, <2>1, <2>2 DEF MapTypes, RemoveSubscriber
  <1>7. CASE DetachTrack(t, c)
    <2>1. call' \in [Tracks -> [Callers -> CallFrames]]
      BY Zenon, <1>7, CallTyped, FramesKnown DEF DetachTrack
    <2>2. taken' \in [Tracks -> [Callers -> Callers \cup {NoCall}]]
      BY Zenon, <1>7, TakenTyped DEF DetachTrack
    <2>3. QED
      BY Zenon, <1>7, <2>1, <2>2 DEF MapTypes, DetachTrack, mapVars
  <1>8. QED
    BY Zenon, <1>1, <1>2, <1>3, <1>4, <1>5, <1>6, <1>7 DEF Subscribe, Unsubscribe

\* The session, the tracks and the calls keep their types.
LEMMA SessionTypesStep ==
    ASSUME SessionTypes, MapTypes, [Next]_vars
    PROVE  SessionTypes' /\ MapTypes'
  <1>1. CASE UNCHANGED <<subscriberVars, trackVars, callVars, mapVars>>
    BY Zenon, <1>1 DEF SessionTypes, MapTypes, subscriberVars, trackVars, callVars, mapVars
  <1>2. ASSUME NEW t \in Tracks, NEW c \in Callers, Subscribe(t, c) \/ Unsubscribe(t, c)
        PROVE  SessionTypes' /\ MapTypes'
    BY Zenon, <1>2, CallsTyped DEF SessionTypes, subscriberVars, trackVars
  <1>3. CASE SetupSubscriber \/ ListTracks \/ StartReading \/ Join \/ SyncState
    <2>1. session' \in Sessions /\ existing' \subseteq Tracks
      BY Zenon, <1>3 DEF SetupSubscriber, ListTracks, StartReading, Join, SyncState,
                         SessionTypes, Sessions
    <2>2. inRoom' \in BOOLEAN
      BY Zenon, <1>3 DEF SetupSubscriber, ListTracks, StartReading, Join, SyncState, SessionTypes
    <2>3. QED
      BY Zenon, <1>3, <2>1, <2>2
         DEF SetupSubscriber, ListTracks, StartReading, Join, SyncState, SessionTypes, MapTypes,
             trackVars, callVars, mapVars
  <1>4. ASSUME NEW t \in Tracks, SubscribeExisting(t)
        PROVE  SessionTypes' /\ MapTypes'
    <2>1. call' \in [Tracks -> [Callers -> CallFrames]]
      BY Zenon, <1>4, CallTyped, FramesKnown DEF SubscribeExisting
    <2>2. QED
      BY Zenon, <1>4, <2>1 DEF SubscribeExisting, SessionTypes, MapTypes, trackVars, mapVars
  <1>5. ASSUME NEW t \in Tracks, AddTrack(t) \/ OnTrack(t) \/ LoopEnds(t)
        PROVE  SessionTypes' /\ MapTypes'
    <2>1. trackPc' \in [Tracks -> TrackFrames]
      BY Zenon, <1>5 DEF AddTrack, OnTrack, LoopEnds, SessionTypes, TrackFrames
    <2>2. published' \subseteq Tracks /\ forwarders' \subseteq Tracks
      BY Zenon, <1>5 DEF AddTrack, OnTrack, LoopEnds, SessionTypes
    <2>3. QED
      BY Zenon, <1>5, <2>1, <2>2
         DEF AddTrack, OnTrack, LoopEnds, SessionTypes, MapTypes, subscriberVars, callVars, mapVars
  <1>6. ASSUME NEW t \in Tracks, OnTrackPublished(t) \/ OnTrackUnpublished(t)
        PROVE  SessionTypes' /\ MapTypes'
    <2>1. trackPc' \in [Tracks -> TrackFrames]
      BY Zenon, <1>6 DEF OnTrackPublished, OnTrackUnpublished, SessionTypes, TrackFrames
    <2>2. PICK v \in {"add", "remove", "idle"} : To(t, "publish", v)
      BY <1>6 DEF OnTrackPublished, OnTrackUnpublished
    <2>3. call' \in [Tracks -> [Callers -> CallFrames]]
      BY Zenon, <2>2, CallTyped, FramesKnown
    <2>4. QED
      BY Zenon, <1>6, <2>1, <2>3
         DEF OnTrackPublished, OnTrackUnpublished, SessionTypes, MapTypes, subscriberVars, mapVars
  <1>7. ASSUME NEW t \in Tracks, NEW op \in {"add", "remove"}, UpdateSubscription(t, op)
        PROVE  SessionTypes' /\ MapTypes'
    <2>1. call' \in [Tracks -> [Callers -> CallFrames]]
      BY Zenon, <1>7, CallTyped, FramesKnown DEF UpdateSubscription
    <2>2. session' \in Sessions
      BY Zenon, <1>7 DEF UpdateSubscription, Sessions
    <2>3. QED
      BY Zenon, <1>7, <2>1, <2>2 DEF UpdateSubscription, SessionTypes, MapTypes, trackVars, mapVars
  <1>8. CASE EndParticipant \/ ClearMedia \/ ReleaseForwarders
    <2>1. inRoom' \in BOOLEAN /\ endPc' \in {"idle", "clear", "release", "done"}
      BY Zenon, <1>8 DEF EndParticipant, ClearMedia, ReleaseForwarders, SessionTypes
    <2>2. /\ senderOf' \in [Tracks -> Callers \cup {NoCall}]
          /\ fanout' \in [Tracks -> Callers \cup {NoCall}]
      BY Zenon, <1>8 DEF EndParticipant, ClearMedia, ReleaseForwarders, MapTypes, mapVars
    <2>3. QED
      BY Zenon, <1>8, <2>1, <2>2
         DEF EndParticipant, ClearMedia, ReleaseForwarders, SessionTypes, MapTypes, trackVars,
             callVars, mapVars
  <1>9. CASE UNCHANGED vars
    BY Zenon, <1>1, <1>9 DEF vars
  <1>10. QED
    BY Zenon, <1>1, <1>2, <1>3, <1>4, <1>5, <1>6, <1>7, <1>8, <1>9
       DEF Next, Progress, Publishing, Requests

\* A call that moves leaves the others where they are.
LEMMA CallGoes ==
    ASSUME MapTypes, NEW t \in Tracks, NEW c \in Callers, NEW v, To(t, c, v)
    PROVE  /\ call'[t][c] = v
           /\ \A u \in Tracks, d \in Callers : (u = t /\ d = c) \/ call'[u][d] = call[u][d]
  BY DEF MapTypes, To

\* Nothing is asked for twice.
Onward == \A t \in Tracks, c \in Callers : HasAdded(t, c) => HasAdded(t, c)'

LEMMA SameTracks ==
    ASSUME UNCHANGED <<subscriberVars, trackVars>>
    PROVE  Onward /\ (EndIsGone /\ UNCHANGED gone => EndIsGone')
  <1>1. Onward
    BY DEF Onward, HasAdded, subscriberVars, trackVars
  <1>2. EndIsGone /\ UNCHANGED gone => EndIsGone'
    BY DEF EndIsGone, subscriberVars
  <1>3. QED
    BY <1>1, <1>2

\* The steps that leave the calls, the senders and the maps alone.
LEMMA MapFrame ==
    ASSUME MapInv, Onward, gone => gone', EndIsGone',
           UNCHANGED <<callVars, senderOf, senders>>
    PROVE  MapInv'
  BY Zenon DEF MapInv, Onward, OnceAdded, InMapsOnce, MapsInStep, InMaps, callVars

\* A call that goes on without a sender.
LEMMA CallMapped ==
    ASSUME MapInv, MapTypes, Onward, EndIsGone', UNCHANGED <<gone, senders, taken, senderOf>>,
           NEW t \in Tracks, NEW c \in Callers, NEW v, To(t, c, v), v # "insert",
           v # "idle" => HasAdded(t, c)',
           v \in {"add", "attach"} => ~InMaps(t, c)
    PROVE  MapInv'
  <1>1. /\ call'[t][c] = v
        /\ \A u \in Tracks, d \in Callers : (u = t /\ d = c) \/ call'[u][d] = call[u][d]
    BY Zenon, CallGoes
  <1>2. \A u \in Tracks, d \in Callers : InMaps(u, d)' <=> InMaps(u, d)
    BY Zenon DEF InMaps
  <1>3. OnceAdded'
    BY Zenon, <1>1, <1>2 DEF MapInv, OnceAdded, Onward
  <1>4. InMapsOnce'
    <2>1. \A u \in Tracks, d \in Callers :
             InMaps(u, d)' => call'[u][d] \notin {"add", "attach", "insert"}
      BY <1>1, <1>2 DEF MapInv, InMapsOnce
    <2>2. \A u \in Tracks, d, e \in Callers : taken'[u][e] = d => senderOf'[u] # d
      BY Zenon DEF MapInv, InMapsOnce
    <2>3. QED
      BY Zenon, <2>1, <2>2 DEF InMapsOnce
  <1>5. MapsInStep'
    BY Zenon, <1>1 DEF MapInv, MapsInStep
  <1>6. QED
    BY Zenon, <1>3, <1>4, <1>5 DEF MapInv

\* The frames of add_subscription before the maps, and that of the maps.
LEMMA AttachMapped ==
    ASSUME MapInv, MapTypes, NEW t \in Tracks, NEW c \in Callers, AttachTrack(t, c)
    PROVE  MapInv'
  <1>1. /\ call[t][c] = "attach"
        /\ UNCHANGED <<gone, taken, senderOf, subscriberVars, trackVars>>
    BY Zenon DEF AttachTrack
  <1>2. Onward /\ EndIsGone' /\ HasAdded(t, c) /\ ~InMaps(t, c)
    BY <1>1, SameTracks DEF MapInv, OnceAdded, InMapsOnce
  <1>3. CASE Refuse(t, c) /\ UNCHANGED senders
    BY <1>1, <1>2, <1>3, CallMapped DEF Refuse
  <1>4. CASE senders' = senders \cup {<<t, c>>} /\ To(t, c, "insert")
    <2>2. /\ call'[t][c] = "insert"
          /\ \A u \in Tracks, d \in Callers : (u = t /\ d = c) \/ call'[u][d] = call[u][d]
      BY Zenon, <1>4, CallGoes
    <2>3. \A u \in Tracks, d \in Callers : InMaps(u, d)' <=> InMaps(u, d)
      BY Zenon, <1>1 DEF InMaps
    <2>4. OnceAdded'
      BY Zenon, <1>2, <2>2, <2>3 DEF MapInv, OnceAdded, Onward
    <2>5. InMapsOnce'
      <3>1. \A u \in Tracks, d \in Callers :
               InMaps(u, d)' => call'[u][d] \notin {"add", "attach", "insert"}
        BY <1>2, <2>2, <2>3 DEF MapInv, InMapsOnce
      <3>2. \A u \in Tracks, d, e \in Callers : taken'[u][e] = d => senderOf'[u] # d
        BY Zenon, <1>1 DEF MapInv, InMapsOnce
      <3>3. QED
        BY Zenon, <3>1, <3>2 DEF InMapsOnce
    <2>6. MapsInStep'
      BY Zenon, <1>1, <1>4, <2>2 DEF MapInv, MapsInStep
    <2>7. QED
      BY Zenon, <1>2, <2>4, <2>5, <2>6 DEF MapInv
  <1>5. QED
    BY Zenon, <1>3, <1>4 DEF AttachTrack

LEMMA InsertMapped ==
    ASSUME MapInv, MapTypes, NEW t \in Tracks, NEW c \in Callers, InsertSender(t, c)
    PROVE  MapInv'
  <1>1. /\ call[t][c] = "insert" /\ To(t, c, "fan")
        /\ senderOf' = [senderOf EXCEPT ![t] = c]
        /\ UNCHANGED <<gone, senders, taken, subscriberVars, trackVars>>
    BY Zenon DEF InsertSender
  <1>2. Onward /\ EndIsGone' /\ HasAdded(t, c) /\ ~InMaps(t, c)
    BY <1>1, SameTracks DEF MapInv, OnceAdded, InMapsOnce
  <1>3. /\ call'[t][c] = "fan"
        /\ \A u \in Tracks, d \in Callers : (u = t /\ d = c) \/ call'[u][d] = call[u][d]
    BY Zenon, <1>1, CallGoes
  <1>4. senderOf'[t] = c /\ \A u \in Tracks : u = t \/ senderOf'[u] = senderOf[u]
    BY Zenon, <1>1 DEF MapTypes
  <1>5. \A u \in Tracks, d \in Callers : InMaps(u, d)' => InMaps(u, d) \/ (u = t /\ d = c)
    BY Zenon, <1>1, <1>4 DEF InMaps
  <1>6. OnceAdded'
    BY Zenon, <1>2, <1>3, <1>5 DEF MapInv, OnceAdded, Onward
  <1>7. InMapsOnce'
    <2>1. \A u \in Tracks, d \in Callers :
             InMaps(u, d)' => call'[u][d] \notin {"add", "attach", "insert"}
      BY <1>3, <1>5 DEF MapInv, InMapsOnce
    <2>2. \A d \in Callers : taken[t][d] # c
      BY Zenon, <1>2 DEF InMaps
    <2>3. \A u \in Tracks, d, e \in Callers : taken'[u][e] = d => senderOf'[u] # d
      BY <1>1, <1>4, <2>2 DEF MapInv, InMapsOnce
    <2>4. QED
      BY Zenon, <2>1, <2>3 DEF InMapsOnce
  <1>8. MapsInStep'
    <2> SUFFICES ASSUME ~gone, NEW u \in Tracks, NEW d \in Callers,
                        call'[u][d] = "insert" \/ senderOf'[u] = d
                 PROVE  <<u, d>> \in senders
      BY <1>1 DEF MapsInStep
    <2>1. call[u][d] = "insert" \/ senderOf[u] = d
      BY <1>1, <1>3, <1>4
    <2>2. QED
      BY Zenon, <2>1 DEF MapInv, MapsInStep
  <1>9. QED
    BY Zenon, <1>2, <1>6, <1>7, <1>8 DEF MapInv

\* remove_subscription takes an entry out, and detaches the sender it took.
LEMMA TakeMapped ==
    ASSUME MapInv, MapTypes, NEW t \in Tracks, NEW c \in Callers, TakeSender(t, c)
    PROVE  MapInv'
  <1>1. /\ call[t][c] = "remove" /\ To(t, c, "release")
        /\ taken' = [taken EXCEPT ![t][c] = senderOf[t]]
        /\ senderOf' = [senderOf EXCEPT ![t] = NoCall]
        /\ UNCHANGED <<gone, senders, subscriberVars, trackVars>>
    BY Zenon DEF TakeSender
  <1>2. Onward /\ EndIsGone' /\ HasAdded(t, c)
    BY <1>1, SameTracks DEF MapInv, OnceAdded
  <1>3. /\ call'[t][c] = "release"
        /\ \A u \in Tracks, d \in Callers : (u = t /\ d = c) \/ call'[u][d] = call[u][d]
    BY Zenon, <1>1, CallGoes
  <1>4. /\ senderOf'[t] = NoCall
        /\ \A u \in Tracks : u = t \/ senderOf'[u] = senderOf[u]
        /\ taken'[t][c] = senderOf[t]
        /\ \A u \in Tracks, d \in Callers : (u = t /\ d = c) \/ taken'[u][d] = taken[u][d]
    BY <1>1 DEF MapTypes
  <1>5. \A u \in Tracks, d \in Callers : InMaps(u, d)' => InMaps(u, d)
    BY <1>4, NoCallAssumption DEF InMaps
  <1>6. OnceAdded'
    BY Zenon, <1>2, <1>3, <1>5 DEF MapInv, OnceAdded, Onward
  <1>7. InMapsOnce'
    <2>1. \A u \in Tracks, d \in Callers :
             InMaps(u, d)' => call'[u][d] \notin {"add", "attach", "insert"}
      BY <1>3, <1>5 DEF MapInv, InMapsOnce
    <2>2. \A u \in Tracks, d, e \in Callers : taken'[u][e] = d => senderOf'[u] # d
      BY <1>4, NoCallAssumption DEF MapInv, InMapsOnce
    <2>3. QED
      BY Zenon, <2>1, <2>2 DEF InMapsOnce
  <1>8. MapsInStep'
    BY <1>1, <1>3, <1>4, NoCallAssumption DEF MapInv, MapsInStep
  <1>9. QED
    BY Zenon, <1>2, <1>6, <1>7, <1>8 DEF MapInv

LEMMA DetachMapped ==
    ASSUME MapInv, MapTypes, NEW t \in Tracks, NEW c \in Callers, DetachTrack(t, c)
    PROVE  MapInv'
  <1>1. /\ call[t][c] = "detach" /\ To(t, c, "idle")
        /\ senders' = senders \ {<<t, taken[t][c]>>}
        /\ taken' = [taken EXCEPT ![t][c] = NoCall]
        /\ UNCHANGED <<gone, senderOf, subscriberVars, trackVars>>
    BY Zenon DEF DetachTrack, mapVars
  <1>2. Onward /\ EndIsGone'
    BY <1>1, SameTracks DEF MapInv
  <1>3. /\ call'[t][c] = "idle"
        /\ \A u \in Tracks, d \in Callers : (u = t /\ d = c) \/ call'[u][d] = call[u][d]
    BY Zenon, <1>1, CallGoes
  <1>4. /\ taken'[t][c] = NoCall
        /\ \A u \in Tracks, d \in Callers : (u = t /\ d = c) \/ taken'[u][d] = taken[u][d]
    BY <1>1 DEF MapTypes
  <1>5. \A u \in Tracks, d \in Callers : InMaps(u, d)' => InMaps(u, d)
    BY <1>1, <1>4, NoCallAssumption DEF InMaps
  <1>6. OnceAdded'
    BY Zenon, <1>2, <1>3, <1>5 DEF MapInv, OnceAdded, Onward
  <1>7. InMapsOnce'
    <2>1. \A u \in Tracks, d \in Callers :
             InMaps(u, d)' => call'[u][d] \notin {"add", "attach", "insert"}
      BY <1>3, <1>5 DEF MapInv, InMapsOnce
    <2>2. \A u \in Tracks, d, e \in Callers : taken'[u][e] = d => senderOf'[u] # d
      BY <1>1, <1>4, NoCallAssumption DEF MapInv, InMapsOnce
    <2>3. QED
      BY Zenon, <2>1, <2>2 DEF InMapsOnce
  <1>8. MapsInStep'
    <2> SUFFICES ASSUME ~gone, NEW u \in Tracks, NEW d \in Callers,
                        call'[u][d] = "insert" \/ senderOf'[u] = d
                 PROVE  <<u, d>> \in senders'
      BY <1>1 DEF MapsInStep
    <2>1. call[u][d] = "insert" \/ senderOf[u] = d
      BY <1>1, <1>3
    <2>2. <<u, d>> \in senders
      BY <2>1 DEF MapInv, MapsInStep
    <2>3. ~(u = t /\ d = taken[t][c])
      BY <2>1 DEF MapInv, InMapsOnce, InMaps
    <2>4. QED
      BY <1>1, <2>2, <2>3
  <1>9. QED
    BY Zenon, <1>2, <1>6, <1>7, <1>8 DEF MapInv

\* Every step keeps the maps in step with the peer connection.
LEMMA MapStep ==
    ASSUME MapInv, MapTypes, SessionTypes, [Next]_vars
    PROVE  MapInv'
  <1>1. ASSUME NEW t \in Tracks, NEW c \in Callers, Subscribe(t, c) \/ Unsubscribe(t, c)
        PROVE  MapInv'
    <2>1. CASE LookUpForwarder(t, c)
      <3>1. /\ call[t][c] = "add"
            /\ UNCHANGED <<gone, senders, taken, senderOf, subscriberVars, trackVars>>
        BY Zenon, <2>1 DEF LookUpForwarder
      <3>2. PICK v \in {"attach", "idle"} : To(t, c, v)
        BY Zenon, <2>1 DEF LookUpForwarder, Refuse
      <3>3. Onward /\ EndIsGone' /\ HasAdded(t, c)' /\ ~InMaps(t, c)
        BY <3>1, SameTracks DEF MapInv, OnceAdded, InMapsOnce, Onward
      <3>4. QED
        BY <3>1, <3>2, <3>3, CallMapped
    <2>2. CASE AddSubscriber(t, c) \/ RemoveSubscriber(t, c)
      <3>1. /\ call[t][c] # "idle"
            /\ UNCHANGED <<gone, senders, taken, senderOf, subscriberVars, trackVars>>
        BY <2>2 DEF AddSubscriber, RemoveSubscriber
      <3>2. PICK v \in {"detach", "idle"} : To(t, c, v)
        BY Zenon, <2>2 DEF AddSubscriber, RemoveSubscriber
      <3>3. Onward /\ EndIsGone' /\ HasAdded(t, c)'
        BY <3>1, SameTracks DEF MapInv, OnceAdded, Onward
      <3>4. QED
        BY <3>1, <3>2, <3>3, CallMapped
    <2>3. QED
      BY Zenon, <1>1, <2>1, <2>2, AttachMapped, InsertMapped, TakeMapped, DetachMapped
         DEF Subscribe, Unsubscribe
  <1>2. CASE SetupSubscriber \/ ListTracks \/ StartReading \/ Join \/ SyncState
    <2>1. /\ UNCHANGED <<gone, callVars, senderOf, senders, trackPc, endPc>>
          /\ session' \in {"joined", "setup", "adding", "reading", "resumed"}
          /\ session \in {"idle", "joined", "setup", "adding", "reading"}
          /\ \/ session \in {"idle", "joined", "setup"}
             \/ existing' = existing /\ session' \in {"reading", "resumed"}
      BY <1>2 DEF SetupSubscriber, ListTracks, StartReading, Join, SyncState, trackVars, mapVars
    <2>2. Onward
      BY <2>1 DEF Onward, HasAdded
    <2>3. EndIsGone'
      BY <2>1 DEF MapInv, EndIsGone
    <2>4. QED
      BY <2>1, <2>2, <2>3, MapFrame
  <1>3. ASSUME NEW t \in Tracks, SubscribeExisting(t)
        PROVE  MapInv'
    <2>1. /\ session = "adding" /\ t \in existing /\ existing' = existing \ {t}
          /\ To(t, "join", "add")
          /\ UNCHANGED <<gone, senders, taken, senderOf, session, endPc, trackPc>>
      BY Zenon, <1>3 DEF SubscribeExisting, trackVars, mapVars
    <2>2. Onward /\ HasAdded(t, "join")'
      BY <2>1 DEF Onward, HasAdded
    <2>3. ~InMaps(t, "join")
      BY <2>1 DEF MapInv, OnceAdded, HasAdded, Callers
    <2>4. EndIsGone'
      BY <2>1 DEF MapInv, EndIsGone
    <2>5. QED
      BY <2>1, <2>2, <2>3, <2>4, CallMapped DEF Callers
  <1>4. ASSUME NEW t \in Tracks, NEW op \in {"add", "remove"}, UpdateSubscription(t, op)
        PROVE  MapInv'
    <2>1. /\ session = "reading" /\ session' = op
          /\ To(t, "update", op)
          /\ UNCHANGED <<gone, senders, taken, senderOf, existing, endPc, trackPc>>
      BY Zenon, <1>4 DEF UpdateSubscription, trackVars, mapVars
    <2>2. Onward /\ HasAdded(t, "update")'
      BY <2>1 DEF Onward, HasAdded
    <2>3. ~InMaps(t, "update")
      BY <2>1 DEF MapInv, OnceAdded, HasAdded, Callers
    <2>4. EndIsGone'
      BY <2>1 DEF MapInv, EndIsGone
    <2>5. QED
      BY <2>1, <2>2, <2>3, <2>4, CallMapped DEF Callers
  <1>5. ASSUME NEW t \in Tracks, OnTrackPublished(t) \/ OnTrackUnpublished(t)
        PROVE  MapInv'
    <2>1. /\ UNCHANGED <<gone, senders, taken, senderOf, existing, session, endPc>>
          /\ trackPc' = [trackPc EXCEPT ![t] = IF trackPc[t] = "forwarding" THEN "subscribing"
                                               ELSE "unpublished"]
      BY <1>5 DEF OnTrackPublished, OnTrackUnpublished, subscriberVars, mapVars
    <2>2. PICK v \in {"add", "remove", "idle"} :
              To(t, "publish", v) /\ (v = "add" => trackPc[t] = "forwarding")
      BY <1>5 DEF OnTrackPublished, OnTrackUnpublished
    <2>3. Onward /\ HasAdded(t, "publish")'
      BY <2>1 DEF Onward, HasAdded, SessionTypes
    <2>4. v = "add" => ~InMaps(t, "publish")
      BY <2>2 DEF MapInv, OnceAdded, HasAdded, Callers
    <2>5. EndIsGone'
      BY <2>1 DEF MapInv, EndIsGone
    <2>6. QED
      BY <2>1, <2>2, <2>3, <2>4, <2>5, CallMapped DEF Callers
  <1>6. ASSUME NEW t \in Tracks, AddTrack(t) \/ OnTrack(t) \/ LoopEnds(t)
        PROVE  MapInv'
    <2>1. /\ UNCHANGED <<gone, callVars, senderOf, senders, session, existing, endPc>>
          /\ \/ trackPc[t] \in {"idle", "added"}
             \/ trackPc' = [trackPc EXCEPT ![t] = "ending"]
          /\ \A u \in Tracks : u = t \/ trackPc'[u] = trackPc[u]
          /\ t \in DOMAIN trackPc
      BY <1>6 DEF AddTrack, OnTrack, LoopEnds, SessionTypes, subscriberVars, mapVars
    <2>2. Onward
      BY <2>1 DEF Onward, HasAdded
    <2>3. EndIsGone'
      BY <2>1 DEF MapInv, EndIsGone
    <2>4. QED
      BY <2>1, <2>2, <2>3, MapFrame
  <1>7. CASE EndParticipant \/ ReleaseForwarders
    <2>1. /\ gone' = TRUE
          /\ UNCHANGED <<callVars, senderOf, senders, session, existing, trackPc>>
      BY Zenon, <1>7 DEF EndParticipant, ReleaseForwarders, MapInv, EndIsGone, trackVars, mapVars
    <2>2. Onward
      BY <2>1 DEF Onward, HasAdded
    <2>3. EndIsGone'
      BY <2>1 DEF EndIsGone
    <2>4. QED
      BY Zenon, <2>1, <2>2, <2>3, MapFrame
  <1>8. CASE ClearMedia
    <2>1. /\ gone /\ gone'
          /\ senderOf' = [t \in Tracks |-> NoCall]
          /\ UNCHANGED <<call, taken, session, existing, trackPc>>
      BY Zenon, <1>8 DEF ClearMedia, MapInv, EndIsGone, trackVars, callVars
    <2>2. Onward
      BY <2>1 DEF Onward, HasAdded
    <2>3. \A t \in Tracks, c \in Callers : InMaps(t, c)' => InMaps(t, c)
      BY <2>1, NoCallAssumption DEF InMaps
    <2>4. OnceAdded'
      BY Zenon, <2>1, <2>2, <2>3 DEF MapInv, OnceAdded, Onward
    <2>5. InMapsOnce'
      BY <2>1, <2>3, NoCallAssumption DEF MapInv, InMapsOnce
    <2>6. QED
      BY Zenon, <2>1, <2>4, <2>5 DEF MapInv, MapsInStep, EndIsGone
  <1>9. CASE /\ Negotiate \/ ClientAnswers \/ LoseMessage \/ UNCHANGED <<gone, senders>>
             /\ UNCHANGED <<subscriberVars, trackVars, callVars, mapVars>>
    <2>1. UNCHANGED <<gone, senders>>
      BY Zenon, <1>9 DEF Negotiate, SubscribeNegotiation, CreateOffer, SendOffer,
                  HandleSubscriberAnswer, ClientAnswers, LoseMessage
    <2>2. Onward /\ EndIsGone'
      BY <1>9, <2>1, SameTracks DEF MapInv
    <2>3. QED
      BY Zenon, <1>9, <2>1, <2>2, MapFrame DEF mapVars
  <1>10. CASE UNCHANGED vars
    BY Zenon, <1>9, <1>10 DEF vars
  <1>11. QED
    BY Zenon, <1>1, <1>2, <1>3, <1>4, <1>5, <1>6, <1>7, <1>8, <1>9, <1>10
       DEF Next, Progress, Publishing, Requests

\* The state has its types, and as long as the subscriber is there every entry of
\* subscriber_senders is a sender of its peer connection, however its calls of
\* add_subscription and remove_subscription for a track overlap.
THEOREM SubscriptionsTypeCorrect == Spec => []TypeOK
  <1> DEFINE I == OfferTypes /\ SessionTypes /\ MapTypes /\ MapInv
  <1>1. Init => I
    <2> SUFFICES ASSUME Init PROVE I
      OBVIOUS
    <2>1. OfferTypes
      <3>1. 0 \in 0 .. MaxOffers /\ 0 \in Nat
        BY MaxOffersAssumption
      <3>2. tasks \in [BOOLEAN -> Nat]
        BY Zenon, <3>1 DEF Init, NegotiationInit
      <3>3. nextId \in 0 .. MaxOffers /\ senders \subseteq Calls
        BY Zenon, <3>1 DEF Init, NegotiationInit
      <3>4. /\ gone \in BOOLEAN /\ pc \in BOOLEAN /\ needs \in BOOLEAN
            /\ answerPending \in BOOLEAN /\ failed \in BOOLEAN
        BY Zenon DEF Init, NegotiationInit
      <3>5. /\ holder \in {"none", "create", "send"} /\ wire \in {"none", "offer", "answer"}
            /\ offer \in (SUBSET Calls) \cup {NoOffer}
        BY DEF Init, NegotiationInit
      <3>6. QED
        BY Zenon, <3>2, <3>3, <3>4, <3>5 DEF OfferTypes
    <2>2. SessionTypes
      BY Zenon DEF Init, SessionTypes, Sessions, TrackFrames
    <2>3. MapTypes
      BY Zenon DEF Init, MapTypes, CallFrames
    <2>4. MapInv
      BY NoCallAssumption DEF Init, MapInv, OnceAdded, InMapsOnce, MapsInStep, InMaps, EndIsGone
    <2>5. QED
      BY <2>1, <2>2, <2>3, <2>4
  <1>2. I /\ [Next]_vars => I'
    BY Zenon, OfferTypesStep, SessionTypesStep, MapStep
  <1>3. I => TypeOK
    <2> SUFFICES ASSUME I PROVE TypeOK
      OBVIOUS
    <2>1. ~gone => \A t \in Tracks : senderOf[t] # NoCall => <<t, senderOf[t]>> \in senders
      <3>1. \A t \in Tracks : senderOf[t] \in Callers \cup {NoCall}
        BY Zenon DEF MapTypes
      <3>2. QED
        BY Zenon, <3>1 DEF MapInv, MapsInStep
    <2>2. QED
      BY Zenon, <2>1 DEF TypeOK, OfferTypes, SessionTypes, MapTypes, Sessions, TrackFrames,
                         CallFrames
  <1>4. QED
    BY <1>1, <1>2, <1>3, PTL DEF Spec

=============================================================================
