------------------------------ MODULE RtpStats ------------------------------
(***************************************************************************)
(* The loss statistics of a published track (media.rs): RtpStats.observe on *)
(* every packet the forwarding loop reads, and Forwarder.record_quality,    *)
(* which feeds the cumulative Prometheus counters with the change since the *)
(* last report.                                                             *)
(*                                                                         *)
(* A packet is its position in the publisher's stream; the code sees only   *)
(* the position modulo SeqMod, the 16-bit sequence number.                  *)
(***************************************************************************)
EXTENDS Integers, FiniteSets

CONSTANTS
    SeqMod,        \* 2^16
    ReportEvery,   \* record_quality runs when packets % 100 = 0
    Positions,     \* positions of the stream that can arrive
    MaxPackets,    \* bound: packets of a behaviour
    NoSeq          \* max_seq = None

ASSUME StatsAssumption ==
    /\ SeqMod \in Nat \ {0}
    /\ ReportEvery \in Nat \ {0}
    /\ Positions \subseteq Int
    /\ MaxPackets \in Nat
    /\ NoSeq \notin Int

VARIABLES
    stats,      \* packets, expected, lost, out_of_order of RtpStats
    maxSeq,     \* RtpStats.max_seq
    reported,   \* Forwarder.reported_loss
    totals,     \* the counters packet_loss_total, packet_out_of_order_total
    arrived,    \* history: positions that arrived
    skipped,    \* history: sequence numbers the high-water mark jumped over
    jumped      \* history: a packet was half the number space or more from the
                \* newest one

statsVars == <<stats, maxSeq, reported, totals, arrived, skipped, jumped>>

Half == SeqMod \div 2

NoLoss == [lost |-> 0, outOfOrder |-> 0]

StatsInit ==
    /\ stats = [packets |-> 0, expected |-> 0, lost |-> 0, outOfOrder |-> 0]
    /\ maxSeq = NoSeq
    /\ reported = NoLoss
    /\ totals = NoLoss
    /\ arrived = {}
    /\ skipped = 0
    /\ jumped = FALSE

-----------------------------------------------------------------------------
(* RtpStats.observe: the next value of the statistics *)

\* The first packet.
FirstPacket ==
    [packets |-> stats.packets + 1, expected |-> 1,
     lost |-> stats.lost, outOfOrder |-> stats.outOfOrder]

\* Mutant: a packet that comes late stays lost.
LateStaysLost ==
    [stats EXCEPT !.packets = @ + 1, !.expected = @ + 1, !.outOfOrder = @ + 1]

\* A packet behind the high-water mark fills a slot that counted as lost.
LatePacket ==
    [packets |-> stats.packets + 1,
     expected |-> stats.expected + 1,
     lost |-> IF stats.lost > 0 THEN stats.lost - 1 ELSE 0,
     outOfOrder |-> stats.outOfOrder + 1]

\* A packet gap numbers ahead of the high-water mark.
PacketAhead(gap) ==
    [packets |-> stats.packets + 1,
     expected |-> stats.expected + gap,
     lost |-> stats.lost + (gap - 1),
     outOfOrder |-> stats.outOfOrder]

DuplicatePacket ==
    [packets |-> stats.packets + 1, expected |-> stats.expected + 1,
     lost |-> stats.lost, outOfOrder |-> stats.outOfOrder]

Observe(seq) ==
    LET behind == (maxSeq - seq) % SeqMod
        gap == (seq - maxSeq) % SeqMod
        late == behind > 0 /\ behind < Half
        ahead == gap > 0 /\ gap < Half
    IN \/ /\ maxSeq = NoSeq
          /\ stats' = FirstPacket
          /\ maxSeq' = seq
          /\ UNCHANGED skipped
       \/ /\ maxSeq # NoSeq /\ late
          /\ stats' = LatePacket
          /\ UNCHANGED <<maxSeq, skipped>>
       \/ /\ maxSeq # NoSeq /\ ~late /\ ahead
          /\ stats' = PacketAhead(gap)
          /\ maxSeq' = seq
          /\ skipped' = skipped + (gap - 1)
       \/ /\ maxSeq # NoSeq /\ ~late /\ ~ahead
          /\ stats' = DuplicatePacket
          /\ UNCHANGED <<maxSeq, skipped>>

-----------------------------------------------------------------------------
(* record_quality *)

\* u64::saturating_sub.
SaturatingSub(x, y) == IF x > y THEN x - y ELSE 0

\* Mutant: the counters are fed the absolute values.
RecordAbsolute(s) ==
    /\ totals' = [lost |-> totals.lost + s.lost,
                  outOfOrder |-> totals.outOfOrder + s.outOfOrder]
    /\ reported' = [lost |-> s.lost, outOfOrder |-> s.outOfOrder]

\* lost may be below what was reported: late packets were taken off it.
RecordQuality(s) ==
    /\ totals' =
         [lost |-> totals.lost + SaturatingSub(s.lost, reported.lost),
          outOfOrder |-> totals.outOfOrder
                           + SaturatingSub(s.outOfOrder, reported.outOfOrder)]
    /\ reported' = [lost |-> s.lost, outOfOrder |-> s.outOfOrder]

\* The newest packet, the highest position that arrived, is that far away.
Jumps(pos) ==
    \E q \in arrived :
        /\ \A r \in arrived : r <= q
        /\ pos - q >= Half \/ q - pos >= Half

\* One round of the forwarding loop.
ForwardPacket(pos) ==
    /\ stats.packets < MaxPackets
    /\ Observe(pos % SeqMod)
    /\ arrived' = arrived \cup {pos}
    /\ jumped' = (jumped \/ Jumps(pos))
    /\ \/ /\ stats'.packets % ReportEvery = 0
          /\ RecordQuality(stats')
       \/ /\ stats'.packets % ReportEvery # 0
          /\ UNCHANGED <<reported, totals>>

StatsNext == \E pos \in Positions : ForwardPacket(pos)

StatsSpec == StatsInit /\ [][StatsNext]_statsVars

-----------------------------------------------------------------------------
(* Properties *)

StatsTypeOK ==
    /\ stats \in [packets : Nat, expected : Nat, lost : Nat, outOfOrder : Nat]
    /\ maxSeq \in Int \cup {NoSeq}
    /\ reported \in [lost : Nat, outOfOrder : Nat]
    /\ totals \in [lost : Nat, outOfOrder : Nat]
    /\ arrived \in SUBSET Positions
    /\ skipped \in Nat
    /\ jumped \in BOOLEAN

\* The numbers add up whatever arrives, so the percentages of loss_percent and
\* out_of_order_percent are at most 100: no packet is both received and lost,
\* and no packet that was never skipped becomes lost.
LossAddsUp ==
    /\ stats.packets + stats.lost <= stats.expected
    /\ stats.outOfOrder <= stats.packets
    /\ stats.lost <= skipped

\* "Cumulative counters: feed the delta since the last report": although lost
\* goes down again when packets come late, the counter is never below the loss
\* last reported and never counts a skipped number twice.
TotalsAddUp ==
    /\ reported.lost <= totals.lost
    /\ totals.lost + SaturatingSub(stats.lost, reported.lost) <= skipped
    /\ reported.outOfOrder = totals.outOfOrder

\* "Fills one previously-missing slot, so it is not counted as loss": the
\* packets reported lost are at most the positions below the highest that
\* did not arrive, so a track is never blamed for more than it lost.  (They can
\* be strictly fewer: a second copy of a late packet is taken off as well.)
\* This holds, however far the stream has come, until a packet is half the number
\* space or more from the newest one: observe takes one that late for one ahead.
LossIsReal ==
    ~jumped => \A lo, hi \in arrived :
        (\A q \in arrived : lo <= q /\ q <= hi) =>
            stats.lost <= Cardinality((lo .. hi) \ arrived)

=============================================================================
