--------------------------- MODULE AnalyticsProofs ---------------------------
(***************************************************************************)
(* Theorems about Analytics, for every topic, window, delay and cut into   *)
(* batches, and any number of restarts: what orders_per_minute counts,     *)
(* which rows the late-event detector flags, and how often a row is        *)
(* appended.                                                               *)
(***************************************************************************)
EXTENDS Analytics, FiniteSetTheorems, WellFoundedInduction, TLAPS

-----------------------------------------------------------------------------
(* The inductive invariant.                                                *)

\* The windowed query.  The state of a window that is open counts its creations
\* so far; the sink is either as far as the state or one batch ahead of it; and
\* a creation that is later than the watermark by the delay has been committed.
WindowedInv ==
    /\ wpc = "idle" <=> wdone = wend
    /\ wm > 0 => \E j \in Created(1, wdone) : topic[j].time >= wm + Delay
    /\ \A w \in Windows : End(w) > lateWm =>
        /\ state[w] = Cardinality(CreatedIn(w, wdone))
        /\ sink[w] \in {Cardinality(CreatedIn(w, wdone)), Cardinality(CreatedIn(w, wend))}
        /\ wpc = "commit" => sink[w] = Cardinality(CreatedIn(w, wend))
    /\ OnTimeIsCounted
    /\ NothingCountedTwice

\* A time is the latest of some rows, and 0 if there are none.
IsMaxOf(t, rows) ==
    \/ rows = {} /\ t = 0
    \/ /\ \E i \in rows : topic[i].time = t
       /\ \A i \in rows : topic[i].time <= t

\* The rows the detector has compared: the batch counts once it is flagged.
Compared == IF dpc \in {"raise", "commit"} THEN dend ELSE ddone

\* The detector.  The stored time can be a batch ahead only after a restart or
\* before the checkpoint; the batch that runs again was flagged once for each.
DetectorInv ==
    /\ dpc = "idle" <=> ddone = dend
    /\ dend <= ddone + MaxOffsets
    /\ IsMaxOf(stored, Parsed(1, ddone)) \/ IsMaxOf(stored, Parsed(1, dend))
    /\ dpc = "commit" => IsMaxOf(stored, Parsed(1, dend))
    /\ dpc \in {"flag", "raise"} /\ crashes = 0 => IsMaxOf(stored, Parsed(1, ddone))
    /\ \A i \in 1 .. MaxMessages :
        /\ flagged[i] > 0 => i <= dend
        /\ flagged[i] <= 1 + crashes
        /\ i > Compared => flagged[i] <= crashes
    /\ \A i \in Parsed(1, Compared) : Behind(i, i - MaxOffsets) => flagged[i] > 0
    /\ FlaggedIsLate

\* The alerts written: those of the batch count once it is appended.
Alerted == IF apc = "commit" THEN aend ELSE adone

AlertsInv ==
    /\ apc = "idle" <=> adone = aend
    /\ \A i \in DOMAIN Inventory :
        /\ alerts[i] <= 1 + crashes
        /\ i > Alerted => alerts[i] <= crashes
        /\ i <= Alerted /\ Inventory[i] => alerts[i] > 0

AnalyticsInv ==
    /\ TypeOK
    /\ WindowedInv
    /\ DetectorInv
    /\ AlertsInv

-----------------------------------------------------------------------------
(* Times and rows.                                                         *)

\* A set of numbers that holds 0 and each number's successor holds all: induction,
\* for a set in the place of a predicate.
LEMMA AllNumbers ==
    ASSUME NEW S \in SUBSET Nat, 0 \in S, \A n \in S : n + 1 \in S
    PROVE  S = Nat
<1>. DEFINE Rest == Nat \ S
            R == OpToRel(<, Nat)
<1>. SUFFICES ASSUME Rest # {} PROVE FALSE
  OBVIOUS
<1>1. Rest \subseteq Nat
  OBVIOUS
<1>2. PICK m \in Rest : \A y \in Rest : ~(<<y, m>> \in R)
  BY ONLY <1>1, Rest # {}, NatLessThanWellFounded, WFMin, Zenon
<1>3. \A y \in Rest : ~(y < m)
  BY <1>1, <1>2 DEF OpToRel
<1>4. m \in Nat /\ m # 0 /\ m \notin S
  OBVIOUS
<1>5. m - 1 \in S
  BY <1>3, <1>4
<1>6. (m - 1) + 1 \in S
  BY <1>5
<1>. QED
  BY <1>4, <1>6

HasLatest(rows) == rows = {} \/ \E i \in rows : \A j \in rows : topic[j].time <= topic[i].time

\* Some row of a nonempty set of rows is the latest.
LEMMA LatestExists ==
    ASSUME TypeOK, NEW rows \in SUBSET (1 .. Len(topic)), rows # {}
    PROVE  \E i \in rows : \A j \in rows : topic[j].time <= topic[i].time
<1>. DEFINE S == {n \in Nat : HasLatest(rows \cap (1 .. n))}
<1>1. \A i \in rows : topic[i].time \in Nat
  <2>1. \A i \in rows : topic[i] \in Message
    BY DEF TypeOK
  <2>. QED
    BY <2>1, TimeAssumption DEF Message
<1>2. 0 \in S
  BY DEF HasLatest
<1>3. ASSUME NEW n \in S PROVE n + 1 \in S
  <2>. DEFINE some == rows \cap (1 .. n)
  <2>. HasLatest(some) /\ n \in Nat
    OBVIOUS
  <2>. SUFFICES HasLatest(rows \cap (1 .. n + 1))
    OBVIOUS
  <2>1. CASE n + 1 \notin rows
    <3>1. rows \cap (1 .. n + 1) = some
      BY <2>1
    <3>. QED
      BY <3>1
  <2>2. CASE n + 1 \in rows
    <3>1. rows \cap (1 .. n + 1) = some \cup {n + 1}
      BY <2>2
    <3>2. \A j \in some \cup {n + 1} : topic[j].time \in Nat
      BY <1>1, <2>2
    <3>. HIDE DEF some
    <3>3. HasLatest(some \cup {n + 1})
      <4>1. CASE \A j \in some : topic[j].time <= topic[n + 1].time
        BY <3>2, <4>1 DEF HasLatest
      <4>2. ASSUME NEW k \in some, ~(topic[k].time <= topic[n + 1].time) PROVE HasLatest(some \cup {n + 1})
        <5>1. PICK i \in some : \A j \in some : topic[j].time <= topic[i].time
          BY <4>2 DEF HasLatest
        <5>2. topic[n + 1].time <= topic[i].time
          BY <3>2, <4>2, <5>1
        <5>. QED
          BY <5>1, <5>2 DEF HasLatest
      <4>. QED
        BY <4>1, <4>2
    <3>. QED
      BY <3>1, <3>3
  <2>. QED
    BY <2>1, <2>2
<1>4. S = Nat
  <2>. HIDE DEF S
  <2>1. S \in SUBSET Nat
    BY DEF S
  <2>. QED
    BY <1>2, <1>3, <2>1, AllNumbers
<1>5. Len(topic) \in Nat
  BY DEF TypeOK
<1>6. HasLatest(rows \cap (1 .. Len(topic)))
  BY <1>4, <1>5
<1>7. rows \cap (1 .. Len(topic)) = rows
  OBVIOUS
<1>. QED
  BY <1>6, <1>7 DEF HasLatest

LEMMA TimeTypes ==
    ASSUME TypeOK
    PROVE  \A i \in 1 .. Len(topic) :
               topic[i] \in Message /\ topic[i].time \in Times /\ topic[i].time \in Nat \ {0}
<1>1. \A i \in 1 .. Len(topic) : topic[i] \in Message
  BY DEF TypeOK
<1>. QED
  BY <1>1, TimeAssumption DEF Message

\* MaxTime is what its name says.
LEMMA MaxTimeIsMax ==
    ASSUME TypeOK, NEW rows \in SUBSET (1 .. Len(topic))
    PROVE  /\ IsMaxOf(MaxTime(rows), rows)
           /\ MaxTime(rows) \in Times \cup {0} /\ MaxTime(rows) \in Nat
<1>1. CASE rows = {}
  BY <1>1 DEF MaxTime, IsMaxOf
<1>2. CASE rows # {}
  <2>. DEFINE latest == CHOOSE t \in {topic[i].time : i \in rows} : \A i \in rows : topic[i].time <= t
  <2>1. latest \in {topic[i].time : i \in rows} /\ \A i \in rows : topic[i].time <= latest
    BY <1>2, LatestExists
  <2>2. MaxTime(rows) = latest
    BY <1>2 DEF MaxTime
  <2>. QED
    BY <2>1, <2>2, TimeTypes DEF IsMaxOf
<1>. QED
  BY <1>1, <1>2

\* Rows have one latest time.
LEMMA OneMax ==
    ASSUME TypeOK, NEW rows \in SUBSET (1 .. Len(topic)), NEW t, IsMaxOf(t, rows)
    PROVE  t = MaxTime(rows) /\ t \in Times \cup {0}
<1>1. IsMaxOf(MaxTime(rows), rows)
  BY MaxTimeIsMax
<1>. QED
  BY <1>1, TimeTypes DEF IsMaxOf

\* The latest time of the rows so far and of the next batch.
LEMMA MaxOfBoth ==
    ASSUME TypeOK, NEW rows \in SUBSET (1 .. Len(topic)), NEW more \in SUBSET (1 .. Len(topic)),
           NEW t, IsMaxOf(t, rows) \/ IsMaxOf(t, rows \cup more)
    PROVE  IsMaxOf(Max2(t, MaxTime(more)), rows \cup more)
<1>1. IsMaxOf(MaxTime(more), more)
  BY MaxTimeIsMax
<1>. QED
  BY <1>1, TimeTypes DEF IsMaxOf, Max2

LEMMA WindowTypes ==
    /\ \A t \in Times : Window(t) \in Windows
    /\ \A w \in Windows : End(w) \in Nat \ {0}
<1>1. \A t \in Times : Window(t) \in Windows
  BY DEF Windows
<1>2. ASSUME NEW w \in Windows PROVE End(w) \in Nat \ {0}
  <2>1. PICK t \in Times : w = t \div WindowSize
    BY DEF Windows, Window
  <2>2. w \in Nat
    BY <2>1, TimeAssumption
  <2>3. \A a \in Nat : \A b \in Nat \ {0} : (a + 1) * b \in Nat \ {0}
    OBVIOUS
  <2>. QED
    BY <2>2, <2>3, TimeAssumption DEF End
<1>. QED
  BY <1>1, <1>2

\* The rows of a window are finitely many, and those of two batches add up.
LEMMA FiniteRows ==
    ASSUME NEW n \in Nat, NEW rows \in SUBSET (1 .. n)
    PROVE  IsFiniteSet(rows) /\ Cardinality(rows) \in Nat
<1>1. IsFiniteSet(1 .. n)
  BY FS_Interval
<1>. QED
  BY <1>1, FS_Subset, FS_CardinalityType

LEMMA CountsOrdered ==
    ASSUME NEW n \in Nat, NEW more \in SUBSET (1 .. n), NEW rows \in SUBSET more
    PROVE  /\ Cardinality(rows) \in Nat /\ Cardinality(more) \in Nat
           /\ Cardinality(rows) <= Cardinality(more)
<1>1. IsFiniteSet(more) /\ Cardinality(more) \in Nat
  BY FiniteRows
<1>. QED
  BY <1>1, FS_Subset, FS_CardinalityType

LEMMA CountsAddUp ==
    ASSUME NEW n \in Nat, NEW rows \in SUBSET (1 .. n), NEW more \in SUBSET (1 .. n), rows \cap more = {}
    PROVE  Cardinality(rows \cup more) = Cardinality(rows) + Cardinality(more)
<1>1. IsFiniteSet(rows) /\ Cardinality(rows) \in Nat /\ IsFiniteSet(more) /\ Cardinality(more) \in Nat
  BY FiniteRows
<1>2. Cardinality(rows \cap more) = 0
  BY FS_EmptySet
<1>. QED
  BY <1>1, <1>2, FS_Union

-----------------------------------------------------------------------------
(* The topic grows.                                                        *)

LEMMA TopicGrows ==
    ASSUME TypeOK, NEW m \in Message, Produce(m)
    PROVE  /\ topic' \in Seq(Message) /\ Len(topic') = Len(topic) + 1 /\ Len(topic') <= MaxMessages
           /\ \A i \in 1 .. Len(topic) : topic'[i] = topic[i]
BY SizeAssumption DEF TypeOK, Produce

LEMMA PrefixStays ==
    ASSUME TypeOK, NEW m \in Message, Produce(m), NEW n \in 0 .. Len(topic)
    PROVE  /\ Parsed(1, n)' = Parsed(1, n)
           /\ Created(1, n)' = Created(1, n)
           /\ \A w \in Windows : CreatedIn(w, n)' = CreatedIn(w, n) /\ InTime(w, n)' = InTime(w, n)
<1>1. \A i \in 1 .. n : topic'[i] = topic[i]
  BY TopicGrows DEF TypeOK
<1>2. Parsed(1, n)' = Parsed(1, n) /\ Created(1, n)' = Created(1, n)
  BY <1>1 DEF Parsed, Created
<1>3. ASSUME NEW w \in Windows PROVE CreatedIn(w, n)' = CreatedIn(w, n)
  BY <1>1 DEF CreatedIn, Created
<1>4. ASSUME NEW i \in 1 .. n
      PROVE  Created(1, i - 1)' = Created(1, i - 1) /\ Created(1, i - 1) \subseteq 1 .. n
  BY <1>1 DEF Created
<1>5. ASSUME NEW w \in Windows PROVE InTime(w, n)' = InTime(w, n)
  <2>1. CreatedIn(w, n) \subseteq 1 .. n
    BY DEF CreatedIn, Created
  <2>2. \A i \in 1 .. n :
            (\A j \in Created(1, i - 1) : topic[j].time < End(w) + Delay)'
              <=> \A j \in Created(1, i - 1) : topic[j].time < End(w) + Delay
    BY <1>1, <1>4 DEF End
  <2>. QED
    BY <1>3, <2>1, <2>2 DEF InTime
<1>. QED
  BY <1>2, <1>3, <1>5

LEMMA TypeInit == Init => TypeOK
BY TopicAssumption, SizeAssumption DEF Init, TypeOK

LEMMA PlanBounds ==
    ASSUME NEW done \in Nat, NEW length \in Nat, done < length
    PROVE  /\ PlanEnd(done, length) \in done + 1 .. length
           /\ PlanEnd(done, length) <= done + MaxOffsets
BY SizeAssumption DEF PlanEnd

LEMMA RowBounds ==
    ASSUME TypeOK
    PROVE  /\ Batch \in SUBSET (1 .. Len(topic))
           /\ Created(wdone + 1, wend) \in SUBSET (1 .. Len(topic))
           /\ \A w : Accepted(w) \in SUBSET (1 .. Len(topic))
BY DEF TypeOK, Batch, Parsed, Created, Accepted

LEMMA AcceptedFinite == TypeOK => \A w \in Windows : Cardinality(Accepted(w)) \in Nat
<1>. SUFFICES ASSUME TypeOK, NEW w \in Windows PROVE Cardinality(Accepted(w)) \in Nat
  OBVIOUS
<1>1. Len(topic) \in Nat /\ Accepted(w) \in SUBSET (1 .. Len(topic))
  BY RowBounds DEF TypeOK
<1>. QED
  BY <1>1, FiniteRows

LEMMA TypeNext == TypeOK /\ [Next]_vars => TypeOK'
<1>. SUFFICES ASSUME TypeOK, [Next]_vars PROVE TypeOK'
  OBVIOUS
<1>1. ASSUME NEW m \in Message, Produce(m) PROVE TypeOK'
  BY <1>1, TopicGrows DEF TypeOK, Produce, windowed, detector, alerting
<1>2. CASE PlanWindowed
  <2>1. wend' \in wdone + 1 .. Len(topic)
    BY <1>2, PlanBounds DEF TypeOK, PlanWindowed
  <2>. QED
    BY <1>2, <2>1 DEF TypeOK, PlanWindowed, detector, alerting
<1>3. CASE Merge
  <2>1. \A w \in Windows : Cardinality(Accepted(w)) \in Nat
    BY AcceptedFinite
  <2>2. sink' \in [Windows -> Nat]
    BY <1>3, <2>1 DEF TypeOK, Merge, Merged
  <2>. QED
    BY <1>3, <2>2 DEF TypeOK, Merge, detector, alerting
<1>4. CASE CommitWindowed
  <2>1. \A w \in Windows : Cardinality(Accepted(w)) \in Nat
    BY AcceptedFinite
  <2>2. state' \in [Windows -> Nat]
    BY <1>4, <2>1 DEF TypeOK, CommitWindowed, CommitUpTo
  <2>3. MaxTime(Created(wdone + 1, wend)) \in Nat
    BY RowBounds, MaxTimeIsMax
  <2>4. wm' \in Nat /\ lateWm' \in 0 .. wm'
    BY <1>4, <2>3, TimeAssumption DEF TypeOK, CommitWindowed, CommitUpTo, Max2, Minus
  <2>. QED
    BY <1>4, <2>2, <2>4 DEF TypeOK, CommitWindowed, CommitUpTo, detector, alerting
<1>5. CASE NoDataBatch
  <2>1. state' \in [Windows -> Nat]
    BY <1>5 DEF TypeOK, NoDataBatch
  <2>. QED
    BY <1>5, <2>1 DEF TypeOK, NoDataBatch, detector, alerting
<1>6. CASE PlanDetector
  <2>1. dend' \in ddone + 1 .. Len(topic)
    BY <1>6, PlanBounds DEF TypeOK, PlanDetector
  <2>. QED
    BY <1>6, <2>1 DEF TypeOK, PlanDetector, windowed, alerting
<1>7. CASE Flag
  <2>1. flagged' \in [1 .. MaxMessages -> Nat]
    BY <1>7 DEF TypeOK, Flag, FlagBehind
  <2>. QED
    BY <1>7, <2>1 DEF TypeOK, Flag, FlagBehind, windowed, alerting
<1>8. CASE Raise
  <2>1. stored' \in Times \cup {0}
    BY <1>8, RowBounds, MaxTimeIsMax DEF TypeOK, Raise, RaiseTo, Max2
  <2>. QED
    BY <1>8, <2>1 DEF TypeOK, Raise, RaiseTo, windowed, alerting
<1>9. CASE CommitDetector
  BY <1>9 DEF TypeOK, CommitDetector, windowed, alerting
<1>10. CASE PlanAlerts
  <2>1. aend' \in adone + 1 .. Len(Inventory)
    BY <1>10, PlanBounds, TopicAssumption DEF TypeOK, PlanAlerts
  <2>. QED
    BY <1>10, <2>1 DEF TypeOK, PlanAlerts, windowed, detector
<1>11. CASE AppendAlerts
  <2>1. alerts' \in [DOMAIN Inventory -> Nat]
    BY <1>11 DEF TypeOK, AppendAlerts
  <2>. QED
    BY <1>11, <2>1 DEF TypeOK, AppendAlerts, windowed, detector
<1>12. CASE CommitAlerts
  BY <1>12 DEF TypeOK, CommitAlerts, windowed, detector
<1>13. CASE Crash
  BY <1>13, SizeAssumption DEF TypeOK, Crash
<1>14. CASE UNCHANGED vars
  BY <1>14 DEF TypeOK, vars, windowed, detector, alerting
<1>. QED
  BY <1>1, <1>2, <1>3, <1>4, <1>5, <1>6, <1>7, <1>8, <1>9, <1>10, <1>11, <1>12, <1>13, <1>14
  DEF Next, WindowedStep, DetectorStep, AlertStep

-----------------------------------------------------------------------------
(* The late-event detector.                                                *)

LEMMA DetectorInit == Init => DetectorInv
<1>. SUFFICES ASSUME Init PROVE DetectorInv
  OBVIOUS
<1>1. Parsed(1, ddone) = {} /\ Parsed(1, dend) = {}
  BY DEF Init, Parsed
<1>2. \A i \in 1 .. MaxMessages : flagged[i] = 0
  BY DEF Init
<1>3. DOMAIN topic \subseteq 1 .. MaxMessages
  BY TypeInit, SizeAssumption DEF TypeOK
<1>4. FlaggedIsLate
  BY <1>2, <1>3, TypeInit DEF FlaggedIsLate, TypeOK
<1>. QED
  BY <1>1, <1>2, <1>4, SizeAssumption DEF Init, DetectorInv, IsMaxOf, Compared

\* A row that is behind another one of some rows is behind one of more rows.
LEMMA BehindMore ==
    ASSUME NEW i, NEW m \in Int, NEW n \in Int, m <= n, Behind(i, m)
    PROVE  Behind(i, n)
BY DEF Behind, Parsed

\* Steps that leave the detector alone: of the other queries, or a new message.
LEMMA DetectorStays ==
    ASSUME DetectorInv, UNCHANGED <<topic, detector, crashes>>
    PROVE  DetectorInv'
BY DEF DetectorInv, FlaggedIsLate, Behind, IsMaxOf, Parsed, Compared, detector

LEMMA DetectorProduce ==
    ASSUME TypeOK, TypeOK', DetectorInv, NEW m \in Message, Produce(m)
    PROVE  DetectorInv'
<1>1. UNCHANGED <<ddone, dend, dpc, stored, flagged, crashes>>
  BY DEF Produce, detector
<1>2. /\ ddone \in 0 .. Len(topic) /\ dend \in 0 .. Len(topic) /\ Len(topic) \in Nat
      /\ Len(topic') = Len(topic) + 1 /\ Len(topic') <= MaxMessages
      /\ \A i \in 1 .. Len(topic) : topic'[i] = topic[i]
  <2>1. ddone \in 0 .. Len(topic) /\ dend \in 0 .. Len(topic) /\ Len(topic) \in Nat
    <3>1. ddone \in 0 .. dend /\ dend \in 0 .. Len(topic) /\ Len(topic) \in Nat
      BY DEF TypeOK
    <3>. QED
      BY <3>1
  <2>. QED
    BY <2>1, TopicGrows
<1>3. \A n \in 0 .. Len(topic) : Parsed(1, n)' = Parsed(1, n) /\ Parsed(1, n) \subseteq 1 .. Len(topic)
  BY <1>2 DEF Parsed
<1>4. /\ Parsed(1, ddone)' = Parsed(1, ddone) /\ Parsed(1, dend)' = Parsed(1, dend)
      /\ Parsed(1, Compared)' = Parsed(1, Compared)
  BY <1>1, <1>2 DEF Parsed, Compared
<1>5. \A t : \A n \in {ddone, dend} : IsMaxOf(t, Parsed(1, n)) => IsMaxOf(t, Parsed(1, n))'
  BY <1>1, <1>2, <1>3, <1>4 DEF IsMaxOf
<1>6. \A i \in 1 .. Len(topic) : \A n \in Int : n <= Len(topic) => (Behind(i, n)' <=> Behind(i, n))
  BY <1>2 DEF Behind, Parsed
<1>7. FlaggedIsLate'
  <2>. SUFFICES ASSUME NEW i \in 1 .. Len(topic'), flagged'[i] > 0
                PROVE  i <= dend' /\ (Behind(i, i - 1)' \/ (crashes' > 0 /\ Behind(i, dend)'))
    BY DEF FlaggedIsLate
  <2>1. i \in 1 .. MaxMessages /\ i \in Int /\ flagged[i] > 0
    BY <1>1, <1>2, SizeAssumption
  <2>2. i <= dend /\ i \in 1 .. Len(topic)
    BY <1>2, <2>1 DEF DetectorInv
  <2>3. Behind(i, i - 1) \/ (crashes > 0 /\ Behind(i, dend))
    BY <2>1, <2>2 DEF DetectorInv, FlaggedIsLate
  <2>4. Behind(i, i - 1)' <=> Behind(i, i - 1)
    BY <1>6, <2>2
  <2>5. Behind(i, dend)' <=> Behind(i, dend)
    BY <1>1, <1>2, <2>2 DEF Behind, Parsed
  <2>. QED
    BY <1>1, <2>2, <2>3, <2>4, <2>5
<1>8. \A i \in Parsed(1, Compared)' : Behind(i, i - MaxOffsets)' => flagged'[i] > 0
  <2>. SUFFICES ASSUME NEW i \in Parsed(1, Compared), Behind(i, i - MaxOffsets)'
                PROVE  flagged[i] > 0
    BY <1>1, <1>4
  <2>1. i \in 1 .. Len(topic) /\ i - MaxOffsets \in Int /\ i - MaxOffsets <= Len(topic)
    BY <1>2, SizeAssumption DEF Parsed, Compared
  <2>. QED
    BY <1>6, <2>1 DEF DetectorInv
<1>9. Compared' = Compared
  BY <1>1 DEF Compared
<1>. QED
  BY <1>1, <1>4, <1>5, <1>7, <1>8, <1>9 DEF DetectorInv

LEMMA DetectorNext ==
    ASSUME TypeOK, DetectorInv, DetectorStep
    PROVE  DetectorInv'
<1>. DEFINE all == Parsed(1, dend)
            done == Parsed(1, ddone)
<1>1. /\ ddone \in Nat /\ dend \in Nat /\ ddone <= dend /\ dend <= Len(topic) /\ Len(topic) <= MaxMessages
      /\ Len(topic) \in Nat /\ crashes \in Nat /\ topic' = topic /\ crashes' = crashes
      /\ MaxMessages \in Nat /\ MaxOffsets \in Nat
  BY SizeAssumption DEF TypeOK, DetectorStep, PlanDetector, Flag, FlagBehind, Raise, RaiseTo, CommitDetector
<1>2. /\ all \in SUBSET (1 .. Len(topic)) /\ done \in SUBSET (1 .. Len(topic))
      /\ Batch \in SUBSET (1 .. Len(topic)) /\ all = done \cup Batch
      /\ \A j \in done : j <= ddone
      /\ \A j \in Batch : ddone < j /\ j <= dend
  BY <1>1 DEF Parsed, Batch
<1>3. CASE PlanDetector
  <2>1. /\ dpc = "idle" /\ ddone = dend /\ dpc' = "flag" /\ ddone' = ddone
        /\ stored' = stored /\ flagged' = flagged
    BY <1>3 DEF PlanDetector, DetectorInv
  <2>2. dend' \in ddone + 1 .. Len(topic) /\ dend' <= ddone + MaxOffsets
    BY <1>1, <1>3, PlanBounds DEF PlanDetector
  <2>3. IsMaxOf(stored, done)'
    BY <1>1, <2>1 DEF DetectorInv, IsMaxOf, Parsed
  <2>4. FlaggedIsLate'
    BY <1>1, <2>1, <2>2 DEF DetectorInv, FlaggedIsLate, Behind, Parsed
  <2>5. \A i \in Parsed(1, Compared)' : Behind(i, i - MaxOffsets)' => flagged'[i] > 0
    BY <1>1, <2>1 DEF DetectorInv, Compared, Behind, Parsed
  <2>6. \A i \in 1 .. MaxMessages :
            /\ flagged'[i] > 0 => i <= dend'
            /\ flagged'[i] <= 1 + crashes'
            /\ i > Compared' => flagged'[i] <= crashes'
    BY <1>1, <2>1, <2>2 DEF DetectorInv, Compared
  <2>. QED
    BY <2>1, <2>2, <2>3, <2>4, <2>5, <2>6 DEF DetectorInv
<1>4. CASE Flag
  <2>1. /\ dpc = "flag" /\ dend' = dend /\ ddone' = ddone /\ stored' = stored
        /\ dpc' = IF Batch = {} THEN "commit" ELSE "raise"
        /\ \A i \in 1 .. MaxMessages :
               flagged'[i] = IF i \in Batch /\ topic[i].time + Delay < stored
                             THEN flagged[i] + 1 ELSE flagged[i]
    BY <1>4 DEF Flag, FlagBehind, TypeOK
  <2>2. /\ IsMaxOf(stored, done)' <=> IsMaxOf(stored, done)
        /\ IsMaxOf(stored, all)' <=> IsMaxOf(stored, all)
    BY <1>1, <2>1 DEF IsMaxOf, Parsed
  <2>3. stored \in Nat /\ \A i \in 1 .. Len(topic) : topic[i].time \in Nat
    BY TimeTypes, TimeAssumption DEF TypeOK
  <2>4. ASSUME NEW i \in Batch, topic[i].time + Delay < stored
        PROVE  Behind(i, i - 1) \/ (crashes > 0 /\ Behind(i, dend))
    <3>1. i \in Nat /\ ddone <= i - 1
      BY <1>1, <1>2
    <3>2. topic[i].time \in Nat /\ stored > 0
      BY <1>2, <2>3, <2>4, TimeAssumption
    <3>3. CASE IsMaxOf(stored, done)
      <4>1. Behind(i, ddone)
        BY <2>4, <3>2, <3>3 DEF IsMaxOf, Behind
      <4>. QED
        BY <1>1, <3>1, <4>1, BehindMore
    <3>4. CASE crashes > 0 /\ IsMaxOf(stored, all)
      BY <2>4, <3>2, <3>4 DEF IsMaxOf, Behind
    <3>. QED
      BY <1>1, <2>1, <3>3, <3>4 DEF DetectorInv
  <2>5. \A i \in Batch : Behind(i, i - 1)' = Behind(i, i - 1) /\ Behind(i, dend)' = Behind(i, dend)
    BY <1>1, <2>1 DEF Behind, Parsed
  <2>6. FlaggedIsLate'
    <3>. SUFFICES ASSUME NEW i \in 1 .. Len(topic), flagged'[i] > 0
                  PROVE  i <= dend' /\ (Behind(i, i - 1)' \/ (crashes' > 0 /\ Behind(i, dend)'))
      BY <1>1 DEF FlaggedIsLate
    <3>1. i \in 1 .. MaxMessages
      BY <1>1
    <3>2. Behind(i, i - 1)' = Behind(i, i - 1) /\ Behind(i, dend)' = Behind(i, dend)
      BY <1>1, <2>1 DEF Behind, Parsed
    <3>3. CASE i \in Batch /\ topic[i].time + Delay < stored
      BY <1>1, <1>2, <2>1, <2>4, <3>2, <3>3
    <3>4. CASE ~(i \in Batch /\ topic[i].time + Delay < stored)
      BY <1>1, <2>1, <3>1, <3>2, <3>4 DEF DetectorInv, FlaggedIsLate
    <3>. QED
      BY <3>3, <3>4
  <2>7. \A i \in Parsed(1, Compared)' : Behind(i, i - MaxOffsets)' => flagged'[i] > 0
    <3>1. Parsed(1, Compared)' = all
      BY <1>1, <2>1 DEF Compared, Parsed
    <3>. SUFFICES ASSUME NEW i \in all, Behind(i, i - MaxOffsets) PROVE flagged'[i] > 0
      BY <1>1, <3>1 DEF Behind, Parsed
    <3>2. i \in 1 .. MaxMessages /\ flagged[i] \in Nat
      BY <1>1, <1>2 DEF TypeOK
    <3>3. CASE i \in done
      BY <2>1, <3>2, <3>3 DEF DetectorInv, Compared
    <3>4. CASE i \in Batch
      <4>1. PICK j \in Parsed(1, i - MaxOffsets) : topic[i].time + Delay < topic[j].time
        BY DEF Behind
      <4>2. j \in done /\ j \in all
        BY <1>1, <1>2, <3>4, <4>1 DEF Parsed, DetectorInv
      <4>3. topic[j].time <= stored
        BY <4>2 DEF DetectorInv, IsMaxOf
      <4>4. topic[i].time + Delay < stored
        BY <1>2, <2>3, <4>1, <4>2, <4>3, TimeAssumption
      <4>. QED
        BY <2>1, <3>2, <3>4, <4>4
    <3>. QED
      BY <1>2, <3>3, <3>4
  <2>8. \A i \in 1 .. MaxMessages :
            /\ flagged'[i] > 0 => i <= dend'
            /\ flagged'[i] <= 1 + crashes'
            /\ i > Compared' => flagged'[i] <= crashes'
    <3>1. \A i \in 1 .. MaxMessages : flagged[i] \in Nat
      BY DEF TypeOK
    <3>. QED
      BY <1>1, <1>2, <2>1, <3>1 DEF DetectorInv, Compared
  <2>9. Batch = {} => (IsMaxOf(stored, done) <=> IsMaxOf(stored, all))
    BY <1>2
  <2>. QED
    BY <1>1, <2>1, <2>2, <2>6, <2>7, <2>8, <2>9 DEF DetectorInv
<1>5. CASE Raise
  <2>1. /\ dpc = "raise" /\ dpc' = "commit" /\ dend' = dend /\ ddone' = ddone /\ flagged' = flagged
        /\ stored' = Max2(stored, MaxTime(Batch))
    BY <1>5 DEF Raise, RaiseTo
  <2>2. IsMaxOf(Max2(stored, MaxTime(Batch)), all)
    BY <1>2, MaxOfBoth DEF DetectorInv
  <2>3. IsMaxOf(stored, all)'
    BY <1>1, <2>1, <2>2 DEF IsMaxOf, Parsed
  <2>4. FlaggedIsLate'
    BY <1>1, <2>1 DEF DetectorInv, FlaggedIsLate, Behind, Parsed
  <2>5. \A i \in Parsed(1, Compared)' : Behind(i, i - MaxOffsets)' => flagged'[i] > 0
    BY <1>1, <2>1 DEF DetectorInv, Compared, Behind, Parsed
  <2>. QED
    BY <1>1, <2>1, <2>3, <2>4, <2>5 DEF DetectorInv, Compared
<1>6. CASE CommitDetector
  <2>1. /\ dpc = "commit" /\ dpc' = "idle" /\ dend' = dend /\ ddone' = dend /\ flagged' = flagged
        /\ stored' = stored
    BY <1>6 DEF CommitDetector
  <2>2. IsMaxOf(stored, all)' /\ Parsed(1, ddone)' = all /\ Parsed(1, dend)' = all
    BY <1>1, <2>1 DEF DetectorInv, IsMaxOf, Parsed
  <2>3. FlaggedIsLate'
    BY <1>1, <2>1 DEF DetectorInv, FlaggedIsLate, Behind, Parsed
  <2>4. \A i \in Parsed(1, Compared)' : Behind(i, i - MaxOffsets)' => flagged'[i] > 0
    BY <1>1, <2>1 DEF DetectorInv, Compared, Behind, Parsed
  <2>. QED
    BY <1>1, <2>1, <2>2, <2>3, <2>4 DEF DetectorInv, Compared, IsMaxOf
<1>. QED
  BY <1>3, <1>4, <1>5, <1>6 DEF DetectorStep

LEMMA DetectorCrash ==
    ASSUME TypeOK, DetectorInv, Crash
    PROVE  DetectorInv'
<1>1. /\ UNCHANGED <<topic, dend, ddone, stored, flagged>> /\ crashes' = crashes + 1
      /\ dpc' = IF ddone < dend THEN "flag" ELSE "idle"
      /\ crashes \in Nat /\ ddone \in Nat /\ dend \in Nat /\ ddone <= dend
      /\ \A i \in 1 .. MaxMessages : flagged[i] \in Nat
  BY DEF Crash, TypeOK
<1>2. FlaggedIsLate'
  BY <1>1 DEF DetectorInv, FlaggedIsLate, Behind, Parsed
<1>3. \A i \in Parsed(1, Compared)' : Behind(i, i - MaxOffsets)' => flagged'[i] > 0
  <2>1. Compared' = ddone /\ Compared \in Nat /\ ddone <= Compared
    BY <1>1 DEF Compared
  <2>2. Parsed(1, Compared)' \subseteq Parsed(1, Compared)
    BY <1>1, <2>1 DEF Parsed
  <2>. QED
    BY <1>1, <2>2 DEF DetectorInv, Behind, Parsed
<1>4. \A i \in 1 .. MaxMessages :
          /\ flagged'[i] > 0 => i <= dend'
          /\ flagged'[i] <= 1 + crashes'
          /\ i > Compared' => flagged'[i] <= crashes'
  BY <1>1 DEF DetectorInv
<1>5. /\ IsMaxOf(stored, Parsed(1, ddone))' <=> IsMaxOf(stored, Parsed(1, ddone))
      /\ IsMaxOf(stored, Parsed(1, dend))' <=> IsMaxOf(stored, Parsed(1, dend))
  BY <1>1 DEF IsMaxOf, Parsed
<1>. QED
  BY <1>1, <1>2, <1>3, <1>4, <1>5 DEF DetectorInv

-----------------------------------------------------------------------------
(* The stock alerts.                                                       *)

LEMMA AlertsInit == Init => AlertsInv
BY TopicAssumption DEF Init, AlertsInv, Alerted

LEMMA AlertsStay ==
    ASSUME AlertsInv, UNCHANGED <<alerting, crashes>>
    PROVE  AlertsInv'
BY DEF AlertsInv, Alerted, alerting

LEMMA AlertsNext ==
    ASSUME TypeOK, AlertsInv, AlertStep \/ Crash
    PROVE  AlertsInv'
<1>1. /\ adone \in Nat /\ aend \in Nat /\ adone <= aend /\ crashes \in Nat /\ Len(Inventory) \in Nat
      /\ \A i \in DOMAIN Inventory : i \in Nat /\ alerts[i] \in Nat
  BY TopicAssumption DEF TypeOK
<1>2. CASE PlanAlerts
  <2>1. aend' \in adone + 1 .. Len(Inventory)
    BY <1>1, <1>2, PlanBounds DEF PlanAlerts
  <2>. QED
    BY <1>1, <1>2, <2>1 DEF PlanAlerts, AlertsInv, Alerted
<1>3. CASE AppendAlerts
  BY <1>1, <1>3 DEF AppendAlerts, AlertsInv, Alerted
<1>4. CASE CommitAlerts
  BY <1>1, <1>4 DEF CommitAlerts, AlertsInv, Alerted
<1>5. CASE Crash
  BY <1>1, <1>5 DEF Crash, AlertsInv, Alerted
<1>. QED
  BY <1>2, <1>3, <1>4, <1>5 DEF AlertStep

-----------------------------------------------------------------------------
(* The windowed query.                                                     *)

LEMMA WindowedInit == Init => WindowedInv
<1>. SUFFICES ASSUME Init PROVE WindowedInv
  OBVIOUS
<1>1. ASSUME NEW w \in Windows
      PROVE  /\ CreatedIn(w, wdone) = {} /\ CreatedIn(w, wend) = {} /\ InTime(w, wdone) = {}
             /\ sink[w] = 0 /\ state[w] = 0
  BY DEF Init, CreatedIn, Created, InTime
<1>2. Cardinality({}) = 0
  BY FS_EmptySet
<1>3. OnTimeIsCounted /\ NothingCountedTwice
  BY <1>1, <1>2 DEF OnTimeIsCounted, NothingCountedTwice
<1>4. wpc = "idle" /\ wdone = wend /\ wm = 0
  BY DEF Init
<1>. QED
  BY <1>1, <1>2, <1>3, <1>4 DEF WindowedInv

\* Steps that leave the windowed query alone: of the other queries.
LEMMA WindowedStays ==
    ASSUME WindowedInv, UNCHANGED <<topic, windowed>>
    PROVE  WindowedInv'
BY DEF WindowedInv, OnTimeIsCounted, NothingCountedTwice, CreatedIn, Created, InTime, Window, Windows,
       End, windowed

LEMMA WindowedProduce ==
    ASSUME TypeOK, WindowedInv, NEW m \in Message, Produce(m)
    PROVE  WindowedInv'
<1>1. UNCHANGED windowed
  BY DEF Produce
<1>2. /\ wdone \in 0 .. Len(topic) /\ wend \in 0 .. Len(topic)
      /\ \A i \in 1 .. Len(topic) : topic'[i] = topic[i]
  BY TopicGrows DEF TypeOK
<1>3. /\ Created(1, wdone)' = Created(1, wdone) /\ Created(1, wdone) \subseteq 1 .. Len(topic)
      /\ \A w \in Windows : CreatedIn(w, wdone)' = CreatedIn(w, wdone) /\ InTime(w, wdone)' = InTime(w, wdone)
  <2>1. PICK n \in 0 .. Len(topic) : n = wdone
    BY <1>2
  <2>2. /\ Created(1, n)' = Created(1, n)
        /\ \A w \in Windows : CreatedIn(w, n)' = CreatedIn(w, n) /\ InTime(w, n)' = InTime(w, n)
    BY PrefixStays
  <2>3. wdone' = n
    BY <1>1, <2>1 DEF windowed
  <2>. QED
    BY <2>1, <2>2, <2>3 DEF Created
<1>4. \A w \in Windows : CreatedIn(w, wend)' = CreatedIn(w, wend)
  <2>1. PICK n \in 0 .. Len(topic) : n = wend
    BY <1>2
  <2>2. \A w \in Windows : CreatedIn(w, n)' = CreatedIn(w, n)
    BY PrefixStays
  <2>3. wend' = n
    BY <1>1, <2>1 DEF windowed
  <2>. QED
    BY <2>1, <2>2, <2>3
<1>5. Windows' = Windows /\ \A w \in Windows : End(w)' = End(w)
  BY DEF Windows, Window, End
<1>. QED
  BY <1>1, <1>2, <1>3, <1>4, <1>5 DEF WindowedInv, OnTimeIsCounted, NothingCountedTwice, windowed

\* The creations of a window and the rows of the batch that Spark accepts for it.
LEMMA WindowRows ==
    ASSUME TypeOK, NEW w \in Windows
    PROVE  /\ CreatedIn(w, wdone) \in SUBSET (1 .. Len(topic))
           /\ CreatedIn(w, wend) \in SUBSET (1 .. Len(topic))
           /\ InTime(w, wdone) \in SUBSET CreatedIn(w, wdone)
           /\ InTime(w, wend) \in SUBSET CreatedIn(w, wend)
           /\ CreatedIn(w, wdone) \in SUBSET CreatedIn(w, wend)
           /\ Len(topic) \in Nat
BY DEF TypeOK, CreatedIn, Created, InTime

LEMMA OpenWindow ==
    ASSUME TypeOK, NEW w \in Windows, End(w) > lateWm
    PROVE  Cardinality(CreatedIn(w, wend)) = Cardinality(CreatedIn(w, wdone)) + Cardinality(Accepted(w))
<1>1. /\ CreatedIn(w, wend) = CreatedIn(w, wdone) \cup Accepted(w)
      /\ CreatedIn(w, wdone) \cap Accepted(w) = {}
  BY DEF TypeOK, CreatedIn, Created, Accepted
<1>2. /\ CreatedIn(w, wdone) \in SUBSET (1 .. Len(topic)) /\ Accepted(w) \in SUBSET (1 .. Len(topic))
      /\ Len(topic) \in Nat
  BY WindowRows, RowBounds
<1>. QED
  BY <1>1, <1>2, CountsAddUp

\* Spark accepts no row for a window that it evicted, and no row of the batch is
\* in time for it.
LEMMA ClosedWindow ==
    ASSUME TypeOK, WindowedInv, NEW w \in Windows, ~(End(w) > lateWm)
    PROVE  Accepted(w) = {} /\ InTime(w, wend) = InTime(w, wdone)
<1>1. Accepted(w) = {}
  BY DEF Accepted
<1>2. End(w) \in Nat \ {0} /\ wm \in Nat /\ lateWm \in Nat /\ lateWm <= wm
  BY WindowTypes DEF TypeOK
<1>3. PICK j \in Created(1, wdone) : topic[j].time >= wm + Delay
  BY <1>2 DEF WindowedInv
<1>4. j \in 1 .. Len(topic) /\ j <= wdone /\ wdone \in Nat /\ wend \in Nat /\ wdone <= wend
  BY <1>3 DEF Created, TypeOK
<1>5. topic[j].time >= End(w) + Delay /\ topic[j].time \in Nat
  BY <1>2, <1>3, <1>4, TimeTypes, TimeAssumption
<1>6. ASSUME NEW i \in InTime(w, wend) PROVE i <= wdone
  <2>1. i \in 1 .. wend /\ \A k \in Created(1, i - 1) : topic[k].time < End(w) + Delay
    BY DEF InTime, CreatedIn, Created
  <2>2. j \notin Created(1, i - 1)
    BY <1>2, <1>5, <2>1, TimeAssumption
  <2>. QED
    BY <1>3, <1>4, <2>1, <2>2 DEF Created
<1>7. InTime(w, wend) = InTime(w, wdone)
  BY <1>4, <1>6 DEF InTime, CreatedIn, Created
<1>. QED
  BY <1>1, <1>7

\* Once the batch is merged the sink holds what came in time for each window, the
\* batch's rows included.
LEMMA SinkBounds ==
    ASSUME TypeOK, WindowedInv, NEW w \in Windows, wpc \in {"idle", "commit"}
    PROVE  sink[w] >= Cardinality(InTime(w, wend))
<1>1. CASE End(w) > lateWm
  <2>1. sink[w] = Cardinality(CreatedIn(w, wend))
    BY <1>1 DEF WindowedInv
  <2>2. Cardinality(InTime(w, wend)) <= Cardinality(CreatedIn(w, wend))
    BY WindowRows, CountsOrdered
  <2>3. Cardinality(InTime(w, wend)) \in Nat /\ Cardinality(CreatedIn(w, wend)) \in Nat
    BY WindowRows, CountsOrdered
  <2>. QED
    BY <2>1, <2>2, <2>3
<1>2. CASE ~(End(w) > lateWm)
  BY <1>2, ClosedWindow DEF WindowedInv, OnTimeIsCounted
<1>. QED
  BY <1>1, <1>2

\* A merge writes the count of all creations so far, and never a smaller one.
LEMMA MergedSink ==
    ASSUME TypeOK, WindowedInv, Merge, NEW w \in Windows
    PROVE  /\ End(w) > lateWm => sink'[w] = Cardinality(CreatedIn(w, wend))
           /\ ~(End(w) > lateWm) => sink'[w] = sink[w]
           /\ sink'[w] >= sink[w]
<1>1. sink'[w] = IF Accepted(w) # {} THEN state[w] + Cardinality(Accepted(w)) ELSE sink[w]
  BY DEF Merge, Merged, Updated
<1>2. sink[w] \in Nat /\ sink[w] <= Cardinality(CreatedIn(w, wend))
  BY DEF TypeOK, WindowedInv, NothingCountedTwice
<1>3. Cardinality(CreatedIn(w, wend)) \in Nat
  BY WindowRows, CountsOrdered
<1>4. CASE End(w) > lateWm
  <2>1. /\ Cardinality(CreatedIn(w, wend)) = state[w] + Cardinality(Accepted(w))
        /\ sink[w] \in {state[w], Cardinality(CreatedIn(w, wend))}
    BY <1>4, OpenWindow DEF WindowedInv
  <2>2. CASE Accepted(w) # {}
    BY <1>1, <1>2, <1>3, <1>4, <2>1, <2>2
  <2>3. CASE Accepted(w) = {}
    <3>1. Cardinality(Accepted(w)) = 0 /\ state[w] \in Nat
      BY <2>3, FS_EmptySet DEF TypeOK
    <3>. QED
      BY <1>1, <1>2, <1>4, <2>1, <2>3, <3>1
  <2>. QED
    BY <2>2, <2>3
<1>5. CASE ~(End(w) > lateWm)
  BY <1>1, <1>2, <1>5, ClosedWindow
<1>. QED
  BY <1>4, <1>5

LEMMA WindowedNext ==
    ASSUME TypeOK, WindowedInv, WindowedStep \/ Crash
    PROVE  WindowedInv'
<1>1. /\ topic' = topic /\ wdone \in Nat /\ wend \in Nat /\ wdone <= wend /\ wend <= Len(topic)
      /\ Len(topic) \in Nat /\ wm \in Nat /\ lateWm \in Nat /\ lateWm <= wm
  BY DEF TypeOK, WindowedStep, PlanWindowed, Merge, CommitWindowed, CommitUpTo, NoDataBatch, Crash
<1>2. ASSUME wdone' = wdone
      PROVE  /\ Created(1, wdone)' = Created(1, wdone)
             /\ \A w \in Windows : CreatedIn(w, wdone)' = CreatedIn(w, wdone)
                                   /\ InTime(w, wdone)' = InTime(w, wdone)
  BY <1>1, <1>2 DEF Created, CreatedIn, InTime, Window, End
<1>3. ASSUME wend' = wend
      PROVE  \A w \in Windows : CreatedIn(w, wend)' = CreatedIn(w, wend)
  BY <1>1, <1>3 DEF Created, CreatedIn, Window
<1>4. Windows' = Windows /\ \A w \in Windows : End(w)' = End(w) /\ End(w) \in Nat
  BY WindowTypes DEF Windows, Window, End
<1>5. CASE PlanWindowed
  <2>1. /\ wpc = "idle" /\ wdone = wend /\ wpc' = "merge"
        /\ UNCHANGED <<wdone, wm, lateWm, state, sink>>
    BY <1>5 DEF PlanWindowed, WindowedInv
  <2>2. wend' \in wdone + 1 .. Len(topic)
    BY <1>1, <1>5, PlanBounds DEF PlanWindowed
  <2>3. ASSUME NEW w \in Windows PROVE sink'[w] <= Cardinality(CreatedIn(w, wend))'
    <3>1. CreatedIn(w, wend) \subseteq CreatedIn(w, wend)'
      BY <1>1, <2>1, <2>2 DEF CreatedIn, Created, Window
    <3>2. CreatedIn(w, wend)' \in SUBSET (1 .. Len(topic))
      BY <1>1, <2>2 DEF CreatedIn, Created
    <3>3. /\ Cardinality(CreatedIn(w, wend)) \in Nat /\ Cardinality(CreatedIn(w, wend)') \in Nat
          /\ Cardinality(CreatedIn(w, wend)) <= Cardinality(CreatedIn(w, wend)')
      BY <1>1, <3>1, <3>2, CountsOrdered
    <3>4. sink[w] \in Nat /\ sink[w] <= Cardinality(CreatedIn(w, wend)) /\ sink'[w] = sink[w]
      BY <2>1 DEF TypeOK, WindowedInv, NothingCountedTwice
    <3>. QED
      BY <3>3, <3>4
  <2>. QED
    BY <1>1, <1>2, <1>4, <2>1, <2>2, <2>3 DEF WindowedInv, OnTimeIsCounted, NothingCountedTwice
<1>6. CASE Merge
  <2>1. /\ wpc = "merge" /\ wpc' = "commit" /\ UNCHANGED <<wend, wdone, wm, lateWm, state>>
    BY <1>6 DEF Merge
  <2>2. \A w \in Windows : sink[w] \in Nat /\ sink'[w] >= sink[w] /\ sink'[w] \in Nat
    BY <1>6, MergedSink, TypeNext DEF TypeOK, Next, WindowedStep
  <2>3. \A w \in Windows : /\ Cardinality(InTime(w, wdone)) \in Nat
                           /\ Cardinality(CreatedIn(w, wend)) \in Nat
    BY WindowRows, CountsOrdered
  <2>4. OnTimeIsCounted'
    BY <1>2, <1>4, <2>1, <2>2, <2>3 DEF WindowedInv, OnTimeIsCounted
  <2>5. NothingCountedTwice'
    BY <1>3, <1>4, <1>6, <2>1, <2>3, MergedSink DEF WindowedInv, NothingCountedTwice
  <2>6. \A w \in Windows : End(w) > lateWm => sink'[w] = Cardinality(CreatedIn(w, wend))
    BY <1>6, MergedSink
  <2>7. wm' > 0 => \E j \in Created(1, wdone)' : topic'[j].time >= wm' + Delay
    BY <1>1, <1>2, <2>1 DEF WindowedInv
  <2>8. wdone # wend
    BY <2>1 DEF WindowedInv
  <2>9. \A w \in Windows : End(w)' > lateWm' =>
            /\ state'[w] = Cardinality(CreatedIn(w, wdone))'
            /\ sink'[w] = Cardinality(CreatedIn(w, wend))'
    BY <1>2, <1>3, <1>4, <2>1, <2>6 DEF WindowedInv
  <2>. QED
    BY <1>4, <2>1, <2>4, <2>5, <2>7, <2>8, <2>9 DEF WindowedInv
<1>7. CASE CommitWindowed
  <2>. DEFINE latest == MaxTime(Created(wdone + 1, wend))
  <2>1. /\ wpc = "commit" /\ wpc' = "idle" /\ wdone' = wend /\ wend' = wend /\ sink' = sink
        /\ lateWm' = wm /\ wm' = Max2(wm, Minus(latest, Delay))
        /\ \A w \in Windows : state'[w] = IF End(w) <= wm THEN 0 ELSE state[w] + Cardinality(Accepted(w))
    BY <1>7 DEF CommitWindowed, CommitUpTo
  <2>2. /\ Created(1, wdone)' = Created(1, wend)
        /\ \A w \in Windows : /\ CreatedIn(w, wdone)' = CreatedIn(w, wend)
                              /\ CreatedIn(w, wend)' = CreatedIn(w, wend)
                              /\ InTime(w, wdone)' = InTime(w, wend)
    BY <1>1, <2>1 DEF Created, CreatedIn, InTime, Window, End
  <2>3. wm' > 0 => \E j \in Created(1, wend) : topic[j].time >= wm' + Delay
    <3>1. Created(1, wdone) \subseteq Created(1, wend) /\ Created(wdone + 1, wend) \subseteq Created(1, wend)
      BY <1>1 DEF Created
    <3>2. CASE wm' = wm
      BY <3>1, <3>2 DEF WindowedInv
    <3>3. CASE wm' # wm
      <4>1. IsMaxOf(latest, Created(wdone + 1, wend)) /\ latest \in Nat
        BY RowBounds, MaxTimeIsMax
      <4>2. latest > Delay /\ wm' = latest - Delay
        BY <1>1, <2>1, <3>3, <4>1, TimeAssumption DEF Max2, Minus
      <4>3. \E j \in Created(wdone + 1, wend) : topic[j].time = latest
        BY <4>1, <4>2, TimeAssumption DEF IsMaxOf
      <4>. QED
        BY <3>1, <4>1, <4>2, <4>3, TimeAssumption
    <3>. QED
      BY <3>2, <3>3
  <2>4. ASSUME NEW w \in Windows, End(w) > lateWm'
        PROVE  /\ state'[w] = Cardinality(CreatedIn(w, wend))
               /\ sink'[w] = Cardinality(CreatedIn(w, wend))
    <3>1. End(w) > lateWm /\ ~(End(w) <= wm)
      BY <1>1, <1>4, <2>1, <2>4
    <3>. QED
      BY <2>1, <3>1, OpenWindow DEF WindowedInv
  <2>5. OnTimeIsCounted' /\ NothingCountedTwice'
    BY <1>4, <2>1, <2>2, SinkBounds DEF WindowedInv, OnTimeIsCounted, NothingCountedTwice
  <2>. QED
    BY <1>1, <1>4, <2>1, <2>2, <2>3, <2>4, <2>5 DEF WindowedInv
<1>8. CASE NoDataBatch
  <2>1. /\ wpc = "idle" /\ wdone = wend /\ lateWm' = wm /\ UNCHANGED <<wend, wdone, wpc, wm, sink>>
        /\ \A w \in Windows : state'[w] = IF End(w) <= wm THEN 0 ELSE state[w]
    BY <1>8 DEF NoDataBatch, WindowedInv
  <2>2. \A w \in Windows : End(w) > lateWm' => End(w) > lateWm /\ state'[w] = state[w]
    BY <1>1, <1>4, <2>1
  <2>3. OnTimeIsCounted' /\ NothingCountedTwice'
    BY <1>2, <1>3, <1>4, <2>1 DEF WindowedInv, OnTimeIsCounted, NothingCountedTwice
  <2>. QED
    BY <1>1, <1>2, <1>3, <1>4, <2>1, <2>2, <2>3 DEF WindowedInv
<1>9. CASE Crash
  <2>1. /\ wpc' = IF wdone < wend THEN "merge" ELSE "idle"
        /\ UNCHANGED <<wend, wdone, wm, lateWm, state, sink>>
    BY <1>9 DEF Crash
  <2>. QED
    BY <1>1, <1>2, <1>3, <1>4, <2>1 DEF WindowedInv, OnTimeIsCounted, NothingCountedTwice
<1>. QED
  BY <1>5, <1>6, <1>7, <1>8, <1>9 DEF WindowedStep

-----------------------------------------------------------------------------
(* The three queries.                                                      *)

LEMMA AnalyticsInit == Init => AnalyticsInv
BY TypeInit, WindowedInit, DetectorInit, AlertsInit DEF AnalyticsInv

\* The queries share the topic and the restarts alone.
LEMMA AnalyticsNext == AnalyticsInv /\ [Next]_vars => AnalyticsInv'
<1>. SUFFICES ASSUME AnalyticsInv, [Next]_vars PROVE AnalyticsInv'
  OBVIOUS
<1>. TypeOK /\ WindowedInv /\ DetectorInv /\ AlertsInv /\ TypeOK'
  BY TypeNext DEF AnalyticsInv
<1>1. ASSUME NEW m \in Message, Produce(m) PROVE AnalyticsInv'
  <2>1. UNCHANGED <<alerting, crashes>>
    BY <1>1 DEF Produce
  <2>. QED
    BY <1>1, <2>1, WindowedProduce, DetectorProduce, AlertsStay DEF AnalyticsInv
<1>2. CASE WindowedStep
  <2>1. UNCHANGED <<topic, detector, alerting, crashes>>
    BY <1>2 DEF WindowedStep, PlanWindowed, Merge, CommitWindowed, CommitUpTo, NoDataBatch
  <2>. QED
    BY <1>2, <2>1, WindowedNext, DetectorStays, AlertsStay DEF AnalyticsInv
<1>3. CASE DetectorStep
  <2>1. UNCHANGED <<topic, windowed, alerting, crashes>>
    BY <1>3 DEF DetectorStep, PlanDetector, Flag, FlagBehind, Raise, RaiseTo, CommitDetector
  <2>. QED
    BY <1>3, <2>1, WindowedStays, DetectorNext, AlertsStay DEF AnalyticsInv
<1>4. CASE AlertStep
  <2>1. UNCHANGED <<topic, windowed, detector, crashes>>
    BY <1>4 DEF AlertStep, PlanAlerts, AppendAlerts, CommitAlerts
  <2>. QED
    BY <1>4, <2>1, WindowedStays, DetectorStays, AlertsNext DEF AnalyticsInv
<1>5. CASE Crash
  BY <1>5, WindowedNext, DetectorCrash, AlertsNext DEF AnalyticsInv
<1>6. CASE UNCHANGED vars
  BY <1>6, WindowedStays, DetectorStays, AlertsStay DEF AnalyticsInv, vars
<1>. QED
  BY <1>1, <1>2, <1>3, <1>4, <1>5, <1>6 DEF Next

LEMMA AnalyticsInvariant == Spec => []AnalyticsInv
BY AnalyticsInit, AnalyticsNext, PTL DEF Spec

-----------------------------------------------------------------------------
(* Theorems.                                                               *)

\* The types of the topic, the offsets, the watermarks, the counts and the tables.
THEOREM TypeCorrect == Spec => []TypeOK
<1>1. AnalyticsInv => TypeOK
  BY DEF AnalyticsInv
<1>. QED
  BY <1>1, AnalyticsInvariant, PTL

\* orders_per_minute counts each creation that came in time, however the topic is
\* cut into batches and whichever of them run again.
THEOREM InTimeCounted == Spec => []OnTimeIsCounted
<1>1. AnalyticsInv => OnTimeIsCounted
  BY DEF AnalyticsInv, WindowedInv
<1>. QED
  BY <1>1, AnalyticsInvariant, PTL

\* It counts no creation twice, not even in a batch that runs again.
THEOREM CountedAtMostOnce == Spec => []NothingCountedTwice
<1>1. AnalyticsInv => NothingCountedTwice
  BY DEF AnalyticsInv, WindowedInv
<1>. QED
  BY <1>1, AnalyticsInvariant, PTL

NoneShrinks == \A w \in Windows : sink'[w] >= sink[w]

\* A row of orders_per_minute is never replaced by a smaller count, as a late row
\* would if it opened an evicted window again.
THEOREM CountsGrow == Spec => CountsNeverShrink
<1>1. AnalyticsInv /\ [Next]_vars => [NoneShrinks]_vars
  <2>. SUFFICES ASSUME AnalyticsInv, [Next]_vars PROVE NoneShrinks
    OBVIOUS
  <2>1. CASE Merge
    BY <2>1, MergedSink DEF AnalyticsInv, NoneShrinks
  <2>2. CASE ~Merge
    <3>1. sink' = sink
      BY <2>2
      DEF Next, vars, windowed, Produce, WindowedStep, PlanWindowed, CommitWindowed, CommitUpTo,
          NoDataBatch, DetectorStep, PlanDetector, Flag, FlagBehind, Raise, RaiseTo, CommitDetector,
          AlertStep, PlanAlerts, AppendAlerts, CommitAlerts, Crash
    <3>2. \A w \in Windows : sink[w] \in Nat
      BY DEF AnalyticsInv, TypeOK
    <3>. QED
      BY <3>1, <3>2 DEF NoneShrinks
  <2>. QED
    BY <2>1, <2>2
<1>. QED
  BY <1>1, AnalyticsInvariant, PTL DEF Spec, CountsNeverShrink, NoneShrinks

\* The detector's stored time is that of the rows before its checkpoint, or of the
\* planned batch as well: never of half a batch, and never behind.
THEOREM StoredTimeIsMax == Spec => []StoredIsMax
<1>1. AnalyticsInv => StoredIsMax
  <2>. SUFFICES ASSUME AnalyticsInv PROVE StoredIsMax
    OBVIOUS
  <2>1. TypeOK /\ DetectorInv
    BY DEF AnalyticsInv
  <2>2. Parsed(1, ddone) \in SUBSET (1 .. Len(topic)) /\ Parsed(1, dend) \in SUBSET (1 .. Len(topic))
    BY <2>1 DEF TypeOK, Parsed
  <2>. QED
    BY <2>1, <2>2, OneMax DEF DetectorInv, StoredIsMax
<1>. QED
  BY <1>1, AnalyticsInvariant, PTL

\* A flagged row is late: behind an earlier row by more than the threshold, or,
\* after a restart, behind a row of its own batch.
THEOREM OnlyLateFlagged == Spec => []FlaggedIsLate
<1>1. AnalyticsInv => FlaggedIsLate
  BY DEF AnalyticsInv, DetectorInv
<1>. QED
  BY <1>1, AnalyticsInvariant, PTL

\* A row that is behind one a batch or more before it is flagged by the time the
\* checkpoint has passed it.
THEOREM LateFlagged == Spec => []LateIsFlagged
<1>1. AnalyticsInv => LateIsFlagged
  <2>. SUFFICES ASSUME AnalyticsInv PROVE LateIsFlagged
    OBVIOUS
  <2>1. TypeOK /\ DetectorInv
    BY DEF AnalyticsInv
  <2>2. Parsed(1, ddone) \subseteq Parsed(1, Compared)
    BY <2>1 DEF TypeOK, Parsed, Compared
  <2>. QED
    BY <2>1, <2>2 DEF DetectorInv, LateIsFlagged
<1>. QED
  BY <1>1, AnalyticsInvariant, PTL

\* The appended tables are at least once, and a row is repeated at most once for
\* each restart.
THEOREM RepeatedOnRestart == Spec => []AppendsRepeatOnlyOnRestart
<1>1. AnalyticsInv => AppendsRepeatOnlyOnRestart
  <2>. SUFFICES ASSUME AnalyticsInv PROVE AppendsRepeatOnlyOnRestart
    OBVIOUS
  <2>1. \A i \in 1 .. adone : i \in DOMAIN Inventory /\ i <= Alerted
    BY TopicAssumption DEF AnalyticsInv, TypeOK, Alerted
  <2>. QED
    BY <2>1 DEF AnalyticsInv, AlertsInv, DetectorInv, AppendsRepeatOnlyOnRestart
<1>. QED
  BY <1>1, AnalyticsInvariant, PTL
=============================================================================
