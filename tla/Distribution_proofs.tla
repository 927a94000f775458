-------------------------- MODULE Distribution_proofs --------------------------
(***************************************************************************)
(* Facts about the SDK's distribution, as the export relies on it: what    *)
(* the books of one validator promise its delegations, and that starting,  *)
(* paying and ending a delegation keep the promise.                        *)
(***************************************************************************)
EXTENDS Distribution, SumLemmas

History == UNION {[D -> RecordType] : D \in SUBSET Nat}
Validator == [period : Nat \ {0}, rewards : Nat, commission : Nat, outstanding : Nat,
              history : History]
Start == [period : Nat, height : Nat]

Refs(val, q) == Record(val.history, q).refs
Ratio(val, q) == Record(val.history, q).ratio

\* What a delegation has earned up to the end of the last period.
Earned(val, start) == Ratio(val, val.period - 1) - Ratio(val, start.period)

\* The delegations, of those in S, that start at the end of period q.
StartingAt(S, starts, q) == {p \in S : starts[p].period = q}

\* Only past periods have a record, and no ratio is above the last.
RatiosGrow(val) ==
    \A q \in DOMAIN val.history : q < val.period /\ Ratio(val, q) <= Ratio(val, val.period - 1)

\* A record counts everybody who needs it.
RecordsKept(val, S, starts) ==
    \A q \in Nat : Cardinality(StartingAt(S, starts, q)) + (IF q = val.period - 1 THEN 1 ELSE 0)
                       <= Refs(val, q)

\* A delegation that starts in this block has earned nothing yet.
StartsPast(val, S, starts, height) ==
    \A p \in S : /\ starts[p] \in Start
                 /\ starts[p].period < val.period
                 /\ starts[p].height <= height
                 /\ starts[p].height = height => Earned(val, starts[p]) = 0 /\ val.rewards = 0

\* What the delegations in S have earned together.
Total(val, S, starts) == SumFunctionOnSet([p \in S |-> Earned(val, starts[p])], S)

\* All that was earned is still there to be paid.
Covered(val, S, starts) ==
    Total(val, S, starts) + val.rewards + val.commission <= val.outstanding

(* The books of a validator with the delegations S.                        *)
Sound(val, S, starts, height) ==
    /\ val \in Validator
    /\ RatiosGrow(val)
    /\ RecordsKept(val, S, starts)
    /\ StartsPast(val, S, starts, height)
    /\ Covered(val, S, starts)

-----------------------------------------------------------------------------
(* Records                                                                 *)

LEMMA HistoryIs ==
    ASSUME NEW h
    PROVE  h \in History <=> DOMAIN h \in SUBSET Nat /\ h \in [DOMAIN h -> RecordType]
  BY DEF History

LEMMA RecordIs ==
    ASSUME NEW h \in History, NEW q
    PROVE  /\ Record(h, q).ratio \in Nat /\ Record(h, q).refs \in Nat
           /\ q \in DOMAIN h <=> Record(h, q).refs > 0
           /\ q \in DOMAIN h => Record(h, q) = h[q] /\ h[q] \in RecordType /\ q \in Nat
           /\ q \notin DOMAIN h => Record(h, q).ratio = 0 /\ Record(h, q).refs = 0
  BY HistoryIs DEF Record, RecordType, EmptyRecord

LEMMA ReferenceIs ==
    ASSUME NEW h \in History, NEW p \in Nat
    PROVE  /\ Reference(h, p) \in History /\ DOMAIN Reference(h, p) = DOMAIN h \cup {p}
           /\ \A q : Record(Reference(h, p), q).ratio = Record(h, q).ratio
           /\ \A q : Record(Reference(h, p), q).refs = Record(h, q).refs + (IF q = p THEN 1 ELSE 0)
  <1> DEFINE n == Reference(h, p)
             r == [Record(h, p) EXCEPT !.refs = @ + 1]
  <1>1. r \in RecordType /\ r.ratio = Record(h, p).ratio /\ r.refs = Record(h, p).refs + 1
    BY RecordIs DEF RecordType, Record, EmptyRecord
  <1>2. n = [q \in DOMAIN h \cup {p} |-> IF q = p THEN r ELSE h[q]]
    BY DEF Reference
  <1> HIDE DEF r
  <1>3. DOMAIN n = DOMAIN h \cup {p} /\ n \in [DOMAIN n -> RecordType]
    BY <1>1, <1>2, HistoryIs
  <1>4. n \in History
    BY <1>3, HistoryIs
  <1>5. n[p] = r /\ \A q \in DOMAIN h : q # p => n[q] = h[q]
    BY <1>2
  <1>6. ASSUME NEW q
        PROVE  /\ Record(n, q).ratio = Record(h, q).ratio
               /\ Record(n, q).refs = Record(h, q).refs + (IF q = p THEN 1 ELSE 0)
    <2>1. CASE q = p
      BY <1>1, <1>3, <1>5, <2>1 DEF Record
    <2>2. CASE q # p
      <3>1. Record(n, q) = Record(h, q)
        BY <1>3, <1>5, <2>2 DEF Record
      <3>2. QED  BY <2>2, <3>1, RecordIs
    <2>3. QED  BY <2>1, <2>2
  <1>7. QED  BY <1>3, <1>4, <1>6

LEMMA ReleaseIs ==
    ASSUME NEW h \in History, NEW p \in DOMAIN h, NEW n, n = Release(h, p)
    PROVE  /\ n \in History /\ DOMAIN n \subseteq DOMAIN h
           /\ \A q \in DOMAIN n : Record(n, q).ratio = Record(h, q).ratio
           /\ \A q : Record(n, q).refs = Record(h, q).refs - (IF q = p THEN 1 ELSE 0)
  <1>1. Record(h, p) = h[p] /\ h[p] \in RecordType /\ h[p].refs \in Nat \ {0} /\ h[p].ratio \in Nat
    BY RecordIs DEF RecordType
  <1>2. CASE h[p].refs > 1
    <2> DEFINE r == [h[p] EXCEPT !.refs = @ - 1]
    <2>1. r \in RecordType /\ r.ratio = h[p].ratio /\ r.refs = h[p].refs - 1
      BY <1>1, <1>2 DEF RecordType
    <2>2. n = [h EXCEPT ![p] = r]
      BY <1>1, <1>2 DEF Release
    <2> HIDE DEF r
    <2>3. DOMAIN n = DOMAIN h /\ n[p] = r /\ \A q \in DOMAIN h : q # p => n[q] = h[q]
      BY <2>2, HistoryIs
    <2>4. n \in History
      BY <2>1, <2>2, <2>3, HistoryIs
    <2>5. ASSUME NEW q
          PROVE  /\ Record(n, q).ratio = Record(h, q).ratio
                 /\ Record(n, q).refs = Record(h, q).refs - (IF q = p THEN 1 ELSE 0)
      <3>1. CASE q = p
        BY <1>1, <2>1, <2>3, <3>1 DEF Record
      <3>2. CASE q # p
        <4>1. Record(n, q) = Record(h, q)
          BY <2>3, <3>2 DEF Record
        <4>2. QED  BY <3>2, <4>1, RecordIs
      <3>3. QED  BY <3>1, <3>2
    <2>6. QED  BY <2>3, <2>4, <2>5
  <1>3. CASE h[p].refs = 1
    <2>1. n = [q \in DOMAIN h \ {p} |-> h[q]]
      BY <1>1, <1>3 DEF Release
    <2>2. DOMAIN n = DOMAIN h \ {p} /\ \A q \in DOMAIN n : n[q] = h[q]
      BY <2>1
    <2>3. n \in [DOMAIN n -> RecordType]
      BY <2>1, <2>2, HistoryIs
    <2>4. n \in History
      BY <2>2, <2>3, HistoryIs
    <2>5. \A q \in DOMAIN n : Record(n, q).ratio = Record(h, q).ratio
      BY <2>2 DEF Record
    <2>6. ASSUME NEW q
          PROVE  Record(n, q).refs = Record(h, q).refs - (IF q = p THEN 1 ELSE 0)
      <3>1. CASE q = p
        BY <1>1, <1>3, <2>2, <3>1, <2>4, RecordIs
      <3>2. CASE q # p
        <4>1. Record(n, q) = Record(h, q)
          BY <2>2, <3>2 DEF Record
        <4>2. QED  BY <3>2, <4>1, RecordIs
      <3>3. QED  BY <3>1, <3>2
    <2>7. QED  BY <2>2, <2>4, <2>5, <2>6
  <1>4. QED  BY <1>1, <1>2, <1>3

LEMMA ExtendIs ==
    ASSUME NEW h \in History, NEW p \in Nat, NEW r \in RecordType,
           NEW n, n = [q \in DOMAIN h \cup {p} |-> IF q = p THEN r ELSE h[q]]
    PROVE  /\ n \in History /\ DOMAIN n = DOMAIN h \cup {p}
           /\ Record(n, p) = r /\ \A q : q # p => Record(n, q) = Record(h, q)
  <1>1. DOMAIN n = DOMAIN h \cup {p} /\ n \in [DOMAIN n -> RecordType]
    BY HistoryIs
  <1>2. n[p] = r /\ \A q \in DOMAIN h : q # p => n[q] = h[q]
    OBVIOUS
  <1>3. n \in History
    BY <1>1, HistoryIs
  <1>4. QED  BY <1>1, <1>2, <1>3 DEF Record

-----------------------------------------------------------------------------
(* Sound books                                                             *)

\* A validator, field by field.
LEMMA ValidatorIs ==
    ASSUME NEW val \in Validator
    PROVE  /\ val.period \in Nat /\ val.period > 0 /\ val.rewards \in Nat
           /\ val.commission \in Nat /\ val.outstanding \in Nat /\ val.history \in History
           /\ \A q : Ratio(val, q) \in Nat /\ Refs(val, q) \in Nat
  BY RecordIs DEF Validator, Ratio, Refs

\* The records that somebody needs are there.
LEMMA NeededIsThere ==
    ASSUME NEW val, NEW S, IsFiniteSet(S), NEW starts, NEW h, Sound(val, S, starts, h)
    PROVE  /\ val.period - 1 \in DOMAIN val.history
           /\ \A p \in S : /\ starts[p].period \in DOMAIN val.history
                          /\ starts[p].period \in Nat
                          /\ 1 + (IF starts[p].period = val.period - 1 THEN 1 ELSE 0)
                                 <= Refs(val, starts[p].period)
                          /\ Earned(val, starts[p]) \in Nat
           /\ \A q : Cardinality(StartingAt(S, starts, q)) \in Nat
  <1> USE DEF Sound
  <1>1. \A q : IsFiniteSet(StartingAt(S, starts, q)) /\ Cardinality(StartingAt(S, starts, q)) \in Nat
    <2> SUFFICES ASSUME NEW q
                 PROVE  IsFiniteSet(StartingAt(S, starts, q))
                        /\ Cardinality(StartingAt(S, starts, q)) \in Nat
      OBVIOUS
    <2>1. StartingAt(S, starts, q) \in SUBSET S
      BY DEF StartingAt
    <2>2. QED  BY <2>1, FS_Subset, FS_CardinalityType
  <1>2. val.period - 1 \in Nat /\ val.history \in History
    BY ValidatorIs
  <1>3. val.period - 1 \in DOMAIN val.history
    <2>1. Cardinality(StartingAt(S, starts, val.period - 1)) + 1 <= Refs(val, val.period - 1)
      BY <1>2 DEF RecordsKept
    <2>2. Record(val.history, val.period - 1).refs > 0
      BY <1>1, <1>2, <2>1, ValidatorIs DEF Refs
    <2>3. QED  BY <1>2, <2>2, RecordIs
  <1>4. ASSUME NEW p \in S
        PROVE  /\ starts[p].period \in DOMAIN val.history
               /\ starts[p].period \in Nat
               /\ 1 + (IF starts[p].period = val.period - 1 THEN 1 ELSE 0) <= Refs(val, starts[p].period)
               /\ Earned(val, starts[p]) \in Nat
    <2> DEFINE q == starts[p].period
    <2>1. q \in Nat
      BY DEF StartsPast, Start
    <2>2. StartingAt(S, starts, q) # {}
      BY DEF StartingAt
    <2>3. Cardinality(StartingAt(S, starts, q)) >= 1
      BY <1>1, <2>2, FS_EmptySet
    <2>4. Cardinality(StartingAt(S, starts, q)) + (IF q = val.period - 1 THEN 1 ELSE 0) <= Refs(val, q)
      BY <2>1 DEF RecordsKept
    <2>5. 1 + (IF q = val.period - 1 THEN 1 ELSE 0) <= Refs(val, q)
      BY <1>1, <2>3, <2>4, ValidatorIs
    <2>6. Record(val.history, q).refs > 0
      BY <2>5, ValidatorIs DEF Refs
    <2>7. q \in DOMAIN val.history
      BY <1>2, <2>6, RecordIs
    <2>8. Earned(val, starts[p]) \in Nat
      BY <2>7, ValidatorIs DEF RatiosGrow, Earned
    <2>9. QED  BY <2>1, <2>5, <2>7, <2>8
  <1>5. QED  BY <1>1, <1>3, <1>4

\* A period ends.
LEMMA IncrementIs ==
    ASSUME NEW val \in Validator, val.period - 1 \in DOMAIN val.history, RatiosGrow(val),
           NEW n \in Nat \ {0}, NEW now, now = Increment(val, n)
    PROVE  /\ now \in Validator /\ now.period = val.period + 1 /\ now.rewards = 0
           /\ now.commission = val.commission /\ now.outstanding = val.outstanding
           /\ val.rewards \div n \in Nat
           /\ Ratio(now, val.period) = Ratio(val, val.period - 1) + val.rewards \div n
           /\ Refs(now, val.period) = 1
           /\ DOMAIN now.history \subseteq DOMAIN val.history \cup {val.period}
           /\ \A q : q # val.period =>
                 /\ Refs(now, q) = Refs(val, q) - (IF q = val.period - 1 THEN 1 ELSE 0)
                 /\ q \in DOMAIN now.history => Ratio(now, q) = Ratio(val, q)
  <1> DEFINE rest == Release(val.history, val.period - 1)
             r    == [ratio |-> Record(val.history, val.period - 1).ratio + val.rewards \div n, refs |-> 1]
             hist == [q \in DOMAIN rest \cup {val.period} |-> IF q = val.period THEN r ELSE rest[q]]
  <1>1. val.rewards \div n \in Nat /\ val.history \in History /\ val.period \in Nat
    BY ValidatorIs
  <1>2. /\ rest \in History /\ DOMAIN rest \subseteq DOMAIN val.history
        /\ \A q \in DOMAIN rest : Record(rest, q).ratio = Record(val.history, q).ratio
        /\ \A q : Record(rest, q).refs
                     = Record(val.history, q).refs - (IF q = val.period - 1 THEN 1 ELSE 0)
    BY <1>1, ReleaseIs
  <1>3. r \in RecordType
    <2>1. Record(val.history, val.period - 1).ratio \in Nat
      BY <1>1, RecordIs
    <2>2. QED  BY <1>1, <2>1 DEF RecordType
  <1>4. now = [val EXCEPT !.period = val.period + 1, !.rewards = 0, !.history = hist]
    BY DEF Increment
  <1> HIDE DEF rest
  <1>5. /\ hist \in History /\ DOMAIN hist = DOMAIN rest \cup {val.period}
        /\ Record(hist, val.period) = r /\ \A q : q # val.period => Record(hist, q) = Record(rest, q)
    <2> HIDE DEF r
    <2>1. hist = [q \in DOMAIN rest \cup {val.period} |-> IF q = val.period THEN r ELSE rest[q]]
      OBVIOUS
    <2> HIDE DEF hist
    <2>2. QED  BY <1>1, <1>2, <1>3, <2>1, ExtendIs
  <1> HIDE DEF hist
  <1>6. /\ now \in Validator /\ now.history = hist /\ now.period = val.period + 1 /\ now.rewards = 0
        /\ now.commission = val.commission /\ now.outstanding = val.outstanding
    <2>1. ASSUME NEW p, p = val.period + 1, NEW h, h = hist
          PROVE  /\ now \in Validator
                 /\ now.period = p /\ now.rewards = 0 /\ now.history = h
                 /\ now.commission = val.commission /\ now.outstanding = val.outstanding
      <3>0. val \in Validator
        OBVIOUS
      <3>1. h \in History
        BY <1>5, <2>1
      <3>2. p \in Nat \ {0}
        BY <1>1, <2>1
      <3>3. now = [val EXCEPT !.period = p, !.rewards = 0, !.history = h]
        BY <1>4, <2>1
      <3>4. now \in Validator
        BY ONLY <3>0, <3>1, <3>2, <3>3 DEF Validator
      <3>5. now.period = p /\ now.rewards = 0 /\ now.history = h
        BY ONLY <3>0, <3>1, <3>2, <3>3 DEF Validator
      <3>6. now.commission = val.commission /\ now.outstanding = val.outstanding
        BY ONLY <3>0, <3>1, <3>2, <3>3 DEF Validator
      <3>7. QED  BY <3>4, <3>5, <3>6
    <2>2. QED  BY <2>1
  <1>7. /\ Ratio(now, val.period) = Ratio(val, val.period - 1) + val.rewards \div n
        /\ Refs(now, val.period) = 1
    BY <1>5, <1>6 DEF Ratio, Refs
  <1>8. DOMAIN now.history \subseteq DOMAIN val.history \cup {val.period}
    BY <1>2, <1>5, <1>6
  <1>9. ASSUME NEW q, q # val.period
        PROVE  /\ Refs(now, q) = Refs(val, q) - (IF q = val.period - 1 THEN 1 ELSE 0)
               /\ q \in DOMAIN now.history => Ratio(now, q) = Ratio(val, q)
    BY <1>2, <1>5, <1>6, <1>9 DEF Ratio, Refs
  <1>10. QED  BY <1>1, <1>6, <1>7, <1>8, <1>9

(* When a period ends, everybody has earned a share of its rewards, and    *)
(* the books stay sound.                                                   *)
LEMMA IncrementSound ==
    ASSUME NEW val, NEW S, IsFiniteSet(S), S # {}, NEW starts, NEW h, Sound(val, S, starts, h)
    PROVE  /\ Sound(Increment(val, Cardinality(S)), S, starts, h)
           /\ Increment(val, Cardinality(S)).rewards = 0
           /\ Increment(val, Cardinality(S)).period = val.period + 1
           /\ Increment(val, Cardinality(S)).commission = val.commission
           /\ Increment(val, Cardinality(S)).outstanding = val.outstanding
           /\ val.rewards \div Cardinality(S) \in Nat
           /\ \A p \in S : Earned(Increment(val, Cardinality(S)), starts[p])
                              = Earned(val, starts[p]) + val.rewards \div Cardinality(S)
  <1> DEFINE n == Cardinality(S)
             now == Increment(val, n)
             d == val.rewards \div n
  <1>1. n \in Nat \ {0}
    BY FS_CardinalityType, FS_EmptySet
  <1>2. val \in Validator /\ RatiosGrow(val) /\ val.period - 1 \in DOMAIN val.history
    BY NeededIsThere DEF Sound
  <1>3. /\ now \in Validator /\ now.period = val.period + 1 /\ now.rewards = 0
        /\ now.commission = val.commission /\ now.outstanding = val.outstanding
        /\ d \in Nat
        /\ Ratio(now, val.period) = Ratio(val, val.period - 1) + d
        /\ Refs(now, val.period) = 1
        /\ DOMAIN now.history \subseteq DOMAIN val.history \cup {val.period}
        /\ \A q : q # val.period =>
              /\ Refs(now, q) = Refs(val, q) - (IF q = val.period - 1 THEN 1 ELSE 0)
              /\ q \in DOMAIN now.history => Ratio(now, q) = Ratio(val, q)
    <2>1. now = Increment(val, n)
      OBVIOUS
    <2> HIDE DEF now, n
    <2>2. QED  BY <1>1, <1>2, <2>1, IncrementIs
  <1> HIDE DEF now
  <1>4. /\ val.period \in Nat /\ val.period > 0 /\ val.rewards \in Nat /\ val.commission \in Nat
        /\ val.outstanding \in Nat /\ \A q : Ratio(val, q) \in Nat /\ Refs(val, q) \in Nat
    BY <1>2, ValidatorIs
  <1>5. \A q : Ratio(now, q) \in Nat /\ Refs(now, q) \in Nat
    BY <1>3, ValidatorIs
  <1>6. now.period - 1 = val.period
    BY <1>3, <1>4
  <1>7. n * d <= val.rewards
    BY <1>1, <1>4
  <1> HIDE DEF n, d
  <1>8. RatiosGrow(now)
    <2> SUFFICES ASSUME NEW q \in DOMAIN now.history
                 PROVE  q < now.period /\ Ratio(now, q) <= Ratio(now, now.period - 1)
      BY DEF RatiosGrow
    <2>1. CASE q = val.period
      BY <1>3, <1>4, <1>5, <1>6, <2>1
    <2>2. CASE q # val.period
      <3>1. q \in DOMAIN val.history /\ Ratio(now, q) = Ratio(val, q)
        BY <1>3, <2>2
      <3>2. q < val.period /\ Ratio(val, q) <= Ratio(val, val.period - 1) /\ q \in Int
        BY <1>2, <3>1, HistoryIs DEF RatiosGrow, Validator
      <3>3. QED  BY <1>3, <1>4, <1>6, <3>1, <3>2
    <2>3. QED  BY <2>1, <2>2
  <1>9. ASSUME NEW p \in S
        PROVE  /\ starts[p] \in Start /\ starts[p].period \in Nat
               /\ starts[p].period < val.period /\ starts[p].height <= h
               /\ starts[p].height = h => Earned(val, starts[p]) = 0 /\ val.rewards = 0
    BY DEF Sound, StartsPast, Start
  <1>10. \A q : Cardinality(StartingAt(S, starts, q)) \in Nat
    BY NeededIsThere
  <1>11. RecordsKept(now, S, starts)
    <2> SUFFICES ASSUME NEW q \in Nat
                 PROVE  Cardinality(StartingAt(S, starts, q)) + (IF q = now.period - 1 THEN 1 ELSE 0)
                           <= Refs(now, q)
      BY DEF RecordsKept
    <2>1. CASE q = val.period
      <3>1. StartingAt(S, starts, q) = {}
        BY <1>4, <1>9, <2>1 DEF StartingAt
      <3>2. Cardinality(StartingAt(S, starts, q)) = 0
        BY <3>1, FS_EmptySet
      <3>3. QED  BY <1>3, <1>6, <2>1, <3>2
    <2>2. CASE q # val.period
      <3>1. Cardinality(StartingAt(S, starts, q)) + (IF q = val.period - 1 THEN 1 ELSE 0) <= Refs(val, q)
        BY DEF Sound, RecordsKept
      <3>2. Refs(now, q) = Refs(val, q) - (IF q = val.period - 1 THEN 1 ELSE 0)
        BY <1>3, <2>2
      <3>3. QED  BY <1>4, <1>6, <1>10, <2>2, <3>1, <3>2
    <2>3. QED  BY <2>1, <2>2
  <1>12. ASSUME NEW p \in S PROVE Earned(now, starts[p]) = Earned(val, starts[p]) + d
    <2> DEFINE q == starts[p].period
    <2>1. q \in Nat /\ q # val.period
      BY <1>4, <1>9
    <2>2. 1 + (IF q = val.period - 1 THEN 1 ELSE 0) <= Refs(val, q)
      BY NeededIsThere
    <2>3. Refs(now, q) = Refs(val, q) - (IF q = val.period - 1 THEN 1 ELSE 0)
      BY <1>3, <2>1
    <2>4. Record(now.history, q).refs > 0
      BY <1>4, <2>2, <2>3 DEF Refs
    <2>5. q \in DOMAIN now.history
      BY <1>3, <2>4, RecordIs DEF Validator
    <2>6. Ratio(now, q) = Ratio(val, q)
      BY <1>3, <2>1, <2>5
    <2>7. QED  BY <1>3, <1>4, <1>6, <2>6 DEF Earned
  <1>13. \A p \in S : Earned(val, starts[p]) \in Int
    BY <1>4 DEF Earned
  <1>14. StartsPast(now, S, starts, h)
    <2> SUFFICES ASSUME NEW p \in S
                 PROVE  /\ starts[p] \in Start
                        /\ starts[p].period < now.period
                        /\ starts[p].height <= h
                        /\ starts[p].height = h => Earned(now, starts[p]) = 0 /\ now.rewards = 0
      BY DEF StartsPast
    <2>1. starts[p].period < now.period
      BY <1>3, <1>4, <1>9
    <2>2. starts[p].height = h => Earned(now, starts[p]) = 0 /\ now.rewards = 0
      <3>1. val.rewards = 0 => d = 0
        BY <1>1 DEF d
      <3>2. QED  BY <1>3, <1>9, <1>12, <3>1
    <2>3. QED  BY <1>9, <2>1, <2>2
  <1>15. Covered(now, S, starts)
    <2> DEFINE f == [p \in S |-> Earned(val, starts[p])]
               e == [p \in S |-> Earned(now, starts[p])]
    <2>1. \A p \in S : f[p] \in Int
      BY <1>13
    <2>2. \A p \in S : e[p] = f[p] + d
      BY <1>12
    <2>3. SumFunctionOnSet(f, S) + val.rewards + val.commission <= val.outstanding
      BY DEF Sound, Covered, Total
    <2> HIDE DEF f, e
    <2>4. SumFunctionOnSet(e, S) = SumFunctionOnSet(f, S) + n * d
      BY <1>3, <2>1, <2>2, SumShift DEF n
    <2>5. SumFunctionOnSet(f, S) \in Int
      BY <2>1, SumInt
    <2>6. n * d \in Int
      BY <1>1, <1>3
    <2>7. SumFunctionOnSet(e, S) + now.rewards + now.commission <= now.outstanding
      BY <1>3, <1>4, <1>7, <2>3, <2>4, <2>5, <2>6
    <2>8. QED  BY <2>7 DEF Covered, Total, e
  <1>16. Sound(now, S, starts, h)
    BY <1>3, <1>8, <1>11, <1>14, <1>15 DEF Sound
  <1>17. QED  BY <1>3, <1>12, <1>16 DEF n, d, now

\* Only the starts of the delegations in S matter.
LEMMA SoundSame ==
    ASSUME NEW val, NEW S, NEW starts, NEW h, Sound(val, S, starts, h),
           NEW others, \A p \in S : others[p] = starts[p]
    PROVE  Sound(val, S, others, h)
  <1>1. \A q : StartingAt(S, others, q) = StartingAt(S, starts, q)
    BY DEF StartingAt
  <1>2. [p \in S |-> Earned(val, others[p])] = [p \in S |-> Earned(val, starts[p])]
    OBVIOUS
  <1>3. RecordsKept(val, S, others)
    BY <1>1 DEF Sound, RecordsKept
  <1>4. StartsPast(val, S, others, h)
    BY DEF Sound, StartsPast
  <1>5. Covered(val, S, others)
    BY <1>2 DEF Sound, Covered, Total
  <1>6. QED  BY <1>3, <1>4, <1>5 DEF Sound

LEMMA TotalNat ==
    ASSUME NEW val, NEW S, IsFiniteSet(S), NEW starts, NEW h, Sound(val, S, starts, h)
    PROVE  Total(val, S, starts) \in Nat
  <1> DEFINE f == [q \in S |-> Earned(val, starts[q])]
  <1>1. \A q \in S : f[q] \in Nat
    BY NeededIsThere
  <1> HIDE DEF f
  <1>2. SumFunctionOnSet(f, S) \in Nat
    BY <1>1, SumNat
  <1>3. QED  BY <1>2 DEF Total, f

\* A delegation less leaves the records in order.
LEMMA DropSound ==
    ASSUME NEW val, NEW S, IsFiniteSet(S), NEW starts, NEW h, Sound(val, S, starts, h), NEW p \in S
    PROVE  /\ RecordsKept(val, S \ {p}, starts)
           /\ Cardinality(StartingAt(S, starts, starts[p].period))
                 = Cardinality(StartingAt(S \ {p}, starts, starts[p].period)) + 1
           /\ Cardinality(StartingAt(S \ {p}, starts, starts[p].period)) \in Nat
           /\ StartsPast(val, S \ {p}, starts, h)
  <1> DEFINE k == starts[p].period
             T == S \ {p}
  <1>1. IsFiniteSet(T)
    BY FS_RemoveElement
  <1>2. \A q : /\ StartingAt(T, starts, q) \subseteq StartingAt(S, starts, q)
               /\ IsFiniteSet(StartingAt(S, starts, q))
               /\ Cardinality(StartingAt(T, starts, q)) \in Nat
               /\ Cardinality(StartingAt(T, starts, q)) <= Cardinality(StartingAt(S, starts, q))
    <2> SUFFICES ASSUME NEW q
                 PROVE  /\ StartingAt(T, starts, q) \subseteq StartingAt(S, starts, q)
                        /\ IsFiniteSet(StartingAt(S, starts, q))
                        /\ Cardinality(StartingAt(T, starts, q)) \in Nat
                        /\ Cardinality(StartingAt(T, starts, q)) <= Cardinality(StartingAt(S, starts, q))
      OBVIOUS
    <2>1. StartingAt(T, starts, q) \in SUBSET StartingAt(S, starts, q)
      BY DEF StartingAt
    <2>2. StartingAt(S, starts, q) \in SUBSET S
      BY DEF StartingAt
    <2>3. IsFiniteSet(StartingAt(S, starts, q))
      BY <2>2, FS_Subset
    <2>4. IsFiniteSet(StartingAt(T, starts, q))
          /\ Cardinality(StartingAt(T, starts, q)) <= Cardinality(StartingAt(S, starts, q))
      BY <2>1, <2>3, FS_Subset
    <2>5. QED  BY <2>1, <2>3, <2>4, FS_CardinalityType
  <1>3. StartingAt(T, starts, k) = StartingAt(S, starts, k) \ {p} /\ p \in StartingAt(S, starts, k)
    BY DEF StartingAt
  <1>4. Cardinality(StartingAt(S, starts, k)) = Cardinality(StartingAt(T, starts, k)) + 1
    <2>1. Cardinality(StartingAt(T, starts, k)) = Cardinality(StartingAt(S, starts, k)) - 1
      BY <1>2, <1>3, FS_RemoveElement
    <2>2. Cardinality(StartingAt(S, starts, k)) \in Nat
      BY <1>2, FS_CardinalityType
    <2>3. QED  BY <2>1, <2>2
  <1>5. RecordsKept(val, T, starts)
    <2> SUFFICES ASSUME NEW q \in Nat
                 PROVE  Cardinality(StartingAt(T, starts, q)) + (IF q = val.period - 1 THEN 1 ELSE 0)
                           <= Refs(val, q)
      BY DEF RecordsKept
    <2>1. Cardinality(StartingAt(S, starts, q)) + (IF q = val.period - 1 THEN 1 ELSE 0) <= Refs(val, q)
      BY DEF Sound, RecordsKept
    <2>2. Cardinality(StartingAt(S, starts, q)) \in Nat /\ Refs(val, q) \in Nat
      BY <1>2, FS_CardinalityType, ValidatorIs DEF Sound
    <2>3. QED  BY <1>2, <2>1, <2>2
  <1>6. StartsPast(val, T, starts, h)
    BY DEF Sound, StartsPast
  <1>7. QED  BY <1>2, <1>4, <1>5, <1>6

\* Without it, they have earned so much less together.
LEMMA DropTotal ==
    ASSUME NEW val, NEW S, IsFiniteSet(S), NEW starts, NEW h, Sound(val, S, starts, h), NEW p \in S
    PROVE  /\ Total(val, S, starts) \in Nat
           /\ Earned(val, starts[p]) <= Total(val, S, starts)
           /\ Total(val, S \ {p}, starts) = Total(val, S, starts) - Earned(val, starts[p])
  <1> DEFINE T == S \ {p}
             f == [q \in S |-> Earned(val, starts[q])]
             e == [q \in T |-> Earned(val, starts[q])]
  <1>1. IsFiniteSet(T)
    BY FS_RemoveElement
  <1>2. \A q \in S : f[q] \in Nat
    BY NeededIsThere
  <1>3. \A q \in T : f[q] \in Int /\ f[q] = e[q]
    BY <1>2
  <1>4. f[p] = Earned(val, starts[p])
    OBVIOUS
  <1> HIDE DEF f, e
  <1>5. SumFunctionOnSet(f, S) \in Nat /\ f[p] <= SumFunctionOnSet(f, S)
    BY <1>2, SumNat
  <1>6. SumFunctionOnSet(f, S) = f[p] + SumFunctionOnSet(f, T)
    <2>1. \A q \in S : f[q] \in Int
      BY <1>2
    <2>2. QED  BY <2>1, SumRemove
  <1>7. SumFunctionOnSet(f, T) = SumFunctionOnSet(e, T)
    BY <1>1, <1>3, SumSame
  <1>8. SumFunctionOnSet(e, T) \in Int
    <2>1. \A q \in T : e[q] \in Int
      BY <1>3
    <2>2. QED  BY <1>1, <2>1, SumInt
  <1>9. SumFunctionOnSet(e, T) = SumFunctionOnSet(f, S) - f[p]
    BY <1>2, <1>6, <1>7, <1>8
  <1>10. QED  BY <1>4, <1>5, <1>9 DEF f, e, Total

\* A validator without a delegation, and without what that has earned.
PaidOut(val, start) ==
    [val EXCEPT !.outstanding = @ - Earned(val, start), !.history = Release(@, start.period)]

(* now is val after it has paid one of the delegations S, p, all that it   *)
(* had earned: the others have what they had.                              *)
Parted(now, val, S, starts, h, p) ==
    /\ Sound(now, S \ {p}, starts, h)
    /\ now.rewards = 0 /\ now.outstanding = val.outstanding - Earned(val, starts[p])
    /\ \A q \in S \ {p} : Earned(now, starts[q]) = Earned(val, starts[q])

(* A delegation that started earlier is paid what it has earned, and ends. *)
LEMMA PaySound ==
    ASSUME NEW val, NEW S, IsFiniteSet(S), NEW starts, NEW h, Sound(val, S, starts, h),
           val.rewards = 0, NEW p \in S, starts[p].period < val.period - 1
    PROVE  Parted(PaidOut(val, starts[p]), val, S, starts, h, p)
  <1> DEFINE now == PaidOut(val, starts[p])
             pay == Earned(val, starts[p])
             k == starts[p].period
             o == val.outstanding - pay
             g == Release(val.history, k)
             T == S \ {p}
  <1>1. /\ val \in Validator /\ val.period \in Nat /\ val.commission \in Nat
        /\ val.outstanding \in Nat /\ val.history \in History
        /\ \A q : Ratio(val, q) \in Nat /\ Refs(val, q) \in Nat
    BY ValidatorIs DEF Sound
  <1>2. k \in DOMAIN val.history /\ k \in Nat /\ pay \in Nat
    BY NeededIsThere
  <1>3. /\ RecordsKept(val, T, starts)
        /\ Cardinality(StartingAt(S, starts, k)) = Cardinality(StartingAt(T, starts, k)) + 1
        /\ Cardinality(StartingAt(T, starts, k)) \in Nat
        /\ StartsPast(val, T, starts, h)
    BY DropSound
  <1>4. /\ Total(val, T, starts) = Total(val, S, starts) - pay
        /\ Total(val, S, starts) \in Nat /\ pay <= Total(val, S, starts)
    <2>1. /\ Total(val, T, starts) = Total(val, S, starts) - Earned(val, starts[p])
          /\ Total(val, S, starts) \in Nat /\ Earned(val, starts[p]) <= Total(val, S, starts)
      BY DropTotal
    <2>2. pay = Earned(val, starts[p])
      OBVIOUS
    <2>3. QED  BY <2>1, <2>2
  <1>5. Total(val, S, starts) + val.commission <= val.outstanding
    BY <1>1, <1>4 DEF Sound, Covered
  <1>6. o \in Nat
    BY <1>1, <1>2, <1>4, <1>5
  <1>7. /\ g \in History /\ DOMAIN g \subseteq DOMAIN val.history
        /\ \A q \in DOMAIN g : Record(g, q).ratio = Record(val.history, q).ratio
        /\ \A q : Record(g, q).refs = Record(val.history, q).refs - (IF q = k THEN 1 ELSE 0)
    BY <1>1, <1>2, ReleaseIs
  <1>8. now = [val EXCEPT !.outstanding = o, !.history = g]
    BY DEF PaidOut
  <1> HIDE DEF g, o, now, pay
  <1>9. /\ now \in Validator /\ now.outstanding = o /\ now.history = g
        /\ now.period = val.period /\ now.rewards = val.rewards /\ now.commission = val.commission
    <2>1. ASSUME NEW a, a = o, NEW b, b = g
          PROVE  /\ now \in Validator /\ now.outstanding = a /\ now.history = b
                 /\ now.period = val.period /\ now.rewards = val.rewards
                 /\ now.commission = val.commission
      <3>0. val \in Validator
        BY <1>1
      <3>1. a \in Nat
        BY <1>6, <2>1
      <3>2. b \in History
        BY <1>7, <2>1
      <3>3. now = [val EXCEPT !.outstanding = a, !.history = b]
        BY <1>8, <2>1
      <3>4. now \in Validator
        BY ONLY <3>0, <3>1, <3>2, <3>3 DEF Validator
      <3>5. now.outstanding = a /\ now.history = b
        BY ONLY <3>0, <3>1, <3>2, <3>3 DEF Validator
      <3>6. now.period = val.period /\ now.rewards = val.rewards /\ now.commission = val.commission
        BY ONLY <3>0, <3>1, <3>2, <3>3 DEF Validator
      <3>7. QED  BY <3>4, <3>5, <3>6
    <2>2. QED  BY <2>1
  <1>10. /\ \A q : Refs(now, q) = Refs(val, q) - (IF q = k THEN 1 ELSE 0)
         /\ \A q \in DOMAIN now.history : Ratio(now, q) = Ratio(val, q)
    BY <1>7, <1>9 DEF Refs, Ratio
  <1>11. \A q : Ratio(now, q) \in Nat /\ Refs(now, q) \in Nat
    BY <1>9, ValidatorIs
  <1>12. RecordsKept(now, T, starts)
    <2> SUFFICES ASSUME NEW q \in Nat
                 PROVE  Cardinality(StartingAt(T, starts, q)) + (IF q = now.period - 1 THEN 1 ELSE 0)
                           <= Refs(now, q)
      BY DEF RecordsKept
    <2>1. CASE q = k
      <3>1. Cardinality(StartingAt(S, starts, q)) + (IF q = val.period - 1 THEN 1 ELSE 0) <= Refs(val, q)
        BY DEF Sound, RecordsKept
      <3>2. Refs(now, q) = Refs(val, q) - 1
        BY <1>10, <2>1
      <3>3. QED  BY <1>1, <1>3, <1>9, <2>1, <3>1, <3>2
    <2>2. CASE q # k
      <3>1. Refs(now, q) = Refs(val, q)
        BY <1>1, <1>10, <2>2
      <3>2. QED  BY <1>3, <1>9, <3>1 DEF RecordsKept
    <2>3. QED  BY <2>1, <2>2
  <1>13. /\ val.period - 1 \in DOMAIN now.history
         /\ \A q \in T : starts[q].period \in DOMAIN now.history
    <2>1. val.period - 1 \in DOMAIN val.history
      BY NeededIsThere
    <2>2. Record(val.history, val.period - 1).refs > 0
      BY <1>1, <2>1, RecordIs
    <2>3. Record(now.history, val.period - 1).refs > 0
      <3>1. k # val.period - 1
        BY <1>1, <1>2
      <3>2. Record(g, val.period - 1).refs = Record(val.history, val.period - 1).refs - 0
        BY <1>7, <3>1
      <3>3. Record(val.history, val.period - 1).refs \in Nat
        BY <1>1, RecordIs
      <3>4. QED  BY <1>9, <2>2, <3>2, <3>3
    <2>4. val.period - 1 \in DOMAIN now.history
      BY <1>7, <1>9, <2>3, RecordIs
    <2>5. ASSUME NEW q \in T PROVE starts[q].period \in DOMAIN now.history
      <3> DEFINE j == starts[q].period
      <3>1. j \in DOMAIN val.history /\ j \in Nat
        BY NeededIsThere
      <3>2. StartingAt(T, starts, j) # {} /\ StartingAt(T, starts, j) \in SUBSET S
        BY DEF StartingAt
      <3>3. IsFiniteSet(StartingAt(T, starts, j))
        BY <3>2, FS_Subset
      <3>4. Cardinality(StartingAt(T, starts, j)) \in Nat /\ Cardinality(StartingAt(T, starts, j)) # 0
        BY <3>2, <3>3, FS_EmptySet, FS_CardinalityType
      <3>5. Cardinality(StartingAt(T, starts, j)) + (IF j = now.period - 1 THEN 1 ELSE 0) <= Refs(now, j)
        BY <1>12, <3>1 DEF RecordsKept
      <3>6. Record(now.history, j).refs > 0
        BY <1>11, <3>4, <3>5 DEF Refs
      <3>7. QED  BY <1>7, <1>9, <3>6, RecordIs
    <2>6. QED  BY <2>4, <2>5
  <1>14. Ratio(now, now.period - 1) = Ratio(val, val.period - 1)
    BY <1>9, <1>10, <1>13
  <1>15. \A q \in T : Earned(now, starts[q]) = Earned(val, starts[q])
    BY <1>10, <1>13, <1>14 DEF Earned
  <1>16. RatiosGrow(now)
    <2> SUFFICES ASSUME NEW q \in DOMAIN now.history
                 PROVE  q < now.period /\ Ratio(now, q) <= Ratio(now, now.period - 1)
      BY DEF RatiosGrow
    <2>1. q \in DOMAIN val.history /\ Ratio(now, q) = Ratio(val, q)
      BY <1>7, <1>9, <1>10
    <2>2. QED  BY <1>9, <1>14, <2>1 DEF Sound, RatiosGrow
  <1>17. StartsPast(now, T, starts, h)
    BY <1>3, <1>9, <1>15 DEF StartsPast
  <1>18. Covered(now, T, starts)
    <2>1. [q \in T |-> Earned(now, starts[q])] = [q \in T |-> Earned(val, starts[q])]
      BY <1>15
    <2>2. Total(now, T, starts) = Total(val, S, starts) - pay
      BY <1>4, <2>1 DEF Total
    <2>3. (Total(val, S, starts) - pay) + now.rewards + now.commission <= now.outstanding
      BY <1>1, <1>2, <1>4, <1>5, <1>9 DEF o
    <2>4. QED  BY <2>2, <2>3 DEF Covered
  <1>19. Sound(now, T, starts, h)
    BY <1>9, <1>12, <1>16, <1>17, <1>18 DEF Sound
  <1>20. QED  BY <1>9, <1>15, <1>19 DEF o, now, pay, Parted

\* A delegation is forgotten, whatever it has earned.
LEMMA ForgetSound ==
    ASSUME NEW val, NEW S, IsFiniteSet(S), NEW starts, NEW h, Sound(val, S, starts, h), NEW p \in S
    PROVE  Sound(val, S \ {p}, starts, h)
  <1>1. RecordsKept(val, S \ {p}, starts) /\ StartsPast(val, S \ {p}, starts, h)
    BY DropSound
  <1>2. Earned(val, starts[p]) \in Nat
    BY NeededIsThere
  <1>3. /\ Total(val, S, starts) \in Nat
        /\ Total(val, S \ {p}, starts) = Total(val, S, starts) - Earned(val, starts[p])
    BY DropTotal
  <1>4. val.rewards \in Nat /\ val.commission \in Nat /\ val.outstanding \in Nat
    BY ValidatorIs DEF Sound
  <1>5. Total(val, S, starts) + val.rewards + val.commission <= val.outstanding
    BY DEF Sound, Covered
  <1>6. Covered(val, S \ {p}, starts)
    BY <1>2, <1>3, <1>4, <1>5 DEF Covered
  <1>7. QED  BY <1>1, <1>6 DEF Sound

(* now, with the starts others, is val after p has joined S: the others    *)
(* have earned what they had.                                              *)
Joined(now, others, val, S, starts, h, p) ==
    /\ Sound(now, S \cup {p}, others, h)
    /\ now.rewards = 0 /\ now.outstanding = val.outstanding
    /\ \A q \in S : Earned(now, others[q]) = Earned(val, starts[q])
    /\ Earned(now, others[p]) = 0

(* A delegation starts at the end of the last period.                      *)
LEMMA StartSound ==
    ASSUME NEW val, NEW S, IsFiniteSet(S), NEW starts, NEW h \in Nat, Sound(val, S, starts, h),
           val.rewards = 0, NEW p, p \notin S,
           NEW others, \A q \in S : others[q] = starts[q],
           others[p] = StartInfo(val, h)
    PROVE  Joined(Started(val), others, val, S, starts, h, p)
  <1> DEFINE now == Started(val)
             k == val.period - 1
             g == Reference(val.history, k)
             T == S \cup {p}
  <1>1. /\ val \in Validator /\ val.period \in Nat /\ k \in Nat /\ val.commission \in Nat
        /\ val.outstanding \in Nat /\ val.history \in History
        /\ \A q : Ratio(val, q) \in Nat /\ Refs(val, q) \in Nat
    BY ValidatorIs DEF Sound
  <1>2. Sound(val, S, others, h)
    BY SoundSame
  <1>3. others[p] \in Start /\ others[p].period = k /\ others[p].height = h
    BY <1>1 DEF StartInfo, Start
  <1>4. /\ g \in History /\ DOMAIN g = DOMAIN val.history \cup {k}
        /\ \A q : Record(g, q).ratio = Record(val.history, q).ratio
        /\ \A q : Record(g, q).refs = Record(val.history, q).refs + (IF q = k THEN 1 ELSE 0)
    BY <1>1, ReferenceIs
  <1>5. k \in DOMAIN val.history
    BY NeededIsThere
  <1>6. now = [val EXCEPT !.history = g]
    BY DEF Started
  <1> HIDE DEF g, now
  <1>7. /\ now \in Validator /\ now.history = g /\ now.period = val.period
        /\ now.rewards = val.rewards /\ now.commission = val.commission
        /\ now.outstanding = val.outstanding
    <2>1. ASSUME NEW b, b = g
          PROVE  /\ now \in Validator /\ now.history = b /\ now.period = val.period
                 /\ now.rewards = val.rewards /\ now.commission = val.commission
                 /\ now.outstanding = val.outstanding
      <3>0. val \in Validator
        BY <1>1
      <3>1. b \in History
        BY <1>4, <2>1
      <3>2. now = [val EXCEPT !.history = b]
        BY <1>6, <2>1
      <3>3. now \in Validator
        BY ONLY <3>0, <3>1, <3>2 DEF Validator
      <3>4. now.history = b /\ now.period = val.period
        BY ONLY <3>0, <3>1, <3>2 DEF Validator
      <3>5. /\ now.rewards = val.rewards /\ now.commission = val.commission
            /\ now.outstanding = val.outstanding
        BY ONLY <3>0, <3>1, <3>2 DEF Validator
      <3>6. QED  BY <3>3, <3>4, <3>5
    <2>2. QED  BY <2>1
  <1>8. /\ \A q : Refs(now, q) = Refs(val, q) + (IF q = k THEN 1 ELSE 0)
        /\ \A q : Ratio(now, q) = Ratio(val, q)
    BY <1>4, <1>7 DEF Refs, Ratio
  <1>9. /\ \A q \in S : Earned(now, others[q]) = Earned(val, others[q]) /\ others[q] = starts[q]
        /\ Earned(now, others[p]) = 0
    BY <1>1, <1>3, <1>7, <1>8 DEF Earned
  <1>10. RatiosGrow(now)
    BY <1>4, <1>5, <1>7, <1>8 DEF Sound, RatiosGrow
  <1>11. RecordsKept(now, T, others)
    <2> SUFFICES ASSUME NEW q \in Nat
                 PROVE  Cardinality(StartingAt(T, others, q)) + (IF q = now.period - 1 THEN 1 ELSE 0)
                           <= Refs(now, q)
      BY DEF RecordsKept
    <2>1. Cardinality(StartingAt(S, others, q)) + (IF q = k THEN 1 ELSE 0) <= Refs(val, q)
      BY <1>2 DEF Sound, RecordsKept
    <2>2. StartingAt(S, others, q) \in SUBSET S
      BY DEF StartingAt
    <2>3. IsFiniteSet(StartingAt(S, others, q)) /\ Cardinality(StartingAt(S, others, q)) \in Nat
      BY <2>2, FS_Subset, FS_CardinalityType
    <2>4. CASE q = k
      <3>1. StartingAt(T, others, q) = StartingAt(S, others, q) \cup {p}
        BY <1>3, <2>4 DEF StartingAt
      <3>2. Cardinality(StartingAt(T, others, q)) = Cardinality(StartingAt(S, others, q)) + 1
        <4>1. p \notin StartingAt(S, others, q)
          BY <2>2
        <4>2. QED  BY <2>3, <3>1, <4>1, FS_AddElement
      <3>3. Refs(now, q) = Refs(val, q) + 1
        BY <1>8, <2>4
      <3>4. Cardinality(StartingAt(T, others, q)) \in Nat
        BY <2>3, <3>1, FS_AddElement, FS_CardinalityType
      <3>5. QED  BY <1>1, <1>7, <2>1, <2>3, <2>4, <3>2, <3>3, <3>4
    <2>5. CASE q # k
      <3>1. StartingAt(T, others, q) = StartingAt(S, others, q)
        BY <1>3, <2>5 DEF StartingAt
      <3>2. Refs(now, q) = Refs(val, q)
        BY <1>1, <1>8, <2>5
      <3>3. QED  BY <1>7, <2>1, <2>5, <3>1, <3>2
    <2>6. QED  BY <2>4, <2>5
  <1>12. StartsPast(now, T, others, h)
    <2> SUFFICES ASSUME NEW q \in T
                 PROVE  /\ others[q] \in Start
                        /\ others[q].period < now.period
                        /\ others[q].height <= h
                        /\ others[q].height = h => Earned(now, others[q]) = 0 /\ now.rewards = 0
      BY DEF StartsPast
    <2>1. CASE q = p
      BY <1>1, <1>3, <1>7, <1>9, <2>1
    <2>2. CASE q \in S
      <3>1. /\ others[q] \in Start
            /\ others[q].period < val.period
            /\ others[q].height <= h
            /\ others[q].height = h => Earned(val, others[q]) = 0 /\ val.rewards = 0
        BY <1>2, <2>2 DEF Sound, StartsPast
      <3>2. QED  BY <1>7, <1>9, <2>2, <3>1
    <2>3. QED  BY <2>1, <2>2
  <1>13. Covered(now, T, others)
    <2> DEFINE f == [q \in S |-> Earned(val, others[q])]
               e == [q \in T |-> Earned(now, others[q])]
    <2>1. \A q \in S : f[q] \in Int
      BY <1>1 DEF Earned
    <2>2. /\ \A q \in S : f[q] = e[q]
          /\ e[p] = 0
      BY <1>9
    <2>3. \A q \in T : e[q] \in Int
      BY <2>1, <2>2
    <2>4. \A q \in S : f[q] \in Int /\ f[q] = e[q]
      BY <2>1, <2>2
    <2>5. Total(val, S, others) = SumFunctionOnSet(f, S) /\ Total(now, T, others) = SumFunctionOnSet(e, T)
      BY DEF Total
    <2> HIDE DEF f, e
    <2>6. SumFunctionOnSet(f, S) = SumFunctionOnSet(e, S)
      BY <2>4, SumSame
    <2>7. SumFunctionOnSet(e, T) = e[p] + SumFunctionOnSet(e, S)
      BY <2>3, SumAdd
    <2>8. SumFunctionOnSet(f, S) \in Int
      BY <2>1, SumInt
    <2>9. Total(now, T, others) = Total(val, S, others)
      BY <2>2, <2>5, <2>6, <2>7, <2>8
    <2>10. QED  BY <1>2, <1>7, <2>9 DEF Covered, Sound
  <1>14. Sound(now, T, others, h)
    BY <1>7, <1>10, <1>11, <1>12, <1>13 DEF Sound
  <1>15. QED  BY <1>7, <1>9, <1>14 DEF now, Joined

\* A validator that earns r for its delegations, and c for itself.
Earns(val, r, c) ==
    [val EXCEPT !.rewards = @ + r, !.commission = @ + c, !.outstanding = @ + r + c]

\* A block, in which the validator earns nothing or something.
LEMMA BlockSound ==
    ASSUME NEW val, NEW S, IsFiniteSet(S), NEW starts, NEW h \in Nat, Sound(val, S, starts, h),
           NEW r \in Nat, NEW c \in Nat
    PROVE  Sound(val, S, starts, h + 1) /\ Sound(Earns(val, r, c), S, starts, h + 1)
  <1> DEFINE now == Earns(val, r, c)
  <1>1. /\ val \in Validator /\ val.rewards \in Nat /\ val.commission \in Nat /\ val.outstanding \in Nat
    BY ValidatorIs DEF Sound
  <1>2. /\ now \in Validator /\ now.period = val.period /\ now.history = val.history
        /\ now.rewards = val.rewards + r /\ now.commission = val.commission + c
        /\ now.outstanding = val.outstanding + r + c
    <2>1. ASSUME NEW a, a = val.rewards + r, NEW b, b = val.commission + c,
                 NEW o, o = val.outstanding + r + c
          PROVE  /\ now \in Validator /\ now.period = val.period /\ now.history = val.history
                 /\ now.rewards = a /\ now.commission = b /\ now.outstanding = o
      <3>0. val \in Validator
        BY <1>1
      <3>1. a \in Nat /\ b \in Nat /\ o \in Nat
        BY <1>1, <2>1
      <3>2. now = [val EXCEPT !.rewards = a, !.commission = b, !.outstanding = o]
        BY <2>1 DEF Earns
      <3> HIDE DEF now
      <3>3. now \in Validator
        BY ONLY <3>0, <3>1, <3>2 DEF Validator
      <3>4. now.rewards = a /\ now.commission = b /\ now.outstanding = o
        BY ONLY <3>0, <3>1, <3>2 DEF Validator
      <3>5. now.period = val.period /\ now.history = val.history
        BY ONLY <3>0, <3>1, <3>2 DEF Validator
      <3>6. QED  BY <3>3, <3>4, <3>5
    <2>2. QED  BY <2>1
  <1> HIDE DEF now
  <1>3. (\A q : Ratio(now, q) = Ratio(val, q) /\ Refs(now, q) = Refs(val, q))
        /\ (\A s : Earned(now, s) = Earned(val, s))
    BY <1>2 DEF Ratio, Refs, Earned
  <1>4. RatiosGrow(now) /\ RecordsKept(now, S, starts)
    BY <1>2, <1>3 DEF Sound, RatiosGrow, RecordsKept
  <1>5. \A p \in S : starts[p].height <= h + 1 /\ starts[p].height # h + 1
    BY DEF Sound, StartsPast, Start
  <1>6. StartsPast(val, S, starts, h + 1) /\ StartsPast(now, S, starts, h + 1)
    BY <1>2, <1>5 DEF Sound, StartsPast
  <1>7. Covered(now, S, starts)
    <2>1. Total(now, S, starts) = Total(val, S, starts)
      BY <1>3 DEF Total
    <2>2. Total(val, S, starts) \in Nat
      BY TotalNat
    <2>3. Total(val, S, starts) + val.rewards + val.commission <= val.outstanding
      BY DEF Sound, Covered
    <2>4. QED  BY <1>1, <1>2, <2>1, <2>2, <2>3 DEF Covered
  <1>8. Sound(val, S, starts, h + 1) /\ Sound(now, S, starts, h + 1)
    BY <1>2, <1>4, <1>6, <1>7 DEF Sound
  <1>9. QED  BY <1>8 DEF now

-----------------------------------------------------------------------------
(* The operations of the chain, and of the export                          *)

\* What a delegation is owed is what it has earned when the period ends.
LEMMA OwedIs ==
    ASSUME NEW val, NEW S, IsFiniteSet(S), NEW starts, NEW h, Sound(val, S, starts, h), NEW p \in S
    PROVE  /\ Owed(val, starts[p], Cardinality(S)) \in Nat
           /\ Owed(val, starts[p], Cardinality(S))
                 = Earned(val, starts[p]) + val.rewards \div Cardinality(S)
           /\ Owed(val, starts[p], Cardinality(S))
                 = Earned(Increment(val, Cardinality(S)), starts[p])
  <1>1. S # {}
    OBVIOUS
  <1>2. /\ val.rewards \div Cardinality(S) \in Nat
        /\ Earned(Increment(val, Cardinality(S)), starts[p])
              = Earned(val, starts[p]) + val.rewards \div Cardinality(S)
    BY <1>1, IncrementSound
  <1>3. Owed(val, starts[p], Cardinality(S)) = Earned(val, starts[p]) + val.rewards \div Cardinality(S)
    BY DEF Owed, Earned, Ratio
  <1>4. Earned(val, starts[p]) \in Nat
    BY NeededIsThere
  <1>5. QED  BY <1>2, <1>3, <1>4

(* A delegation is paid all that it is owed: it is there.                  *)
LEMMA PaymentIs ==
    ASSUME NEW val, NEW S, IsFiniteSet(S), NEW starts, NEW h, Sound(val, S, starts, h), NEW p \in S
    PROVE  /\ Payment(val, starts[p], Cardinality(S), h) = Owed(val, starts[p], Cardinality(S))
           /\ Owed(val, starts[p], Cardinality(S)) <= val.outstanding
  <1> DEFINE n == Cardinality(S)
             now == Increment(val, n)
             owed == Owed(val, starts[p], n)
  <1>1. S # {}
    OBVIOUS
  <1>2. Sound(now, S, starts, h) /\ now.rewards = 0 /\ now.outstanding = val.outstanding
    BY <1>1, IncrementSound
  <1>3. owed \in Nat /\ owed = Earned(now, starts[p])
    BY OwedIs
  <1> HIDE DEF now, owed, n
  <1>4. owed <= val.outstanding
    <2>1. Earned(now, starts[p]) <= Total(now, S, starts) /\ Total(now, S, starts) \in Nat
      BY <1>2, DropTotal
    <2>2. now.commission \in Nat /\ now.outstanding \in Nat
      BY <1>2, ValidatorIs DEF Sound
    <2>3. Total(now, S, starts) + now.rewards + now.commission <= now.outstanding
      BY <1>2 DEF Sound, Covered
    <2>4. QED  BY <1>2, <1>3, <2>1, <2>2, <2>3
  <1>5. starts[p].height = h => owed = 0
    BY <1>2, <1>3 DEF Sound, StartsPast
  <1>6. val.outstanding \in Nat
    BY ValidatorIs DEF Sound
  <1>7. Payment(val, starts[p], n, h) = owed
    BY <1>3, <1>4, <1>5, <1>6 DEF Payment, owed
  <1>8. QED  BY <1>4, <1>7 DEF owed, n

(* Ending a period and paying a delegation do not panic.                   *)
LEMMA NoPanic ==
    ASSUME NEW val, NEW S, IsFiniteSet(S), NEW starts, NEW h, Sound(val, S, starts, h)
    PROVE  /\ ~IncrementPanics(val)
           /\ \A p \in S : ~WithdrawPanics(val, starts[p], Cardinality(S), h)
  <1>1. val \in Validator /\ val.period - 1 \in DOMAIN val.history
    BY NeededIsThere DEF Sound
  <1>2. ~IncrementPanics(val)
    BY <1>1, RecordIs, ValidatorIs DEF IncrementPanics
  <1>3. ASSUME NEW p \in S PROVE ~WithdrawPanics(val, starts[p], Cardinality(S), h)
    <2> DEFINE now == Increment(val, Cardinality(S))
               k == starts[p].period
    <2>1. S # {}
      OBVIOUS
    <2>2. Sound(now, S, starts, h) /\ now.period = val.period + 1
      BY <2>1, IncrementSound
    <2> HIDE DEF now
    <2>3. now \in Validator /\ val.period \in Nat
      BY <1>1, <2>2, ValidatorIs DEF Sound
    <2>4. k \in DOMAIN now.history
      BY <2>2, NeededIsThere
    <2>5. Ratio(now, k) <= Ratio(now, now.period - 1) /\ now.period - 1 = val.period
      BY <2>2, <2>3, <2>4 DEF Sound, RatiosGrow
    <2>6. Ratio(now, k) \in Nat /\ Ratio(now, val.period) \in Nat
      BY <2>3, ValidatorIs
    <2>7. ~(Record(now.history, k).ratio > Record(now.history, val.period).ratio)
      BY <2>5, <2>6 DEF Ratio
    <2>8. Record(now.history, k).refs # 0
      BY <2>3, <2>4, RecordIs, ValidatorIs
    <2>9. k \in Nat /\ k < val.period
      BY DEF Sound, StartsPast, Start
    <2>10. QED  BY <1>2, <2>3, <2>7, <2>8, <2>9 DEF WithdrawPanics, now
  <1>4. QED  BY <1>2, <1>3

(* now is val after p, of the delegations S, has withdrawn: it was paid    *)
(* what it was owed, and the others have earned what they were owed.       *)
PaidAndGone(now, val, S, starts, h, p) ==
    /\ Sound(now, S \ {p}, starts, h)
    /\ now.rewards = 0 /\ now.outstanding = val.outstanding - Owed(val, starts[p], Cardinality(S))
    /\ \A q \in S \ {p} : Earned(now, starts[q]) = Owed(val, starts[q], Cardinality(S))

(* A delegation is paid, and ends.                                         *)
LEMMA WithdrawnSound ==
    ASSUME NEW val, NEW S, IsFiniteSet(S), NEW starts, NEW h, Sound(val, S, starts, h), NEW p \in S
    PROVE  PaidAndGone(Withdrawn(val, starts[p], Cardinality(S), h), val, S, starts, h, p)
  <1> DEFINE n == Cardinality(S)
             w == Withdrawn(val, starts[p], n, h)
             now == Increment(val, n)
             owed == Owed(val, starts[p], n)
  <1>1. S # {}
    OBVIOUS
  <1>2. /\ Sound(now, S, starts, h) /\ now.rewards = 0 /\ now.outstanding = val.outstanding
        /\ now.period = val.period + 1
    BY <1>1, IncrementSound
  <1>3. owed = Earned(now, starts[p])
    BY OwedIs
  <1>4. \A q \in S : Owed(val, starts[q], n) = Earned(now, starts[q])
    BY OwedIs
  <1>5. w = PaidOut(now, starts[p])
    <2>1. Payment(val, starts[p], n, h) = owed
      BY PaymentIs
    <2>2. QED  BY <1>3, <2>1 DEF Withdrawn, PaidOut
  <1>6. starts[p].period < now.period - 1
    <2>1. val.period \in Nat /\ starts[p].period \in Nat /\ starts[p].period < val.period
      BY ValidatorIs DEF Sound, StartsPast, Start
    <2>2. QED  BY <1>2, <2>1
  <1> HIDE DEF now, owed, w, n
  <1>7. /\ Sound(w, S \ {p}, starts, h)
        /\ w.rewards = 0
        /\ w.outstanding = now.outstanding - owed
        /\ \A q \in S \ {p} : Earned(w, starts[q]) = Earned(now, starts[q])
    <2>1. Parted(PaidOut(now, starts[p]), now, S, starts, h, p)
      BY <1>2, <1>6, PaySound
    <2>2. QED  BY <1>3, <1>5, <2>1 DEF Parted
  <1>8. QED  BY <1>2, <1>4, <1>7 DEF owed, w, n, PaidAndGone

(* now, with the starts others, is val after p has withdrawn and begun     *)
(* again.                                                                  *)
PaidAndBegun(now, others, val, S, starts, h, p) ==
    /\ Sound(now, S, others, h)
    /\ now.rewards = 0 /\ now.outstanding = val.outstanding - Owed(val, starts[p], Cardinality(S))
    /\ Earned(now, others[p]) = 0
    /\ \A q \in S \ {p} : Earned(now, others[q]) = Owed(val, starts[q], Cardinality(S))

(* A delegation is paid, and starts again.                                 *)
LEMMA RestartedSound ==
    ASSUME NEW val, NEW S, IsFiniteSet(S), NEW starts, NEW h \in Nat, Sound(val, S, starts, h),
           NEW p \in S, NEW others, \A q \in S \ {p} : others[q] = starts[q],
           others[p] = StartInfo(Withdrawn(val, starts[p], Cardinality(S), h), h)
    PROVE  PaidAndBegun(Started(Withdrawn(val, starts[p], Cardinality(S), h)), others,
                        val, S, starts, h, p)
  <1> DEFINE T == S \ {p}
             n == Cardinality(S)
             w == Withdrawn(val, starts[p], n, h)
  <1>1. /\ Sound(w, T, starts, h)
        /\ w.rewards = 0 /\ w.outstanding = val.outstanding - Owed(val, starts[p], n)
        /\ \A q \in T : Earned(w, starts[q]) = Owed(val, starts[q], n)
    <2>1. PaidAndGone(w, val, S, starts, h, p)
      BY WithdrawnSound
    <2>2. QED  BY <2>1 DEF PaidAndGone
  <1>2. IsFiniteSet(T) /\ p \notin T /\ T \cup {p} = S
    BY FS_RemoveElement
  <1>3. others[p] = StartInfo(w, h) /\ \A q \in T : others[q] = starts[q]
    OBVIOUS
  <1>5. n = Cardinality(S) /\ T = S \ {p} /\ w = Withdrawn(val, starts[p], n, h)
    OBVIOUS
  <1> HIDE DEF T, w, n
  <1>4. /\ Sound(Started(w), T \cup {p}, others, h)
        /\ Started(w).rewards = 0 /\ Started(w).outstanding = w.outstanding
        /\ \A q \in T : Earned(Started(w), others[q]) = Earned(w, starts[q])
        /\ Earned(Started(w), others[p]) = 0
    <2>1. Joined(Started(w), others, w, T, starts, h, p)
      BY <1>1, <1>2, <1>3, StartSound
    <2>2. QED  BY <2>1 DEF Joined
  <1>6. PaidAndBegun(Started(w), others, val, S, starts, h, p)
    BY <1>1, <1>2, <1>4, <1>5 DEF PaidAndBegun
  <1>7. QED  BY <1>5, <1>6

(* now, with the starts others, is val after p has begun without being     *)
(* paid.                                                                   *)
Begun(now, others, val, S, starts, h, p) ==
    /\ Sound(now, S \cup {p}, others, h)
    /\ now.rewards = 0 /\ now.outstanding = val.outstanding
    /\ Earned(now, others[p]) = 0
    /\ \A q \in S \ {p} : Earned(now, others[q]) = Owed(val, starts[q], Cardinality(S))

(* A new delegation; or one that is there starts again without being paid. *)
LEMMA NewStartSound ==
    ASSUME NEW val, NEW S, IsFiniteSet(S), S # {}, NEW starts, NEW h \in Nat, Sound(val, S, starts, h),
           NEW p, NEW others, \A q \in S \ {p} : others[q] = starts[q],
           others[p] = StartInfo(Increment(val, Cardinality(S)), h)
    PROVE  Begun(Started(Increment(val, Cardinality(S))), others, val, S, starts, h, p)
  <1> DEFINE T == S \ {p}
             n == Cardinality(S)
             w == Increment(val, n)
  <1>1. Sound(w, S, starts, h) /\ w.rewards = 0 /\ w.outstanding = val.outstanding
    BY IncrementSound
  <1>2. Sound(w, T, starts, h)
    <2>1. CASE p \in S
      <3> HIDE DEF w
      <3>1. QED  BY <1>1, <2>1, ForgetSound
    <2>2. CASE p \notin S
      <3>1. T = S
        BY <2>2
      <3>2. QED  BY <1>1, <3>1
    <2>3. QED  BY <2>1, <2>2
  <1>3. \A q \in T : Owed(val, starts[q], n) = Earned(w, starts[q])
    BY OwedIs
  <1>4. IsFiniteSet(T) /\ p \notin T /\ T \cup {p} = S \cup {p}
    BY FS_RemoveElement
  <1>5. others[p] = StartInfo(w, h) /\ \A q \in T : others[q] = starts[q]
    OBVIOUS
  <1>7. n = Cardinality(S) /\ T = S \ {p} /\ w = Increment(val, n)
    OBVIOUS
  <1> HIDE DEF T, w, n
  <1>6. /\ Sound(Started(w), T \cup {p}, others, h)
        /\ Started(w).rewards = 0 /\ Started(w).outstanding = w.outstanding
        /\ \A q \in T : Earned(Started(w), others[q]) = Earned(w, starts[q])
        /\ Earned(Started(w), others[p]) = 0
    <2>1. Joined(Started(w), others, w, T, starts, h, p)
      BY <1>1, <1>2, <1>4, <1>5, StartSound
    <2>2. QED  BY <2>1 DEF Joined
  <1>8. Begun(Started(w), others, val, S, starts, h, p)
    BY <1>1, <1>3, <1>4, <1>6, <1>7 DEF Begun
  <1>9. QED  BY <1>7, <1>8
=============================================================================
