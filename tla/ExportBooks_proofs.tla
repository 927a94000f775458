--------------------------- MODULE ExportBooks_proofs ---------------------------
(***************************************************************************)
(* What x/distribution owes, while a chain runs and while its state is     *)
(* prepared for height zero: for any validators, delegators, rewards and   *)
(* messages, nobody's rewards are lost on the way to the file, the module  *)
(* account holds what is owed, and a chain that keeps its records of the   *)
(* periods never misses one.                                               *)
(*                                                                         *)
(* The invariant: as long as the records are there, the books of every     *)
(* validator are sound (Distribution_proofs); they are deleted when all    *)
(* that was earned has been paid.                                          *)
(***************************************************************************)
EXTENDS EvmdExport_proofs, Distribution_proofs

-----------------------------------------------------------------------------
(* The inductive invariant                                                 *)

Of(v) == {p \in DOMAIN info : p[2] = v}

LedgerTyped ==
    /\ DOMAIN dist = Val /\ \A v \in Val : dist[v] \in Validator
    /\ IsFiniteSet(DOMAIN info) /\ DOMAIN info \subseteq Delegation
    /\ {Operator} \X Val \subseteq DOMAIN info
    /\ \A p \in DOMAIN info : info[p] \in Start
    /\ pool \in Nat /\ holdings \in Int

Ledger == LedgerTyped /\ Solvent

ArgsTyped ==
    /\ messages \in Nat
    /\ jailed \subseteq Val /\ bonded \subseteq Val
    /\ todo \subseteq Val \cup Delegation
    /\ zeroHeight \in BOOLEAN /\ panicked \in BOOLEAN
    /\ allowed \subseteq Val \cup {BadAddress}

\* The sections in which there is something to withdraw, until it is deleted.
Paying == {"commission", "rewards", "delegations", "history"}

\* The records of the periods are there.
Kept == zeroHeight => phase \in Paying

AllSound == \A v \in Val : Sound(dist[v], Of(v), info, height)
NoHistory == \A v \in Val : DOMAIN dist[v].history = {}

RecordsOK == /\ Kept => AllSound
             /\ ~Kept /\ phase # "refused" => NoHistory
             /\ phase = "running" => ~zeroHeight

\* The preparation has paid those it has visited.
Paid(p) == Earned(dist[p[2]], info[p]) = 0 /\ dist[p[2]].rewards = 0

PaidOK ==
    /\ phase = "rewards" => \A p \in DOMAIN info : p \in todo \/ Paid(p)
    /\ phase \in {"delegations", "history"} => \A p \in DOMAIN info : Paid(p)

Books == Ledger /\ ArgsTyped /\ RecordsOK /\ PaidOK /\ ContinuedChainWorks

-----------------------------------------------------------------------------
(* The delegations of a validator                                          *)

LEMMA OfIs ==
    ASSUME LedgerTyped, NEW v \in Val
    PROVE  /\ IsFiniteSet(Of(v)) /\ Of(v) # {} /\ Tokens(v) = Cardinality(Of(v))
           /\ Tokens(v) \in Nat \ {0}
  <1>1. IsFiniteSet(Of(v))
    <2>1. Of(v) \in SUBSET DOMAIN info
      BY DEF Of
    <2>2. QED  BY <2>1, FS_Subset DEF LedgerTyped
  <1>2. <<Operator, v>> \in Of(v)
    BY DEF Of, LedgerTyped
  <1>3. Tokens(v) = Cardinality(Of(v))
    BY DEF Tokens, Of
  <1>4. QED  BY <1>1, <1>2, <1>3, FS_CardinalityType, FS_EmptySet

LEMMA DelegationIs == ASSUME NEW p \in Delegation PROVE p[1] \in Del /\ p[2] \in Val /\ p = <<p[1], p[2]>>
  BY DEF Delegation

(* The sum of what is outstanding, with one validator changed.             *)
LEMMA OutstandingChange ==
    ASSUME LedgerTyped, NEW v \in Val, NEW w, w.outstanding \in Nat, dist' = [dist EXCEPT ![v] = w]
    PROVE  Outstanding' = Outstanding + w.outstanding - dist[v].outstanding
  <1> DEFINE f == [u \in Val |-> dist[u].outstanding]
             e == [u \in Val |-> dist'[u].outstanding]
  <1>1. \A u \in Val : f[u] \in Nat
    BY ValidatorIs DEF LedgerTyped
  <1>2. \A u \in Val \ {v} : f[u] = e[u]
    BY DEF LedgerTyped
  <1>3. e[v] = w.outstanding /\ f[v] = dist[v].outstanding
    BY DEF LedgerTyped
  <1>4. \A u \in Val : e[u] \in Int
    BY <1>1, <1>2, <1>3
  <1>5. \A u \in Val : f[u] \in Int
    BY <1>1
  <1>6. /\ Outstanding = SumFunctionOnSet(f, Val) /\ Outstanding' = SumFunctionOnSet(e, Val)
    BY DEF Outstanding, SumFunction
  <1> HIDE DEF f, e
  <1>7. SumFunctionOnSet(e, Val) = SumFunctionOnSet(f, Val) + e[v] - f[v]
    BY <1>2, <1>4, <1>5, SumChange, ExportAssumption
  <1>8. QED  BY <1>3, <1>6, <1>7

LEMMA OutstandingInt == ASSUME LedgerTyped PROVE Outstanding \in Nat
  <1> DEFINE f == [u \in Val |-> dist[u].outstanding]
  <1>1. \A u \in Val : f[u] \in Nat
    BY ValidatorIs DEF LedgerTyped
  <1>2. Outstanding = SumFunctionOnSet(f, Val)
    BY DEF Outstanding, SumFunction
  <1> HIDE DEF f
  <1>3. QED  BY <1>1, <1>2, SumNat, ExportAssumption

(* What is done to one validator and its delegations touches no other.     *)
OthersKept(v) ==
    \A q \in Delegation : q[2] # v => /\ q \in DOMAIN info' <=> q \in DOMAIN info
                                      /\ q \in DOMAIN info => info'[q] = info[q]

LEMMA OthersSound ==
    ASSUME Ledger, AllSound, NEW v \in Val, OthersKept(v), DOMAIN info' \subseteq Delegation,
           height' = height, NEW u \in Val \ {v}, dist'[u] = dist[u]
    PROVE  /\ Of(u)' = Of(u)
           /\ Sound(dist'[u], Of(u)', info', height')
  <1>1. Of(u)' = Of(u)
    <2>1. \A q \in Delegation : q[2] = u => (q \in DOMAIN info' <=> q \in DOMAIN info)
      BY DEF OthersKept
    <2>2. QED  BY <2>1 DEF Of, Ledger, LedgerTyped
  <1>2. Sound(dist[u], Of(u), info, height)
    BY DEF AllSound
  <1>3. \A q \in Of(u) : info'[q] = info[q]
    BY DEF OthersKept, Of, Ledger, LedgerTyped
  <1>4. Sound(dist[u], Of(u), info', height)
    BY <1>2, <1>3, SoundSame
  <1>5. QED  BY <1>1, <1>4

LEMMA OneChanged ==
    ASSUME Ledger, AllSound, NEW v \in Val, NEW w, dist' = [dist EXCEPT ![v] = w],
           OthersKept(v), height' = height, pool' = pool,
           Sound(w, Of(v)', info', height),
           holdings' = holdings + w.outstanding - dist[v].outstanding,
           IsFiniteSet(DOMAIN info'), DOMAIN info' \subseteq Delegation,
           {Operator} \X Val \subseteq DOMAIN info'
    PROVE  Ledger' /\ AllSound'
  <1>1. w \in Validator /\ w.outstanding \in Nat
    BY ValidatorIs DEF Sound
  <1>2. DOMAIN dist' = Val /\ dist'[v] = w /\ \A u \in Val \ {v} : dist'[u] = dist[u]
    BY DEF Ledger, LedgerTyped
  <1>3. AllSound'
    <2> SUFFICES ASSUME NEW u \in Val PROVE Sound(dist'[u], Of(u)', info', height')
      BY DEF AllSound
    <2>1. CASE u = v
      BY <1>2, <2>1
    <2>2. CASE u # v
      BY <1>2, <2>2, OthersSound
    <2>3. QED  BY <2>1, <2>2
  <1>4. \A q \in DOMAIN info' : info'[q] \in Start
    <2> SUFFICES ASSUME NEW q \in DOMAIN info' PROVE info'[q] \in Start
      OBVIOUS
    <2>1. q[2] \in Val /\ q \in Of(q[2])'
      BY DelegationIs DEF Of
    <2>2. Sound(dist'[q[2]], Of(q[2])', info', height')
      BY <1>3, <2>1 DEF AllSound
    <2>3. QED  BY <2>1, <2>2 DEF Sound, StartsPast
  <1>5. dist[v].outstanding \in Nat
    BY ValidatorIs DEF Ledger, LedgerTyped
  <1>6. LedgerTyped'
    <2>1. \A u \in Val : dist'[u] \in Validator
      BY <1>1, <1>2 DEF Ledger, LedgerTyped
    <2>2. holdings' \in Int
      BY <1>1, <1>5 DEF Ledger, LedgerTyped
    <2>3. pool' \in Nat
      BY DEF Ledger, LedgerTyped
    <2>4. QED  BY <1>2, <1>4, <2>1, <2>2, <2>3 DEF LedgerTyped
  <1>7. Solvent'
    <2>1. Outstanding' = Outstanding + w.outstanding - dist[v].outstanding
      BY <1>1, OutstandingChange DEF Ledger
    <2>2. Outstanding \in Nat
      BY OutstandingInt DEF Ledger
    <2>3. pool \in Nat /\ holdings = pool + Outstanding
      BY DEF Ledger, LedgerTyped, Solvent
    <2>4. QED  BY <1>1, <1>5, <2>1, <2>2, <2>3 DEF Solvent
  <1>8. QED  BY <1>3, <1>6, <1>7 DEF Ledger

-----------------------------------------------------------------------------
(* What the delegations could withdraw                                     *)

LEMMA ClaimIs ==
    ASSUME NEW q \in Delegation
    PROVE  /\ q \notin DOMAIN info => Claim(q) = 0
           /\ q \in DOMAIN info => Claim(q) = Owed(dist[q[2]], info[q], Cardinality(Of(q[2])))
           /\ q \notin DOMAIN info' => Claim(q)' = 0
           /\ q \in DOMAIN info' => Claim(q)' = Owed(dist'[q[2]], info'[q], Cardinality(Of(q[2])'))
  BY DEF Claim, Tokens, Of

LEMMA ClaimNow ==
    ASSUME Ledger, AllSound, NEW q \in DOMAIN info
    PROVE  /\ Claim(q) \in Nat
           /\ Claim(q) = Earned(dist[q[2]], info[q]) + dist[q[2]].rewards \div Cardinality(Of(q[2]))
  <1>1. q \in Delegation /\ q[2] \in Val /\ q \in Of(q[2]) /\ IsFiniteSet(Of(q[2]))
    BY DelegationIs, OfIs DEF Of, Ledger, LedgerTyped
  <1>2. Sound(dist[q[2]], Of(q[2]), info, height)
    BY <1>1 DEF AllSound
  <1>3. Claim(q) = Owed(dist[q[2]], info[q], Cardinality(Of(q[2])))
    BY <1>1, ClaimIs
  <1> DEFINE val == dist[q[2]]
             S == Of(q[2])
  <1> HIDE DEF val, S
  <1>4. IsFiniteSet(S) /\ Sound(val, S, info, height) /\ q \in S
    BY <1>1, <1>2 DEF val, S
  <1>5. /\ Owed(val, info[q], Cardinality(S)) \in Nat
        /\ Owed(val, info[q], Cardinality(S)) = Earned(val, info[q]) + val.rewards \div Cardinality(S)
    BY <1>4, OwedIs
  <1>6. QED  BY <1>3, <1>5 DEF val, S

LEMMA ClaimThen ==
    ASSUME LedgerTyped', AllSound', NEW q \in DOMAIN info'
    PROVE  /\ Claim(q)' \in Nat
           /\ dist'[q[2]].rewards = 0 => Claim(q)' = Earned(dist'[q[2]], info'[q])
  <1>1. q \in Delegation /\ q[2] \in Val /\ q \in Of(q[2])'
    BY DelegationIs DEF Of, LedgerTyped
  <1>2. IsFiniteSet(Of(q[2])')
    <2>1. Of(q[2])' \in SUBSET DOMAIN info'
      BY DEF Of
    <2>2. QED  BY <2>1, FS_Subset DEF LedgerTyped
  <1>3. Sound(dist'[q[2]], Of(q[2])', info', height')
    BY <1>1 DEF AllSound
  <1>4. Claim(q)' = Owed(dist'[q[2]], info'[q], Cardinality(Of(q[2])'))
    BY <1>1, ClaimIs
  <1>5. /\ Claim(q)' \in Nat
        /\ Claim(q)' = Earned(dist'[q[2]], info'[q]) + dist'[q[2]].rewards \div Cardinality(Of(q[2])')
    <2> DEFINE val == dist'[q[2]]
               S == Of(q[2])'
               starts == info'
    <2> HIDE DEF val, S, starts
    <2>1. IsFiniteSet(S) /\ Sound(val, S, starts, height') /\ q \in S
      BY <1>1, <1>2, <1>3 DEF val, S, starts
    <2>2. /\ Owed(val, starts[q], Cardinality(S)) \in Nat
          /\ Owed(val, starts[q], Cardinality(S))
                = Earned(val, starts[q]) + val.rewards \div Cardinality(S)
      BY <2>1, OwedIs
    <2>3. QED  BY <1>4, <2>2 DEF val, S, starts
  <1>6. Earned(dist'[q[2]], info'[q]) \in Nat
    BY <1>1, <1>2, <1>3, NeededIsThere
  <1>7. Cardinality(Of(q[2])') \in Nat \ {0}
    BY <1>1, <1>2, FS_CardinalityType, FS_EmptySet
  <1>8. ASSUME NEW n \in Nat \ {0} PROVE 0 \div n = 0
    OBVIOUS
  <1>9. QED  BY <1>5, <1>6, <1>7, <1>8

(* Those of other validators claim what they claimed.                      *)
LEMMA OtherClaims ==
    ASSUME Ledger, AllSound, NEW v \in Val, OthersKept(v), DOMAIN info' \subseteq Delegation,
           height' = height, \A u \in Val \ {v} : dist'[u] = dist[u],
           NEW q \in Delegation, q[2] # v
    PROVE  Claim(q)' = Claim(q)
  <1>1. q[2] \in Val \ {v}
    BY DelegationIs
  <1>2. Of(q[2])' = Of(q[2]) /\ dist'[q[2]] = dist[q[2]]
    BY <1>1, OthersSound
  <1>3. /\ q \in DOMAIN info' <=> q \in DOMAIN info
        /\ q \in DOMAIN info => info'[q] = info[q]
    BY DEF OthersKept
  <1>4. QED  BY <1>2, <1>3, ClaimIs

-----------------------------------------------------------------------------
(* The operations on the books                                             *)

(* A new delegation changes nobody's claim.                                *)
LEMMA DelegateBooks ==
    ASSUME Ledger, AllSound, height \in Nat, NEW d \in Del, NEW v \in Val, <<d, v>> \notin DOMAIN info,
           dist' = [dist EXCEPT ![v] = Started(Increment(dist[v], Tokens(v)))],
           info' = [p \in DOMAIN info \cup {<<d, v>>} |->
                       IF p = <<d, v>> THEN StartInfo(Increment(dist[v], Tokens(v)), height)
                                       ELSE info[p]],
           UNCHANGED <<height, pool, holdings>>
    PROVE  Ledger' /\ AllSound' /\ \A q \in Delegation : Claim(q)' = Claim(q)
  <1> DEFINE p == <<d, v>>
             S == Of(v)
             val == dist[v]
             w == Started(Increment(val, Cardinality(S)))
  <1>1. IsFiniteSet(S) /\ S # {} /\ Tokens(v) = Cardinality(S)
    BY OfIs DEF Ledger
  <1>2. p \in Delegation /\ p[2] = v /\ p \notin S
    BY DEF Delegation, Of
  <1>3. /\ DOMAIN info' = DOMAIN info \cup {p} /\ DOMAIN info' \subseteq Delegation
        /\ \A q \in DOMAIN info : info'[q] = info[q]
        /\ info'[p] = StartInfo(Increment(val, Cardinality(S)), height)
    BY <1>1, <1>2 DEF Ledger, LedgerTyped
  <1>4. OthersKept(v)
    BY <1>2, <1>3 DEF OthersKept
  <1>5. Of(v)' = S \cup {p}
    BY <1>2, <1>3 DEF Of
  <1>6. Sound(val, S, info, height)
    BY DEF AllSound
  <1>7. \A q \in S \ {p} : info'[q] = info[q]
    BY <1>3 DEF Of
  <1>8. dist' = [dist EXCEPT ![v] = w]
    BY <1>1
  <1> HIDE DEF S, p
  <1>9. /\ Sound(w, S \cup {p}, info', height)
        /\ w.rewards = 0 /\ w.outstanding = val.outstanding
        /\ Earned(w, info'[p]) = 0
        /\ \A q \in S \ {p} : Earned(w, info'[q]) = Owed(val, info[q], Cardinality(S))
    <2>1. Begun(w, info', val, S, info, height, p)
      BY <1>1, <1>3, <1>6, <1>7, NewStartSound
    <2>2. QED  BY <2>1 DEF Begun
  <1> HIDE DEF w
  <1>10. Ledger' /\ AllSound'
    <2>1. IsFiniteSet(DOMAIN info') /\ {Operator} \X Val \subseteq DOMAIN info'
      BY <1>3, FS_AddElement DEF Ledger, LedgerTyped
    <2>2. holdings' = holdings + w.outstanding - val.outstanding
      <3>1. val.outstanding \in Nat /\ holdings \in Int
        BY ValidatorIs DEF Ledger, LedgerTyped
      <3>2. QED  BY <1>9, <3>1
    <2> HIDE DEF val
    <2>3. Sound(w, Of(v)', info', height)
      BY <1>5, <1>9
    <2>4. QED  BY <1>3, <1>4, <1>8, <2>1, <2>2, <2>3, OneChanged DEF val
  <1>11. dist'[v] = w /\ \A u \in Val \ {v} : dist'[u] = dist[u]
    BY <1>8 DEF Ledger, LedgerTyped
  <1>12. ASSUME NEW q \in Delegation PROVE Claim(q)' = Claim(q)
    <2>1. CASE q[2] # v
      BY <1>3, <1>4, <1>11, <2>1, OtherClaims
    <2>2. CASE q[2] = v /\ q \notin DOMAIN info'
      BY <1>3, <2>2, ClaimIs
    <2>3. CASE q = p
      <3>1. Claim(q) = 0
        BY <1>3, <2>3, ClaimIs DEF p
      <3>2. Claim(q)' = Earned(w, info'[p])
        <4>1. q \in DOMAIN info' /\ dist'[q[2]] = w /\ w.rewards = 0
          BY <1>2, <1>3, <1>9, <1>11, <2>3
        <4>2. Claim(q)' = Earned(dist'[q[2]], info'[q])
          BY <1>10, <4>1, ClaimThen DEF Ledger
        <4>3. QED  BY <2>3, <4>1, <4>2
      <3>3. QED  BY <1>9, <3>1, <3>2
    <2>4. CASE q[2] = v /\ q \in DOMAIN info /\ q # p
      <3>1. q \in S \ {p}
        BY <2>4 DEF S, Of
      <3>2. Claim(q) = Owed(val, info[q], Cardinality(S))
        BY <2>4, ClaimIs DEF S
      <3>3. Claim(q)' = Earned(w, info'[q])
        BY <1>3, <1>9, <1>10, <1>11, <2>4, ClaimThen DEF Ledger
      <3>4. QED  BY <1>9, <3>1, <3>2, <3>3
    <2>5. QED  BY <1>3, <2>1, <2>2, <2>3, <2>4
  <1>13. QED  BY <1>10, <1>12

(* A delegation that withdraws is paid its claim, and starts again; the    *)
(* claims of the others stay.                                              *)
LEMMA WithdrawBooks ==
    ASSUME Ledger, AllSound, height \in Nat, NEW p \in DOMAIN info, Withdraw(p), height' = height
    PROVE  /\ Ledger' /\ AllSound' /\ DOMAIN info' = DOMAIN info
           /\ \A u \in Val : u # p[2] => dist'[u] = dist[u]
           /\ dist'[p[2]].rewards = 0
           /\ Claim(p)' = 0 /\ holdings - holdings' = Claim(p)
           /\ \A q \in Delegation \ {p} : Claim(q)' = Claim(q)
  <1> DEFINE v == p[2]
             S == Of(v)
             val == dist[v]
             w == Started(Withdrawn(val, info[p], Cardinality(S), height))
  <1>1. /\ v \in Val /\ IsFiniteSet(S) /\ S # {} /\ Tokens(v) = Cardinality(S)
        /\ p \in Delegation /\ p \in S
    BY DelegationIs, OfIs DEF Ledger, LedgerTyped, Of
  <1>2. /\ info' = [info EXCEPT ![p] = StartInfo(Withdrawn(val, info[p], Cardinality(S), height), height)]
        /\ dist' = [dist EXCEPT ![v] = w] /\ pool' = pool
        /\ holdings' = holdings - Payment(val, info[p], Cardinality(S), height)
    BY <1>1 DEF Withdraw
  <1>3. /\ DOMAIN info' = DOMAIN info
        /\ \A q \in DOMAIN info : q # p => info'[q] = info[q]
        /\ info'[p] = StartInfo(Withdrawn(val, info[p], Cardinality(S), height), height)
    BY <1>2
  <1>4. OthersKept(v)
    BY <1>3 DEF OthersKept
  <1>5. Of(v)' = S
    BY <1>3 DEF Of
  <1>6. Sound(val, S, info, height)
    BY <1>1 DEF AllSound
  <1>7. \A q \in S \ {p} : info'[q] = info[q]
    BY <1>3 DEF Of
  <1> HIDE DEF S, v
  <1>8. /\ Sound(w, S, info', height)
        /\ w.rewards = 0 /\ w.outstanding = val.outstanding - Owed(val, info[p], Cardinality(S))
        /\ Earned(w, info'[p]) = 0
        /\ \A q \in S \ {p} : Earned(w, info'[q]) = Owed(val, info[q], Cardinality(S))
    <2>1. PaidAndBegun(w, info', val, S, info, height, p)
      BY <1>1, <1>3, <1>6, <1>7, RestartedSound
    <2>2. QED  BY <2>1 DEF PaidAndBegun
  <1> HIDE DEF w, val
  <1>9. /\ Payment(val, info[p], Cardinality(S), height) = Owed(val, info[p], Cardinality(S))
        /\ Owed(val, info[p], Cardinality(S)) \in Nat
    <2>1. Payment(val, info[p], Cardinality(S), height) = Owed(val, info[p], Cardinality(S))
      BY <1>1, <1>6, PaymentIs
    <2>2. Owed(val, info[p], Cardinality(S)) \in Nat
      BY <1>1, <1>6, OwedIs
    <2>3. QED  BY <2>1, <2>2
  <1>10. holdings \in Int /\ val.outstanding \in Nat
    BY <1>1, ValidatorIs DEF Ledger, LedgerTyped, val
  <1>11. Ledger' /\ AllSound'
    <2>1. IsFiniteSet(DOMAIN info') /\ {Operator} \X Val \subseteq DOMAIN info' /\ DOMAIN info' \subseteq Delegation
      BY <1>3 DEF Ledger, LedgerTyped
    <2>2. holdings' = holdings + w.outstanding - val.outstanding
      BY <1>2, <1>8, <1>9, <1>10
    <2>3. Sound(w, Of(v)', info', height)
      BY <1>5, <1>8
    <2>4. QED  BY <1>1, <1>2, <1>4, <2>1, <2>2, <2>3, OneChanged DEF val
  <1>12. dist'[v] = w /\ \A u \in Val \ {v} : dist'[u] = dist[u]
    BY <1>1, <1>2 DEF Ledger, LedgerTyped
  <1>13. ASSUME NEW q \in DOMAIN info, q[2] = v PROVE Claim(q)' = Earned(w, info'[q])
    <2>1. q \in DOMAIN info' /\ dist'[q[2]] = w /\ w.rewards = 0
      BY <1>3, <1>8, <1>12, <1>13
    <2>2. Claim(q)' = Earned(dist'[q[2]], info'[q])
      BY <1>11, <2>1, ClaimThen DEF Ledger
    <2>3. QED  BY <2>1, <2>2
  <1>14. ASSUME NEW q \in DOMAIN info, q[2] = v PROVE Claim(q) = Owed(val, info[q], Cardinality(S))
    <2>1. q \in Delegation
      BY DEF Ledger, LedgerTyped
    <2>2. QED  BY <1>14, <2>1, ClaimIs DEF S, val
  <1>15. Claim(p)' = 0
    BY <1>8, <1>13 DEF v
  <1>16. holdings - holdings' = Claim(p)
    BY <1>2, <1>9, <1>10, <1>14 DEF v
  <1>17. ASSUME NEW q \in Delegation \ {p} PROVE Claim(q)' = Claim(q)
    <2>1. CASE q[2] # v
      BY <1>1, <1>3, <1>4, <1>12, <2>1, OtherClaims DEF Ledger, LedgerTyped
    <2>2. CASE q \notin DOMAIN info
      BY <1>3, <2>2, ClaimIs
    <2>3. CASE q[2] = v /\ q \in DOMAIN info
      <3>1. q \in S \ {p}
        BY <2>3 DEF S, Of
      <3>2. QED  BY <1>8, <1>13, <1>14, <2>3, <3>1
    <2>4. QED  BY <2>1, <2>2, <2>3
  <1>18. QED  BY <1>3, <1>8, <1>11, <1>12, <1>15, <1>16, <1>17 DEF v

(* A delegation that ends is paid its claim.                               *)
LEMMA UndelegateBooks ==
    ASSUME Ledger, AllSound, height \in Nat, NEW p \in DOMAIN info, p[1] # Operator,
           dist' = [dist EXCEPT ![p[2]] = Withdrawn(@, info[p], Tokens(p[2]), height)],
           holdings' = holdings - Payment(dist[p[2]], info[p], Tokens(p[2]), height),
           info' = [q \in DOMAIN info \ {p} |-> info[q]],
           UNCHANGED <<height, pool>>
    PROVE  /\ Ledger' /\ AllSound' /\ DOMAIN info' = DOMAIN info \ {p}
           /\ Claim(p)' = 0 /\ holdings - holdings' = Claim(p)
           /\ \A q \in Delegation \ {p} : Claim(q)' = Claim(q)
  <1> DEFINE v == p[2]
             S == Of(v)
             val == dist[v]
             w == Withdrawn(val, info[p], Cardinality(S), height)
  <1>1. /\ v \in Val /\ IsFiniteSet(S) /\ S # {} /\ Tokens(v) = Cardinality(S)
        /\ p \in Delegation /\ p \in S
    BY DelegationIs, OfIs DEF Ledger, LedgerTyped, Of
  <1>2. /\ dist' = [dist EXCEPT ![v] = w] /\ pool' = pool
        /\ holdings' = holdings - Payment(val, info[p], Cardinality(S), height)
    BY <1>1 DEF Ledger, LedgerTyped
  <1>3. /\ DOMAIN info' = DOMAIN info \ {p}
        /\ \A q \in DOMAIN info : q # p => info'[q] = info[q]
    OBVIOUS
  <1>4. OthersKept(v)
    BY <1>3 DEF OthersKept
  <1>5. Of(v)' = S \ {p}
    BY <1>3 DEF Of
  <1>6. Sound(val, S, info, height)
    BY <1>1 DEF AllSound
  <1>7. \A q \in S \ {p} : info'[q] = info[q]
    BY <1>3 DEF Of
  <1> HIDE DEF S, v
  <1>8. PaidAndGone(w, val, S, info, height, p)
    BY <1>1, <1>6, WithdrawnSound
  <1> HIDE DEF w, val
  <1>9. /\ Payment(val, info[p], Cardinality(S), height) = Owed(val, info[p], Cardinality(S))
        /\ Owed(val, info[p], Cardinality(S)) \in Nat
    <2>1. Payment(val, info[p], Cardinality(S), height) = Owed(val, info[p], Cardinality(S))
      BY <1>1, <1>6, PaymentIs
    <2>2. Owed(val, info[p], Cardinality(S)) \in Nat
      BY <1>1, <1>6, OwedIs
    <2>3. QED  BY <2>1, <2>2
  <1>10. holdings \in Int /\ val.outstanding \in Nat
    BY <1>1, ValidatorIs DEF Ledger, LedgerTyped, val
  <1>11. /\ w.rewards = 0 /\ w.outstanding = val.outstanding - Owed(val, info[p], Cardinality(S))
         /\ \A q \in S \ {p} : Earned(w, info[q]) = Owed(val, info[q], Cardinality(S))
    BY <1>8 DEF PaidAndGone
  <1>12. Ledger' /\ AllSound'
    <2>1. IsFiniteSet(DOMAIN info') /\ {Operator} \X Val \subseteq DOMAIN info' /\ DOMAIN info' \subseteq Delegation
      <3>1. p \notin {Operator} \X Val
        OBVIOUS
      <3>2. QED  BY <1>3, <3>1, FS_RemoveElement DEF Ledger, LedgerTyped
    <2>2. holdings' = holdings + w.outstanding - val.outstanding
      BY <1>2, <1>9, <1>10, <1>11
    <2>3. Sound(w, Of(v)', info', height)
      <3>1. Sound(w, S \ {p}, info, height)
        BY <1>8 DEF PaidAndGone
      <3>2. QED  BY <1>5, <1>7, <3>1, SoundSame
    <2>4. QED  BY <1>1, <1>2, <1>4, <2>1, <2>2, <2>3, OneChanged DEF val
  <1>13. dist'[v] = w /\ \A u \in Val \ {v} : dist'[u] = dist[u]
    BY <1>1, <1>2 DEF Ledger, LedgerTyped
  <1>14. ASSUME NEW q \in DOMAIN info, q[2] = v PROVE Claim(q) = Owed(val, info[q], Cardinality(S))
    <2>1. q \in Delegation
      BY DEF Ledger, LedgerTyped
    <2>2. QED  BY <1>14, <2>1, ClaimIs DEF S, val
  <1>15. Claim(p)' = 0
    BY <1>1, <1>3, ClaimIs
  <1>16. holdings - holdings' = Claim(p)
    BY <1>2, <1>9, <1>10, <1>14 DEF v
  <1>17. ASSUME NEW q \in Delegation \ {p} PROVE Claim(q)' = Claim(q)
    <2>1. CASE q[2] # v
      BY <1>1, <1>3, <1>4, <1>13, <2>1, OtherClaims DEF Ledger, LedgerTyped
    <2>2. CASE q \notin DOMAIN info
      BY <1>3, <2>2, ClaimIs
    <2>3. CASE q[2] = v /\ q \in DOMAIN info
      <3>1. q \in S \ {p} /\ q \in DOMAIN info'
        BY <1>3, <2>3 DEF S, Of
      <3>2. dist'[q[2]] = w /\ info'[q] = info[q]
        BY <1>7, <1>13, <2>3, <3>1
      <3>3. Claim(q)' = Earned(dist'[q[2]], info'[q])
        BY <1>11, <1>12, <3>1, <3>2, ClaimThen DEF Ledger
      <3>4. QED  BY <1>11, <1>14, <2>3, <3>1, <3>2, <3>3
    <2>4. QED  BY <2>1, <2>2, <2>3
  <1>18. QED  BY <1>3, <1>12, <1>15, <1>16, <1>17

(* A delegation set up again loses its claim; those of the others stay.    *)
LEMMA ReinitBooks ==
    ASSUME Ledger, AllSound, height \in Nat, NEW p \in DOMAIN info,
           dist' = [dist EXCEPT ![p[2]] = Started(Increment(dist[p[2]], Tokens(p[2])))],
           info' = [info EXCEPT ![p] = StartInfo(Increment(dist[p[2]], Tokens(p[2])), height)],
           UNCHANGED <<height, pool, holdings>>
    PROVE  /\ Ledger' /\ AllSound' /\ DOMAIN info' = DOMAIN info
           /\ \A u \in Val : u # p[2] => dist'[u] = dist[u]
           /\ dist'[p[2]].rewards = 0
           /\ Claim(p)' = 0
           /\ \A q \in Delegation \ {p} : Claim(q)' = Claim(q)
  <1> DEFINE v == p[2]
             S == Of(v)
             val == dist[v]
             w == Started(Increment(val, Cardinality(S)))
  <1>1. /\ v \in Val /\ IsFiniteSet(S) /\ S # {} /\ Tokens(v) = Cardinality(S)
        /\ p \in Delegation /\ p \in S
    BY DelegationIs, OfIs DEF Ledger, LedgerTyped, Of
  <1>2. /\ info' = [info EXCEPT ![p] = StartInfo(Increment(val, Cardinality(S)), height)]
        /\ dist' = [dist EXCEPT ![v] = w]
    BY <1>1
  <1>3. /\ DOMAIN info' = DOMAIN info
        /\ \A q \in DOMAIN info : q # p => info'[q] = info[q]
        /\ info'[p] = StartInfo(Increment(val, Cardinality(S)), height)
    BY <1>2
  <1>4. OthersKept(v)
    BY <1>3 DEF OthersKept
  <1>5. Of(v)' = S /\ S \cup {p} = S
    BY <1>1, <1>3 DEF Of
  <1>6. Sound(val, S, info, height)
    BY <1>1 DEF AllSound
  <1>7. \A q \in S \ {p} : info'[q] = info[q]
    BY <1>3 DEF Of
  <1> HIDE DEF S, v
  <1>8. /\ Sound(w, S \cup {p}, info', height)
        /\ w.rewards = 0 /\ w.outstanding = val.outstanding
        /\ Earned(w, info'[p]) = 0
        /\ \A q \in S \ {p} : Earned(w, info'[q]) = Owed(val, info[q], Cardinality(S))
    <2>1. Begun(w, info', val, S, info, height, p)
      BY <1>1, <1>3, <1>6, <1>7, NewStartSound
    <2>2. QED  BY <2>1 DEF Begun
  <1> HIDE DEF w, val
  <1>9. Ledger' /\ AllSound'
    <2>1. IsFiniteSet(DOMAIN info') /\ {Operator} \X Val \subseteq DOMAIN info' /\ DOMAIN info' \subseteq Delegation
      BY <1>3 DEF Ledger, LedgerTyped
    <2>2. holdings' = holdings + w.outstanding - val.outstanding
      <3>1. holdings \in Int /\ val.outstanding \in Nat
        BY <1>1, ValidatorIs DEF Ledger, LedgerTyped, val
      <3>2. QED  BY <1>8, <3>1
    <2>3. Sound(w, Of(v)', info', height)
      BY <1>5, <1>8
    <2>4. QED  BY <1>1, <1>2, <1>4, <2>1, <2>2, <2>3, OneChanged DEF val
  <1>10. dist'[v] = w /\ \A u \in Val \ {v} : dist'[u] = dist[u]
    BY <1>1, <1>2 DEF Ledger, LedgerTyped
  <1>11. ASSUME NEW q \in DOMAIN info, q[2] = v PROVE Claim(q)' = Earned(w, info'[q])
    <2>1. q \in DOMAIN info' /\ dist'[q[2]] = w /\ w.rewards = 0
      BY <1>3, <1>8, <1>10, <1>11
    <2>2. Claim(q)' = Earned(dist'[q[2]], info'[q])
      BY <1>9, <2>1, ClaimThen DEF Ledger
    <2>3. QED  BY <2>1, <2>2
  <1>12. Claim(p)' = 0
    BY <1>8, <1>11 DEF v
  <1>13. ASSUME NEW q \in Delegation \ {p} PROVE Claim(q)' = Claim(q)
    <2>1. CASE q[2] # v
      BY <1>1, <1>3, <1>4, <1>10, <2>1, OtherClaims DEF Ledger, LedgerTyped
    <2>2. CASE q \notin DOMAIN info
      BY <1>3, <2>2, ClaimIs
    <2>3. CASE q[2] = v /\ q \in DOMAIN info
      <3>1. q \in S \ {p}
        BY <2>3 DEF S, Of
      <3>2. Claim(q) = Owed(val, info[q], Cardinality(S))
        BY <2>3, ClaimIs DEF S, val
      <3>3. QED  BY <1>8, <1>11, <2>3, <3>1, <3>2
    <2>4. QED  BY <2>1, <2>2, <2>3
  <1>14. QED  BY <1>3, <1>8, <1>9, <1>10, <1>12, <1>13 DEF v

(* A block, in which some of the validators earn.                          *)
Grown(val) == Earns(val, Rewards, Commission)

LEMMA GrownIs ==
    ASSUME NEW val \in Validator
    PROVE  /\ Grown(val) \in Validator /\ Grown(val).history = val.history
           /\ Grown(val).period = val.period /\ Grown(val).rewards >= val.rewards
           /\ Grown(val).outstanding = val.outstanding + (Rewards + Commission)
  <1> DEFINE n == Grown(val)
  <1>1. val.rewards \in Nat /\ val.commission \in Nat /\ val.outstanding \in Nat
    BY ValidatorIs
  <1>2. Rewards \in Nat /\ Commission \in Nat
    BY ExportAssumption
  <1>3. ASSUME NEW a, a = val.rewards + Rewards, NEW b, b = val.commission + Commission,
               NEW o, o = val.outstanding + Rewards + Commission
        PROVE  /\ n \in Validator /\ n.history = val.history /\ n.period = val.period
               /\ n.rewards = a /\ n.outstanding = o
    <2>0. val \in Validator
      OBVIOUS
    <2>1. a \in Nat /\ b \in Nat /\ o \in Nat
      BY <1>1, <1>2, <1>3
    <2>2. n = [val EXCEPT !.rewards = a, !.commission = b, !.outstanding = o]
      BY <1>3 DEF Grown, Earns
    <2> HIDE DEF n
    <2>3. n \in Validator
      BY ONLY <2>0, <2>1, <2>2 DEF Validator
    <2>4. n.rewards = a /\ n.outstanding = o
      BY ONLY <2>0, <2>1, <2>2 DEF Validator
    <2>5. n.history = val.history /\ n.period = val.period
      BY ONLY <2>0, <2>1, <2>2 DEF Validator
    <2>6. QED  BY <2>3, <2>4, <2>5
  <1> HIDE DEF n
  <1>4. /\ n \in Validator /\ n.history = val.history /\ n.period = val.period
        /\ n.rewards = val.rewards + Rewards /\ n.outstanding = val.outstanding + Rewards + Commission
    BY <1>3
  <1>5. QED  BY <1>1, <1>2, <1>4 DEF n

(* The account gets what the validators earn.                              *)
LEMMA BlockLedger ==
    ASSUME Ledger, height \in Nat, NEW S \in SUBSET Val,
           dist' = [v \in Val |-> IF v \in S THEN Grown(dist[v]) ELSE dist[v]],
           holdings' = holdings + Cardinality(S) * (Rewards + Commission),
           height' = height + 1, UNCHANGED <<info, pool>>
    PROVE  /\ Ledger'
           /\ AllSound => AllSound'
           /\ \A v \in Val : /\ dist'[v].history = dist[v].history
                             /\ dist'[v].period = dist[v].period
                             /\ dist'[v].rewards >= dist[v].rewards
  <1> DEFINE d == Rewards + Commission
  <1>1. d \in Nat /\ d \in Int /\ Rewards \in Nat /\ Commission \in Nat
    BY ExportAssumption
  <1>2. holdings' = holdings + Cardinality(S) * d
    OBVIOUS
  <1>3. \A v \in Val : dist'[v] = IF v \in S THEN Grown(dist[v]) ELSE dist[v]
    OBVIOUS
  <1>4. DOMAIN dist' = Val /\ \A v \in Val : dist[v] \in Validator
    BY DEF Ledger, LedgerTyped
  <1> HIDE DEF d
  <1>5. ASSUME NEW v \in Val
        PROVE  /\ dist'[v] \in Validator
               /\ dist'[v].history = dist[v].history /\ dist'[v].period = dist[v].period
               /\ dist'[v].rewards >= dist[v].rewards
               /\ dist'[v].outstanding = IF v \in S THEN dist[v].outstanding + d
                                                    ELSE dist[v].outstanding
    <2>1. CASE v \in S
      BY <1>3, <1>4, <2>1, GrownIs DEF d
    <2>2. CASE v \notin S
      BY <1>3, <1>4, <2>2, ValidatorIs
    <2>3. QED  BY <2>1, <2>2
  <1>6. Outstanding' = Outstanding + Cardinality(S) * d
    <2> DEFINE f == [v \in Val |-> dist[v].outstanding]
               e == [v \in Val |-> dist'[v].outstanding]
               g == [v \in Val |-> IF v \in S THEN f[v] + d ELSE f[v]]
    <2>1. e = g
      BY <1>5
    <2>2. Outstanding = SumFunctionOnSet(f, Val) /\ Outstanding' = SumFunctionOnSet(e, Val)
      BY DEF Outstanding, SumFunction
    <2>3. \A v \in Val : f[v] \in Int
      BY <1>4, ValidatorIs
    <2> HIDE DEF f, e
    <2>5. SumFunctionOnSet(g, Val) = SumFunctionOnSet(f, Val) + Cardinality(S) * d
      BY <1>1, <2>3, SumRaise, ExportAssumption
    <2>6. QED  BY <2>1, <2>2, <2>5
  <1>7. Cardinality(S) * d \in Nat
    <2>1. Cardinality(S) \in Nat
      BY FS_Subset, FS_CardinalityType, ExportAssumption
    <2>2. QED  BY <1>1, <2>1
  <1>8. Ledger'
    <2>1. LedgerTyped'
      <3>1. holdings' \in Int
        BY <1>2, <1>7 DEF Ledger, LedgerTyped
      <3>2. QED  BY <1>4, <1>5, <3>1 DEF Ledger, LedgerTyped
    <2>2. Solvent'
      <3>1. Outstanding \in Nat /\ pool \in Nat /\ holdings = pool + Outstanding
        BY OutstandingInt DEF Ledger, LedgerTyped, Solvent
      <3>2. pool' = pool
        OBVIOUS
      <3>3. QED  BY <1>2, <1>6, <1>7, <3>1, <3>2 DEF Solvent
    <2>3. QED  BY <2>1, <2>2 DEF Ledger
  <1>9. ASSUME AllSound PROVE AllSound'
    <2> SUFFICES ASSUME NEW v \in Val PROVE Sound(dist'[v], Of(v)', info', height')
      BY DEF AllSound
    <2>1. Of(v)' = Of(v) /\ info' = info /\ height' = height + 1 /\ IsFiniteSet(Of(v))
      BY OfIs DEF Of, Ledger
    <2>2. Sound(dist[v], Of(v), info, height)
      BY <1>9 DEF AllSound
    <2> DEFINE val == dist[v]
               T == Of(v)
    <2> HIDE DEF val, T
    <2>3. Sound(val, T, info, height + 1) /\ Sound(Grown(val), T, info, height + 1)
      <3>1. IsFiniteSet(T) /\ Sound(val, T, info, height)
        BY <2>1, <2>2 DEF val, T
      <3>2. Sound(val, T, info, height + 1)
        BY <1>1, <3>1, BlockSound
      <3>3. Sound(Grown(val), T, info, height + 1)
        BY <1>1, <3>1, BlockSound DEF Grown
      <3>4. QED  BY <3>2, <3>3
    <2>4. dist'[v] = val \/ dist'[v] = Grown(val)
      BY <1>3 DEF val
    <2>5. QED  BY <2>1, <2>3, <2>4 DEF T
  <1>10. QED  BY <1>5, <1>8, <1>9

-----------------------------------------------------------------------------
(* What a step may do to the claims                                        *)

(* A claim goes away only by being paid out.                               *)
NothingForgotten ==
    \A p \in Delegation :
        Claim(p)' < Claim(p) => Claim(p) - Claim(p)' <= holdings - holdings'

LEMMA ClaimInt == ASSUME Ledger, NEW q \in Delegation PROVE Claim(q) \in Int
  <1>1. CASE q \notin DOMAIN info
    BY <1>1, ClaimIs
  <1>2. CASE q \in DOMAIN info
    <2> DEFINE val == dist[q[2]]
               n == Cardinality(Of(q[2]))
    <2>1. q[2] \in Val
      BY DelegationIs
    <2>2. val \in Validator /\ n \in Nat \ {0}
      BY <2>1, OfIs DEF Ledger, LedgerTyped
    <2> HIDE DEF val, n
    <2>3. val.rewards \in Nat /\ \A k : Ratio(val, k) \in Nat
      BY <2>2, ValidatorIs
    <2>4. val.rewards \div n \in Nat
      BY <2>2, <2>3
    <2>5. Owed(val, info[q], n) \in Int
      BY <2>3, <2>4 DEF Owed, Ratio
    <2>6. QED  BY <1>2, <2>5, ClaimIs DEF val, n
  <1>3. QED  BY <1>1, <1>2

LEMMA SameClaims ==
    ASSUME Ledger, \A q \in Delegation : Claim(q)' = Claim(q)
    PROVE  NothingForgotten
  BY ClaimInt DEF NothingForgotten

(* Only the claim of p goes away, and it is paid.                          *)
LEMMA OnePaid ==
    ASSUME Ledger, Ledger', NEW p \in Delegation, Claim(p)' = 0, holdings - holdings' = Claim(p),
           \A q \in Delegation \ {p} : Claim(q)' = Claim(q)
    PROVE  NothingForgotten
  <1> SUFFICES ASSUME NEW q \in Delegation, Claim(q)' < Claim(q)
               PROVE  Claim(q) - Claim(q)' <= holdings - holdings'
    BY DEF NothingForgotten
  <1>1. Claim(q) \in Int
    BY ClaimInt
  <1>2. q = p
    BY <1>1
  <1>3. QED  BY <1>1, <1>2

(* Rewards that grow only add to the claims.                               *)
LEMMA BlockClaims ==
    ASSUME Ledger, Ledger', info' = info,
           \A v \in Val : /\ dist'[v].history = dist[v].history
                          /\ dist'[v].period = dist[v].period
                          /\ dist'[v].rewards >= dist[v].rewards
    PROVE  NothingForgotten
  <1> SUFFICES ASSUME NEW q \in Delegation PROVE Claim(q)' \in Int /\ Claim(q) <= Claim(q)'
    <2>1. \A q \in Delegation : Claim(q) \in Int
      BY ClaimInt
    <2>2. QED  BY <2>1 DEF NothingForgotten
  <1>1. CASE q \notin DOMAIN info
    BY <1>1, ClaimIs
  <1>2. CASE q \in DOMAIN info
    <2> DEFINE val == dist[q[2]]
               now == dist'[q[2]]
               n == Cardinality(Of(q[2]))
    <2>1. q[2] \in Val
      BY DelegationIs
    <2>2. val \in Validator /\ now \in Validator /\ n \in Nat \ {0}
      BY <2>1, OfIs DEF Ledger, LedgerTyped
    <2>3. now.history = val.history /\ now.period = val.period /\ now.rewards >= val.rewards
      BY <2>1
    <2>4. Cardinality(Of(q[2])') = n
      BY DEF Of
    <2>5. Claim(q) = Owed(val, info[q], n) /\ Claim(q)' = Owed(now, info[q], n)
      BY <1>2, <2>4, ClaimIs
    <2> HIDE DEF val, n, now
    <2>6. val.rewards \in Nat /\ now.rewards \in Nat /\ \A k : Ratio(val, k) \in Nat
      BY <2>2, ValidatorIs
    <2>7. val.rewards \div n \in Nat /\ now.rewards \div n \in Nat
      BY <2>2, <2>6
    <2>8. val.rewards \div n <= now.rewards \div n
      BY <2>2, <2>3, <2>6, DivMonotone
    <2> DEFINE a == Ratio(val, val.period - 1)
               b == Ratio(val, info[q].period)
    <2>9. /\ Owed(val, info[q], n) = a - b + val.rewards \div n
          /\ Owed(now, info[q], n) = a - b + now.rewards \div n
      BY <2>3 DEF Owed, Ratio
    <2>10. a \in Nat /\ b \in Nat
      BY <2>6
    <2> HIDE DEF a, b
    <2>11. QED  BY <2>5, <2>7, <2>8, <2>9, <2>10
  <1>3. QED  BY <1>1, <1>2

-----------------------------------------------------------------------------
(* Those who have been paid                                                *)

LEMMA PaidClaim ==
    ASSUME Ledger, AllSound, NEW q \in DOMAIN info, Paid(q)
    PROVE  Claim(q) = 0
  <1>1. Claim(q) = 0 + 0 \div Cardinality(Of(q[2]))
    BY ClaimNow DEF Paid
  <1>2. Cardinality(Of(q[2])) \in Nat \ {0}
    BY DelegationIs, OfIs DEF Ledger, LedgerTyped
  <1>3. \A n \in Nat \ {0} : 0 \div n = 0
    OBVIOUS
  <1>4. QED  BY <1>1, <1>2, <1>3

LEMMA ClaimPaid ==
    ASSUME Ledger', AllSound', NEW q \in DOMAIN info', Claim(q)' = 0, dist'[q[2]].rewards = 0
    PROVE  Paid(q)'
  <1>1. Claim(q)' = Earned(dist'[q[2]], info'[q])
    BY ClaimThen DEF Ledger
  <1>2. QED  BY <1>1 DEF Paid

-----------------------------------------------------------------------------
(* A step that leaves the books alone                                      *)

LEMMA SameBooks ==
    ASSUME Ledger, UNCHANGED distVars
    PROVE  /\ Ledger' /\ NothingForgotten
           /\ NoHistory => NoHistory'
           /\ AllSound /\ height' = height => AllSound'
           /\ \A q : Paid(q)' = Paid(q)
  <1> USE DEF distVars
  <1>1. Ledger'
    BY DEF Ledger, LedgerTyped, Solvent, Outstanding
  <1>2. \A q \in Delegation : Claim(q)' = Claim(q)
    BY ClaimIs DEF Of
  <1>3. NothingForgotten
    BY <1>2, SameClaims
  <1>4. (NoHistory => NoHistory') /\ (AllSound /\ height' = height => AllSound') /\ \A q : Paid(q)' = Paid(q)
    BY DEF NoHistory, AllSound, Of, Paid
  <1>5. QED  BY <1>1, <1>3, <1>4

(* A step of a chain that runs.                                            *)
LEMMA LiveBooks ==
    ASSUME Books, Live, phase' = phase, zeroHeight' = zeroHeight, Ledger', ArgsTyped',
           Kept => AllSound', NoHistory => NoHistory',
           panicked' => zeroHeight
    PROVE  Books'
  <1>1. phase \in {"running", "imported"}
    BY DEF Live
  <1>2. RecordsOK'
    BY <1>1 DEF Books, RecordsOK, Kept
  <1>3. PaidOK' /\ ContinuedChainWorks'
    BY <1>1 DEF PaidOK, ContinuedChainWorks
  <1>4. QED  BY <1>2, <1>3 DEF Books

-----------------------------------------------------------------------------
(* The chains                                                              *)

(* A chain that has its records never panics; one without always does.     *)
LEMMA PanicIs ==
    ASSUME Books, Live, NEW v \in Val
    PROVE  /\ Kept => AllSound
           /\ Kept <=> ~IncrementPanics(dist[v])
           /\ \A p \in Of(v) : Kept <=> ~WithdrawPanics(dist[v], info[p], Tokens(v), height)
  <1>1. phase # "refused" /\ Ledger
    BY DEF Live, Books
  <1>2. CASE Kept
    <2> DEFINE S == Of(v)
               val == dist[v]
    <2>1. AllSound
      BY <1>2 DEF Books, RecordsOK
    <2>2. Sound(val, S, info, height) /\ IsFiniteSet(S) /\ Tokens(v) = Cardinality(S)
      BY <1>1, <2>1, OfIs DEF AllSound, Ledger
    <2> HIDE DEF S, val
    <2>3. ~IncrementPanics(val) /\ \A p \in S : ~WithdrawPanics(val, info[p], Cardinality(S), height)
      BY <2>2, NoPanic
    <2>4. QED  BY <1>2, <2>1, <2>2, <2>3 DEF S, val
  <1>3. CASE ~Kept
    <2>1. DOMAIN dist[v].history = {}
      BY <1>1, <1>3 DEF Books, RecordsOK, NoHistory
    <2>2. IncrementPanics(dist[v])
      BY <2>1 DEF IncrementPanics, Record, EmptyRecord
    <2>3. QED  BY <1>3, <2>2 DEF WithdrawPanics
  <1>4. QED  BY <1>2, <1>3

(* A message that panics.                                                  *)
LEMMA PanicBooks ==
    ASSUME Books, Message, Panic, ~Kept
    PROVE  Books' /\ NothingForgotten
  <1> USE DEF Panic, Message, stakingVars
  <1>1. Ledger' /\ NothingForgotten /\ (NoHistory => NoHistory') /\ (AllSound => AllSound')
    BY SameBooks DEF Books
  <1>2. Live /\ phase' = phase /\ zeroHeight' = zeroHeight
    OBVIOUS
  <1>3. ArgsTyped'
    BY DEF Books, ArgsTyped
  <1>4. zeroHeight
    BY DEF Kept
  <1>5. QED  BY <1>1, <1>2, <1>3, <1>4, LiveBooks

LEMMA NewBlockBooks == ASSUME IInv, Books, NewBlock PROVE Books' /\ NothingForgotten
  <1>1. PICK S \in SUBSET bonded :
           /\ dist' = [v \in Val |-> IF v \in S THEN Grown(dist[v]) ELSE dist[v]]
           /\ holdings' = holdings + Cardinality(S) * (Rewards + Commission)
    BY DEF NewBlock, Grown, Earns
  <1>2. /\ Live /\ height' = height + 1
        /\ UNCHANGED <<messages, info, pool, jailed, bonded, phase, todo, zeroHeight, allowed, panicked>>
    BY DEF NewBlock, stakingVars, argVars
  <1>3. S \in SUBSET Val /\ height \in Nat /\ Ledger
    BY DEF Books, ArgsTyped, IInv, Types
  <1>4. /\ Ledger'
        /\ AllSound => AllSound'
        /\ \A v \in Val : /\ dist'[v].history = dist[v].history
                          /\ dist'[v].period = dist[v].period
                          /\ dist'[v].rewards >= dist[v].rewards
    BY <1>1, <1>2, <1>3, BlockLedger
  <1>5. NothingForgotten
    BY <1>2, <1>3, <1>4, BlockClaims
  <1>6. NoHistory => NoHistory'
    BY <1>4 DEF NoHistory
  <1>7. ArgsTyped' /\ (panicked' => zeroHeight)
    BY <1>2 DEF Books, ArgsTyped, ContinuedChainWorks
  <1>8. Kept => AllSound'
    BY <1>4 DEF Books, RecordsOK
  <1>9. QED  BY <1>2, <1>4, <1>5, <1>6, <1>7, <1>8, LiveBooks

LEMMA DelegateStep ==
    ASSUME IInv, Books, NEW d \in Del, NEW v \in Val, Delegate(d, v)
    PROVE  Books' /\ NothingForgotten
  <1>1. Live /\ Message /\ <<d, v>> \notin DOMAIN info
    BY DEF Delegate, Message
  <1>2. Kept <=> ~IncrementPanics(dist[v])
    BY <1>1, PanicIs
  <1>3. CASE ~Kept
    BY <1>1, <1>2, <1>3, PanicBooks DEF Delegate
  <1>4. CASE Kept
    <2>1. /\ dist' = [dist EXCEPT ![v] = Started(Increment(dist[v], Tokens(v)))]
          /\ info' = [p \in DOMAIN info \cup {<<d, v>>} |->
                       IF p = <<d, v>> THEN StartInfo(Increment(dist[v], Tokens(v)), height)
                                       ELSE info[p]]
          /\ UNCHANGED <<height, pool, holdings, jailed, bonded, phase, todo, zeroHeight, allowed, panicked>>
      BY <1>2, <1>4 DEF Delegate, stakingVars, argVars
    <2>2. AllSound /\ Ledger /\ height \in Nat
      BY <1>1, <1>4, PanicIs DEF Books, IInv, Types
    <2>3. Ledger' /\ AllSound' /\ \A q \in Delegation : Claim(q)' = Claim(q)
      BY <1>1, <2>1, <2>2, DelegateBooks
    <2>4. ArgsTyped' /\ (panicked' => zeroHeight)
      BY <1>1, <2>1 DEF Message, Books, ArgsTyped, ContinuedChainWorks
    <2>5. NoHistory => NoHistory'
      <3>1. ~NoHistory
        BY <1>2, <1>4 DEF NoHistory, IncrementPanics, Record, EmptyRecord
      <3>2. QED  BY <3>1
    <2>6. Books'
      BY <1>1, <2>1, <2>3, <2>4, <2>5, LiveBooks
    <2>7. QED  BY <2>2, <2>3, <2>6, SameClaims
  <1>5. QED  BY <1>3, <1>4

LEMMA MsgWithdrawStep ==
    ASSUME IInv, Books, NEW p \in DOMAIN info, MsgWithdraw(p)
    PROVE  Books' /\ NothingForgotten
  <1>1. Live /\ Message
    BY DEF MsgWithdraw, Message
  <1>2. p \in Delegation /\ p[2] \in Val /\ p \in Of(p[2])
    BY DelegationIs DEF Books, Ledger, LedgerTyped, Of
  <1>3. /\ Kept <=> ~WithdrawPanics(dist[p[2]], info[p], Tokens(p[2]), height)
        /\ Kept <=> ~IncrementPanics(dist[p[2]])
    BY <1>1, <1>2, PanicIs
  <1>4. CASE ~Kept
    BY <1>1, <1>3, <1>4, PanicBooks DEF MsgWithdraw
  <1>5. CASE Kept
    <2>1. /\ Withdraw(p)
          /\ UNCHANGED <<height, jailed, bonded, phase, todo, zeroHeight, allowed, panicked>>
      BY <1>3, <1>5 DEF MsgWithdraw, stakingVars, argVars
    <2>2. AllSound /\ Ledger /\ height \in Nat
      BY <1>1, <1>2, <1>5, PanicIs DEF Books, IInv, Types
    <2>3. /\ Ledger' /\ AllSound' /\ Claim(p)' = 0 /\ holdings - holdings' = Claim(p)
          /\ \A q \in Delegation \ {p} : Claim(q)' = Claim(q)
      BY <2>1, <2>2, WithdrawBooks
    <2>4. ArgsTyped' /\ (panicked' => zeroHeight)
      BY <1>1, <2>1 DEF Message, Books, ArgsTyped, ContinuedChainWorks
    <2>5. NoHistory => NoHistory'
      <3>1. ~NoHistory
        BY <1>2, <1>3, <1>5 DEF NoHistory, IncrementPanics, Record, EmptyRecord
      <3>2. QED  BY <3>1
    <2>6. Books'
      BY <1>1, <2>1, <2>3, <2>4, <2>5, LiveBooks
    <2>7. QED  BY <1>2, <2>2, <2>3, <2>6, OnePaid
  <1>6. QED  BY <1>4, <1>5

LEMMA UndelegateStep ==
    ASSUME IInv, Books, NEW p \in DOMAIN info, Undelegate(p)
    PROVE  Books' /\ NothingForgotten
  <1>1. Live /\ Message /\ p[1] # Operator
    BY DEF Undelegate, Message
  <1>2. p \in Delegation /\ p[2] \in Val /\ p \in Of(p[2])
    BY DelegationIs DEF Books, Ledger, LedgerTyped, Of
  <1>3. /\ Kept <=> ~WithdrawPanics(dist[p[2]], info[p], Tokens(p[2]), height)
        /\ Kept <=> ~IncrementPanics(dist[p[2]])
    BY <1>1, <1>2, PanicIs
  <1>4. CASE ~Kept
    BY <1>1, <1>3, <1>4, PanicBooks DEF Undelegate
  <1>5. CASE Kept
    <2>1. /\ dist' = [dist EXCEPT ![p[2]] = Withdrawn(@, info[p], Tokens(p[2]), height)]
          /\ holdings' = holdings - Payment(dist[p[2]], info[p], Tokens(p[2]), height)
          /\ info' = [q \in DOMAIN info \ {p} |-> info[q]]
          /\ UNCHANGED <<height, pool, jailed, bonded, phase, todo, zeroHeight, allowed, panicked>>
      BY <1>3, <1>5 DEF Undelegate, argVars
    <2>2. AllSound /\ Ledger /\ height \in Nat
      BY <1>1, <1>2, <1>5, PanicIs DEF Books, IInv, Types
    <2>3. /\ Ledger' /\ AllSound' /\ Claim(p)' = 0 /\ holdings - holdings' = Claim(p)
          /\ \A q \in Delegation \ {p} : Claim(q)' = Claim(q)
      BY <1>1, <2>1, <2>2, UndelegateBooks
    <2>4. ArgsTyped' /\ (panicked' => zeroHeight)
      BY <1>1, <2>1 DEF Message, Books, ArgsTyped, ContinuedChainWorks
    <2>5. NoHistory => NoHistory'
      <3>1. ~NoHistory
        BY <1>2, <1>3, <1>5 DEF NoHistory, IncrementPanics, Record, EmptyRecord
      <3>2. QED  BY <3>1
    <2>6. Books'
      BY <1>1, <2>1, <2>3, <2>4, <2>5, LiveBooks
    <2>7. QED  BY <1>2, <2>2, <2>3, <2>6, OnePaid
  <1>6. QED  BY <1>4, <1>5

LEMMA JailBooks ==
    ASSUME IInv, Books, NEW v \in Val, Jail(v) \/ Unjail(v)
    PROVE  Books' /\ NothingForgotten
  <1>1. /\ Live /\ messages' \in Nat /\ jailed' \subseteq Val /\ bonded' \subseteq Val
        /\ UNCHANGED <<height, distVars, phase, todo, zeroHeight, allowed, panicked>>
    BY DEF Jail, Unjail, Message, argVars, Books, ArgsTyped
  <1>2. Ledger' /\ NothingForgotten /\ (NoHistory => NoHistory') /\ (AllSound => AllSound')
    BY <1>1, SameBooks DEF Books
  <1>3. ArgsTyped' /\ (panicked' => zeroHeight)
    BY <1>1 DEF Books, ArgsTyped, ContinuedChainWorks
  <1>4. Kept => AllSound'
    BY <1>2 DEF Books, RecordsOK
  <1>5. QED  BY <1>1, <1>2, <1>3, <1>4, LiveBooks

-----------------------------------------------------------------------------
(* The export                                                              *)

LEMMA ExportBooks ==
    ASSUME IInv, Books, NEW zero \in BOOLEAN, NEW addrs \in SUBSET (Val \cup {BadAddress}),
           Export(zero, addrs)
    PROVE  Books' /\ NothingForgotten
  <1>1. /\ phase = "running" /\ phase' \in {"exported", "refused", "commission"}
        /\ phase' = "exported" => ~zero
        /\ phase' \in {"refused", "commission"} => zero
        /\ zeroHeight' = zero /\ todo' = Val /\ allowed' \subseteq Val \cup {BadAddress}
        /\ UNCHANGED <<height, messages, distVars, jailed, bonded, panicked>>
    BY DEF Export, stakingVars
  <1>2. Kept /\ AllSound /\ ~zeroHeight /\ ~panicked
    BY <1>1 DEF Books, RecordsOK, Kept, ContinuedChainWorks
  <1>3. Ledger' /\ NothingForgotten /\ AllSound'
    BY <1>1, <1>2, SameBooks DEF Books
  <1>4. ArgsTyped'
    BY <1>1 DEF Books, ArgsTyped
  <1>5. RecordsOK'
    BY <1>1, <1>3 DEF RecordsOK, Kept, Paying
  <1>6. PaidOK' /\ ContinuedChainWorks'
    BY <1>1, <1>2 DEF PaidOK, ContinuedChainWorks
  <1>7. QED  BY <1>3, <1>4, <1>5, <1>6 DEF Books

LEMMA ImportBooks == ASSUME IInv, Books, Import PROVE Books' /\ NothingForgotten
  <1>1. /\ phase = "exported" /\ phase' = "imported" /\ messages' = 0
        /\ height' = IF zeroHeight THEN 0 ELSE height
        /\ UNCHANGED <<distVars, jailed, bonded, todo, zeroHeight, allowed, panicked>>
    BY DEF Import, stakingVars, argVars
  <1>2. /\ Ledger' /\ NothingForgotten
        /\ NoHistory => NoHistory'
        /\ AllSound /\ height' = height => AllSound'
    BY <1>1, SameBooks DEF Books
  <1>3. ArgsTyped'
    BY <1>1 DEF Books, ArgsTyped
  <1>4. RecordsOK'
    BY <1>1, <1>2 DEF Books, RecordsOK, Kept, Paying
  <1>5. PaidOK' /\ ContinuedChainWorks'
    BY <1>1 DEF PaidOK, Books, ContinuedChainWorks
  <1>6. QED  BY <1>2, <1>3, <1>4, <1>5 DEF Books

-----------------------------------------------------------------------------
(* The preparation for height zero                                         *)

LEMMA VisitedIs ==
    ASSUME NEW x, NEW section, NEW items, Visited(x, section, items)
    PROVE  \/ phase' = section /\ todo' = items /\ todo = {x}
           \/ phase' = phase /\ todo' = todo \ {x}
  BY DEF Visited

(* A section in which the records are there.                               *)
LEMMA PayingBooks ==
    ASSUME IInv, Books, phase \in Paying, phase' \in Paying, Ledger', AllSound', PaidOK',
           todo' \subseteq todo \cup DOMAIN info,
           UNCHANGED <<messages, jailed, bonded, zeroHeight, allowed, panicked>>
    PROVE  Books'
  <1>1. ArgsTyped'
    BY DEF Books, ArgsTyped, Ledger, LedgerTyped
  <1>2. RecordsOK' /\ ContinuedChainWorks'
    BY DEF Books, RecordsOK, Kept, Paying, ContinuedChainWorks
  <1>3. QED  BY <1>1, <1>2 DEF Books

LEMMA WithdrawCommissionStep ==
    ASSUME IInv, Books, NEW v \in Val, WithdrawCommission(v)
    PROVE  Books' /\ NothingForgotten
  <1>1. /\ phase = "commission"
        /\ UNCHANGED <<height, messages, distVars, jailed, bonded, zeroHeight, allowed, panicked>>
    BY ExportAssumption DEF WithdrawCommission, ValAddress, distVars, stakingVars, argVars
  <1>2. \/ phase' = "rewards" /\ todo' = DOMAIN info
        \/ phase' = phase /\ todo' \subseteq todo
    BY VisitedIs DEF WithdrawCommission
  <1>3. AllSound
    BY <1>1 DEF Books, RecordsOK, Kept, Paying
  <1>4. Ledger' /\ NothingForgotten /\ AllSound'
    BY <1>1, <1>3, SameBooks DEF Books
  <1>5. PaidOK'
    BY <1>1, <1>2 DEF PaidOK, distVars
  <1>6. QED  BY <1>1, <1>2, <1>4, <1>5, PayingBooks DEF Paying

(* Whoever had been paid still has, when one more delegation is set up     *)
(* again.                                                                  *)
LEMMA StillPaid ==
    ASSUME Ledger, AllSound, Ledger', AllSound', NEW p \in DOMAIN info, DOMAIN info' = DOMAIN info,
           \A u \in Val : u # p[2] => dist'[u] = dist[u], dist'[p[2]].rewards = 0,
           Claim(p)' = 0, \A q \in Delegation \ {p} : Claim(q)' = Claim(q)
    PROVE  \A q \in DOMAIN info : q = p \/ Paid(q) => Paid(q)'
  <1> SUFFICES ASSUME NEW q \in DOMAIN info, q = p \/ Paid(q) PROVE Paid(q)'
    OBVIOUS
  <1>1. q \in Delegation /\ q[2] \in Val
    BY DelegationIs DEF Ledger, LedgerTyped
  <1>2. Claim(q)' = 0
    <2>1. CASE q = p
      BY <2>1
    <2>2. CASE q # p /\ Paid(q)
      BY <1>1, <2>2, PaidClaim
    <2>3. QED  BY <2>1, <2>2
  <1>3. dist'[q[2]].rewards = 0
    <2>1. CASE q[2] = p[2]
      BY <2>1
    <2>2. CASE q[2] # p[2]
      BY <1>1, <2>2 DEF Paid
    <2>3. QED  BY <2>1, <2>2
  <1>4. QED  BY <1>2, <1>3, ClaimPaid

LEMMA WithdrawRewardsStep ==
    ASSUME IInv, Books, NEW p \in DOMAIN info, WithdrawRewards(p)
    PROVE  Books' /\ NothingForgotten
  <1>1. /\ phase = "rewards" /\ Withdraw(p)
        /\ UNCHANGED <<height, messages, jailed, bonded, zeroHeight, allowed, panicked>>
    BY DEF WithdrawRewards, stakingVars, argVars
  <1>2. \/ phase' = "delegations" /\ todo' = DOMAIN info /\ todo = {p}
        \/ phase' = phase /\ todo' = todo \ {p}
    BY VisitedIs DEF WithdrawRewards
  <1>3. AllSound /\ Ledger /\ height \in Nat /\ p \in Delegation
    BY <1>1 DEF Books, RecordsOK, Kept, Paying, IInv, Types, Ledger, LedgerTyped
  <1>4. /\ Ledger' /\ AllSound' /\ DOMAIN info' = DOMAIN info
        /\ \A u \in Val : u # p[2] => dist'[u] = dist[u]
        /\ dist'[p[2]].rewards = 0
        /\ Claim(p)' = 0 /\ holdings - holdings' = Claim(p)
        /\ \A q \in Delegation \ {p} : Claim(q)' = Claim(q)
    BY <1>1, <1>3, WithdrawBooks
  <1>5. NothingForgotten
    BY <1>3, <1>4, OnePaid
  <1>6. \A q \in DOMAIN info : q = p \/ Paid(q) => Paid(q)'
    BY <1>3, <1>4, StillPaid
  <1>7. \A q \in DOMAIN info : q \in todo \/ Paid(q)
    BY <1>1 DEF Books, PaidOK
  <1>8. PaidOK'
    BY <1>1, <1>2, <1>4, <1>6, <1>7 DEF PaidOK
  <1>9. QED  BY <1>1, <1>2, <1>4, <1>5, <1>8, PayingBooks DEF Paying

LEMMA ReinitDelegationStep ==
    ASSUME IInv, Books, NEW p \in DOMAIN info, ReinitDelegation(p)
    PROVE  Books' /\ NothingForgotten
  <1>1. /\ phase = "delegations"
        /\ dist' = [dist EXCEPT ![p[2]] = Started(Increment(dist[p[2]], Tokens(p[2])))]
        /\ info' = [info EXCEPT ![p] = StartInfo(Increment(dist[p[2]], Tokens(p[2])), height)]
        /\ UNCHANGED <<height, messages, pool, holdings, jailed, bonded, zeroHeight, allowed, panicked>>
    BY DEF ReinitDelegation, stakingVars, argVars
  <1>2. \/ phase' = "history" /\ todo' = {}
        \/ phase' = phase /\ todo' = todo \ {p}
    BY VisitedIs DEF ReinitDelegation
  <1>3. AllSound /\ Ledger /\ height \in Nat /\ p \in Delegation
    BY <1>1 DEF Books, RecordsOK, Kept, Paying, IInv, Types, Ledger, LedgerTyped
  <1>4. /\ Ledger' /\ AllSound' /\ DOMAIN info' = DOMAIN info
        /\ \A u \in Val : u # p[2] => dist'[u] = dist[u]
        /\ dist'[p[2]].rewards = 0
        /\ Claim(p)' = 0
        /\ \A q \in Delegation \ {p} : Claim(q)' = Claim(q)
    BY <1>1, <1>3, ReinitBooks
  <1>5. \A q \in DOMAIN info : Paid(q)
    BY <1>1 DEF Books, PaidOK
  <1>6. NothingForgotten
    <2>1. Claim(p) = 0
      BY <1>3, <1>5, PaidClaim
    <2>2. \A q \in Delegation : Claim(q)' = Claim(q)
      BY <1>4, <2>1
    <2>3. QED  BY <1>3, <2>2, SameClaims
  <1>7. \A q \in DOMAIN info : Paid(q)'
    BY <1>3, <1>4, <1>5, StillPaid
  <1>8. PaidOK'
    BY <1>1, <1>2, <1>4, <1>7 DEF PaidOK
  <1>9. QED  BY <1>1, <1>2, <1>4, <1>6, <1>8, PayingBooks DEF Paying

(* The records are deleted when nothing is left to claim.                  *)
LEMMA DeleteHistoryStep == ASSUME IInv, Books, DeleteHistory PROVE Books' /\ NothingForgotten
  <1> DEFINE none == [p \in {} |-> EmptyRecord]
             bare(val) == [val EXCEPT !.history = none]
  <1>1. /\ phase = "history" /\ phase' = "validators" /\ todo' = Val
        /\ dist' = [v \in Val |-> bare(dist[v])]
        /\ UNCHANGED <<height, messages, info, pool, holdings, jailed, bonded, zeroHeight, allowed, panicked>>
    BY DEF DeleteHistory, stakingVars, argVars
  <1>2. AllSound /\ Ledger /\ zeroHeight
    BY <1>1 DEF Books, RecordsOK, Kept, Paying, IInv, PreparingOK, Preparing
  <1>3. ASSUME NEW val \in Validator
        PROVE  /\ bare(val) \in Validator /\ DOMAIN bare(val).history = {}
               /\ bare(val).outstanding = val.outstanding /\ bare(val).rewards = val.rewards
    <2>1. none \in History /\ DOMAIN none = {}
      BY HistoryIs
    <2>2. ASSUME NEW h \in History, DOMAIN h = {}, NEW n, n = [val EXCEPT !.history = h]
          PROVE  /\ n \in Validator /\ DOMAIN n.history = {}
                 /\ n.outstanding = val.outstanding /\ n.rewards = val.rewards
      BY <2>2 DEF Validator
    <2> HIDE DEF none
    <2>3. QED  BY <2>1, <2>2
  <1>4. \A v \in Val : dist'[v] = bare(dist[v])
    BY <1>1
  <1> HIDE DEF bare
  <1>5. /\ DOMAIN dist' = Val
        /\ \A v \in Val : /\ dist'[v] \in Validator /\ DOMAIN dist'[v].history = {}
                          /\ dist'[v].outstanding = dist[v].outstanding
                          /\ dist'[v].rewards = dist[v].rewards
    BY <1>1, <1>2, <1>3, <1>4 DEF Ledger, LedgerTyped
  <1>6. Ledger'
    <2>1. LedgerTyped'
      BY <1>1, <1>2, <1>5 DEF Ledger, LedgerTyped
    <2>2. Outstanding' = Outstanding
      BY <1>5 DEF Outstanding
    <2>3. QED  BY <1>1, <1>2, <2>1, <2>2 DEF Ledger, Solvent
  <1>7. NothingForgotten
    <2> SUFFICES ASSUME NEW q \in Delegation PROVE Claim(q)' = Claim(q)
      BY <1>2, SameClaims
    <2>1. CASE q \notin DOMAIN info
      BY <1>1, <2>1, ClaimIs
    <2>2. CASE q \in DOMAIN info
      <3> DEFINE now == dist'[q[2]]
                 n == Cardinality(Of(q[2]))
      <3>1. Paid(q) /\ q[2] \in Val
        BY <1>1, <2>2, DelegationIs DEF Books, PaidOK
      <3>2. Claim(q) = 0
        BY <1>2, <2>2, <3>1, PaidClaim
      <3>3. Claim(q)' = Owed(now, info[q], n)
        <4>1. Cardinality(Of(q[2])') = n
          BY <1>1 DEF Of
        <4>2. QED  BY <1>1, <2>2, <4>1, ClaimIs
      <3>4. DOMAIN now.history = {} /\ now.rewards = 0
        BY <1>5, <3>1 DEF Paid
      <3>5. n \in Nat \ {0}
        BY <1>2, <3>1, OfIs DEF Ledger
      <3> HIDE DEF now, n
      <3>6. 0 \div n = 0
        BY <3>5
      <3>7. Owed(now, info[q], n) = 0
        BY <3>4, <3>6 DEF Owed, Record, EmptyRecord
      <3>8. QED  BY <3>2, <3>3, <3>7
    <2>3. QED  BY <2>1, <2>2
  <1>8. NoHistory'
    BY <1>5 DEF NoHistory
  <1>9. ArgsTyped' /\ RecordsOK' /\ PaidOK' /\ ContinuedChainWorks'
    BY <1>1, <1>2, <1>8 DEF Books, ArgsTyped, RecordsOK, Kept, Paying, PaidOK, ContinuedChainWorks
  <1>10. QED  BY <1>6, <1>7, <1>9 DEF Books

(* The sections after it leave the books as they are.                      *)
LEMMA AfterHistory ==
    ASSUME IInv, Books, phase \in {"validators", "staking", "apply", "signing"},
           phase' \in {"staking", "apply", "signing", "aborted", "exported"},
           jailed' \subseteq Val, bonded' \subseteq Val, todo' \subseteq todo,
           UNCHANGED <<height, messages, distVars, zeroHeight, allowed, panicked>>
    PROVE  Books' /\ NothingForgotten
  <1>1. zeroHeight
    BY DEF IInv, PreparingOK, Preparing
  <1>2. NoHistory
    BY <1>1 DEF Books, RecordsOK, Kept, Paying
  <1>3. Ledger' /\ NothingForgotten /\ NoHistory'
    BY <1>2, SameBooks DEF Books
  <1>4. ArgsTyped' /\ RecordsOK' /\ PaidOK' /\ ContinuedChainWorks'
    BY <1>1, <1>3 DEF Books, ArgsTyped, RecordsOK, Kept, Paying, PaidOK, ContinuedChainWorks
  <1>5. QED  BY <1>3, <1>4 DEF Books

LEMMA PrepBooks == ASSUME IInv, Books, PrepNext PROVE Books' /\ NothingForgotten
  <1> USE DEF distVars, stakingVars, argVars
  <1>0. jailed \subseteq Val /\ bonded \subseteq Val /\ indexed \subseteq Val
    BY DEF Books, ArgsTyped, IInv, Types
  <1>1. ASSUME NEW v \in Val, ReinitValidator(v) PROVE Books' /\ NothingForgotten
    <2>1. /\ phase = "validators" /\ phase' = "staking" /\ todo' = {}
          /\ UNCHANGED <<height, messages, distVars, jailed, bonded, zeroHeight, allowed, panicked>>
      BY <1>1, ExportAssumption DEF ReinitValidator, ValAddress
    <2>2. QED  BY <1>0, <2>1, AfterHistory
  <1>2. CASE ResetStaking
    <2>1. /\ phase = "staking" /\ phase' = "apply" /\ jailed' \subseteq Val
          /\ UNCHANGED <<height, messages, distVars, bonded, todo, zeroHeight, allowed, panicked>>
      BY <1>0, <1>2 DEF ResetStaking
    <2>2. QED  BY <1>0, <2>1, AfterHistory
  <1>3. CASE ApplyUpdates
    <2>1. /\ phase = "apply" /\ phase' \in {"aborted", "signing"} /\ bonded' \subseteq Val
          /\ UNCHANGED <<height, messages, distVars, jailed, todo, zeroHeight, allowed, panicked>>
      BY <1>0, <1>3 DEF ApplyUpdates
    <2>2. QED  BY <1>0, <2>1, AfterHistory
  <1>4. CASE ResetSigning
    <2>1. /\ phase = "signing" /\ phase' = "exported"
          /\ UNCHANGED <<height, messages, distVars, jailed, bonded, todo, zeroHeight, allowed, panicked>>
      BY <1>4 DEF ResetSigning
    <2>2. QED  BY <1>0, <2>1, AfterHistory
  <1>5. QED  BY <1>1, <1>2, <1>3, <1>4, WithdrawCommissionStep, WithdrawRewardsStep,
                ReinitDelegationStep, DeleteHistoryStep DEF PrepNext

-----------------------------------------------------------------------------
(* The initial state                                                       *)

(* A validator that is set up, with its period ended once, has sound books *)
(* with nobody in them.                                                    *)
LEMMA FirstSound ==
    ASSUME NEW starts
    PROVE  /\ Sound(Increment(NewValidator, 1), {}, starts, 0)
           /\ Increment(NewValidator, 1).period = 2 /\ Increment(NewValidator, 1).rewards = 0
           /\ Increment(NewValidator, 1).outstanding = 0
  <1> DEFINE new == NewValidator
             now == Increment(new, 1)
  <1>1. /\ new \in Validator /\ new.period = 1 /\ new.rewards = 0 /\ new.commission = 0
        /\ new.outstanding = 0 /\ DOMAIN new.history = {0}
        /\ Refs(new, 0) = 1 /\ Ratio(new, 0) = 0 /\ \A q : q # 0 => Refs(new, q) = 0
    <2> DEFINE r == [ratio |-> 0, refs |-> 1]
               h == [p \in {0} |-> r]
    <2>1. r \in RecordType /\ r.ratio = 0 /\ r.refs = 1
      BY DEF RecordType
    <2> HIDE DEF r
    <2>2. DOMAIN h = {0} /\ h[0] = r /\ h \in [{0} -> RecordType] /\ {0} \in SUBSET Nat
      BY <2>1
    <2>3. h \in History
      BY <2>2, HistoryIs
    <2>4. new = [period |-> 1, rewards |-> 0, commission |-> 0, outstanding |-> 0, history |-> h]
      BY DEF NewValidator, r
    <2> HIDE DEF h, new
    <2>5. new \in Validator
      BY ONLY <2>3, <2>4 DEF Validator
    <2>6. /\ new.period = 1 /\ new.rewards = 0 /\ new.commission = 0
          /\ new.outstanding = 0 /\ new.history = h
      BY ONLY <2>4
    <2>7. /\ Refs(new, 0) = 1 /\ Ratio(new, 0) = 0 /\ \A q : q # 0 => Refs(new, q) = 0
      BY <2>1, <2>2, <2>6 DEF Refs, Ratio, Record, EmptyRecord
    <2>8. QED  BY <2>2, <2>5, <2>6, <2>7
  <1> HIDE DEF new
  <1>2. RatiosGrow(new) /\ new.period - 1 = 0 /\ 0 \in DOMAIN new.history
    BY <1>1 DEF RatiosGrow
  <1>3. new.rewards \div 1 = 0
    BY <1>1
  <1>4. /\ now \in Validator /\ now.period = 2 /\ now.rewards = 0
        /\ now.commission = 0 /\ now.outstanding = 0
        /\ Ratio(now, 1) = 0 /\ Refs(now, 1) = 1
        /\ DOMAIN now.history \subseteq {0, 1}
        /\ \A q : q # 1 => Refs(now, q) = Refs(new, q) - (IF q = 0 THEN 1 ELSE 0)
        /\ 0 \in DOMAIN now.history => Ratio(now, 0) = 0
    <2>1. /\ now \in Validator /\ now.period = new.period + 1 /\ now.rewards = 0
          /\ now.commission = new.commission /\ now.outstanding = new.outstanding
          /\ Ratio(now, new.period) = Ratio(new, new.period - 1) + new.rewards \div 1
          /\ Refs(now, new.period) = 1
          /\ DOMAIN now.history \subseteq DOMAIN new.history \cup {new.period}
          /\ \A q : q # new.period =>
                 /\ Refs(now, q) = Refs(new, q) - (IF q = new.period - 1 THEN 1 ELSE 0)
                 /\ q \in DOMAIN now.history => Ratio(now, q) = Ratio(new, q)
      BY <1>1, <1>2, IncrementIs
    <2> HIDE DEF now
    <2>2. QED  BY <1>1, <1>2, <1>3, <2>1
  <1> HIDE DEF now
  <1>5. RatiosGrow(now)
    BY <1>4 DEF RatiosGrow
  <1>6. RecordsKept(now, {}, starts)
    <2> SUFFICES ASSUME NEW q \in Nat
                 PROVE  Cardinality(StartingAt({}, starts, q)) + (IF q = now.period - 1 THEN 1 ELSE 0)
                           <= Refs(now, q)
      BY DEF RecordsKept
    <2>1. Cardinality(StartingAt({}, starts, q)) = 0
      <3>1. StartingAt({}, starts, q) = {}
        BY DEF StartingAt
      <3>2. QED  BY <3>1, FS_EmptySet
    <2>2. Refs(now, q) \in Nat
      BY <1>4, ValidatorIs
    <2>3. QED  BY <1>4, <2>1, <2>2
  <1>7. StartsPast(now, {}, starts, 0)
    BY DEF StartsPast
  <1>8. Covered(now, {}, starts)
    BY <1>4, SumEmpty DEF Covered, Total
  <1>9. QED  BY <1>4, <1>5, <1>6, <1>7, <1>8 DEF Sound, now, new

LEMMA InitBooks == Init => Books
  <1> SUFFICES ASSUME Init PROVE Books
    OBVIOUS
  <1> DEFINE w == Increment(NewValidator, 1)
             now == Started(w)
  <1>1. /\ dist = [v \in Val |-> now]
        /\ info = [p \in {Operator} \X Val |-> [period |-> 1, height |-> 0]]
        /\ height = 0 /\ messages = 0 /\ pool = 0 /\ holdings = 0
        /\ jailed = {} /\ bonded = Val /\ todo = {} /\ phase = "running"
        /\ zeroHeight = FALSE /\ allowed = {} /\ panicked = FALSE
    BY DEF Init
  <1>2. w.period = 2 /\ w.rewards = 0 /\ w.outstanding = 0 /\ Sound(w, {}, info, 0)
    BY FirstSound
  <1> HIDE DEF w, now
  <1>3. DOMAIN info = {Operator} \X Val /\ \A p \in DOMAIN info : info[p] = [period |-> 1, height |-> 0]
    BY <1>1
  <1>4. ASSUME NEW v \in Val
        PROVE  /\ Of(v) = {<<Operator, v>>}
               /\ Sound(now, Of(v), info, 0) /\ now.outstanding = 0
    <2> DEFINE p == <<Operator, v>>
    <2>1. Of(v) = {p} /\ p \in DOMAIN info
      BY <1>3 DEF Of
    <2>2. info[p] = StartInfo(w, 0)
      BY <1>2, <1>3, <2>1 DEF StartInfo
    <2> HIDE DEF p
    <2>3. Joined(Started(w), info, w, {}, info, 0, p)
      BY <1>2, <2>2, FS_EmptySet, StartSound
    <2>4. Sound(now, {} \cup {p}, info, 0) /\ now.outstanding = 0
      BY <1>2, <2>3 DEF Joined, now
    <2>5. {} \cup {p} = {p}
      OBVIOUS
    <2>6. QED  BY <2>1, <2>4, <2>5 DEF p
  <1>5. \A v \in Val : dist[v] = now
    BY <1>1
  <1>6. AllSound
    BY <1>1, <1>4, <1>5 DEF AllSound
  <1>7. LedgerTyped
    <2>1. DOMAIN dist = Val /\ \A v \in Val : dist[v] \in Validator
      BY <1>1, <1>4, <1>5 DEF Sound
    <2>2. IsFiniteSet(DOMAIN info)
      <3>1. IsFiniteSet({Operator})
        BY FS_Singleton
      <3>2. QED  BY <1>3, <3>1, FS_Product, ExportAssumption
    <2>3. DOMAIN info \subseteq Delegation
      BY <1>3, ExportAssumption DEF Delegation
    <2>4. \A p \in DOMAIN info : info[p] \in Start
      BY <1>3 DEF Start
    <2>5. QED  BY <1>1, <1>3, <2>1, <2>2, <2>3, <2>4 DEF LedgerTyped
  <1>8. Solvent
    <2> DEFINE f == [v \in Val |-> dist[v].outstanding]
    <2>1. \A v \in Val : f[v] = 0
      BY <1>4, <1>5
    <2>2. Outstanding = SumFunctionOnSet(f, Val)
      BY DEF Outstanding, SumFunction
    <2> HIDE DEF f
    <2>3. Outstanding = 0
      BY <2>1, <2>2, SumZero, ExportAssumption
    <2>4. QED  BY <1>1, <2>3 DEF Solvent
  <1>9. ArgsTyped /\ RecordsOK /\ PaidOK /\ ContinuedChainWorks
    BY <1>1, <1>6 DEF ArgsTyped, RecordsOK, Kept, PaidOK, ContinuedChainWorks
  <1>10. QED  BY <1>7, <1>8, <1>9 DEF Books, Ledger

-----------------------------------------------------------------------------
(* The invariant, and what follows from it                                 *)

LEMMA BooksStep == ASSUME IInv, Books, [Next]_vars PROVE Books' /\ NothingForgotten
  <1>1. CASE ChainNext
    BY <1>1, NewBlockBooks, DelegateStep, MsgWithdrawStep, UndelegateStep, JailBooks DEF ChainNext
  <1>2. CASE \E zero \in BOOLEAN, addrs \in SUBSET (Val \cup {BadAddress}) : Export(zero, addrs)
    BY <1>2, ExportBooks
  <1>3. CASE PrepNext
    BY <1>3, PrepBooks
  <1>4. CASE Import
    BY <1>4, ImportBooks
  <1>5. CASE UNCHANGED vars
    <2>1. /\ UNCHANGED distVars
          /\ UNCHANGED <<height, messages, jailed, bonded, phase, todo, zeroHeight, allowed, panicked>>
      BY <1>5 DEF vars, stakingVars, argVars
    <2>2. /\ Ledger' /\ NothingForgotten /\ (NoHistory => NoHistory') /\ (AllSound => AllSound')
          /\ \A q : Paid(q)' = Paid(q)
      BY <2>1, SameBooks DEF Books
    <2>3. DOMAIN info' = DOMAIN info
      BY <2>1 DEF distVars
    <2>4. ArgsTyped' /\ RecordsOK' /\ PaidOK' /\ ContinuedChainWorks'
      BY <2>1, <2>2, <2>3 DEF Books, ArgsTyped, RecordsOK, Kept, PaidOK, ContinuedChainWorks
    <2>5. QED  BY <2>2, <2>4 DEF Books
  <1>6. QED  BY <1>1, <1>2, <1>3, <1>4, <1>5 DEF Next

(* The books are in order, in every state of the chains and of the         *)
(* preparation.                                                            *)
THEOREM BooksInOrder == Spec => []Books
  <1>1. IInv /\ Books /\ [Next]_vars => Books'
    BY BooksStep
  <1>2. QED  BY <1>1, InitBooks, Invariance, PTL DEF Spec

(* The module account holds the outstanding rewards and the community pool *)
(* (x/distribution refuses a genesis file in which it does not): messages, *)
(* blocks and every step of the preparation keep the two together.         *)
THEOREM AlwaysSolvent == Spec => []Solvent
  <1>1. Books => Solvent
    BY DEF Books, Ledger
  <1>2. QED  BY <1>1, BooksInOrder, PTL

(* A chain that goes on from the exported height, and the chain it was     *)
(* exported from, find every record they need: no message panics.          *)
THEOREM ContinuedWorks == Spec => []ContinuedChainWorks
  <1>1. Books => ContinuedChainWorks
    BY DEF Books
  <1>2. QED  BY <1>1, BooksInOrder, PTL

(* What a delegation has earned goes away only by being paid out: the      *)
(* preparation sets the delegations up again and deletes the records after *)
(* everybody has been paid.                                                *)
THEOREM NothingLost == Spec => PaidBeforeForgotten
  <1>1. IInv /\ Books /\ [Next]_vars =>
           [\A p \in Delegation :
                Claim(p)' < Claim(p) => Claim(p) - Claim(p)' <= holdings - holdings']_vars
    BY BooksStep DEF NothingForgotten
  <1>2. QED  BY <1>1, Invariance, BooksInOrder, PTL DEF Spec, PaidBeforeForgotten

(* Every variable has its type; no amount is negative, the module account  *)
(* included, and no record is kept that nobody needs.                      *)
THEOREM TypeCorrect == Spec => []TypeOK
  <1>1. IInv /\ Books => TypeOK
    <2> SUFFICES ASSUME IInv, Books PROVE TypeOK
      OBVIOUS
    <2>1. ASSUME NEW v \in Val
          PROVE  /\ dist[v].period \in Nat /\ dist[v].rewards \in Nat
                 /\ dist[v].commission \in Nat /\ dist[v].outstanding \in Nat
                 /\ \A p \in DOMAIN dist[v].history : dist[v].history[p] \in RecordType
      <3>1. dist[v] \in Validator
        BY DEF Books, Ledger, LedgerTyped
      <3>2. QED  BY <3>1, ValidatorIs, HistoryIs
    <2>2. pool \in Nat /\ holdings \in Nat
      BY OutstandingInt DEF Books, Ledger, LedgerTyped, Solvent
    <2>3. QED  BY <2>1, <2>2 DEF TypeOK, IInv, Types, Books, Ledger, LedgerTyped, ArgsTyped, Start
  <1>2. QED  BY <1>1, Invariance, BooksInOrder, PTL
=============================================================================
