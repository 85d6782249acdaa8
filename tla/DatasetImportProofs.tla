------------------------ MODULE DatasetImportProofs ------------------------
(***************************************************************************)
(* Theorems about DatasetImport for every set of imports, slots, assets,   *)
(* batches and every size of a statement: audits are true, NOAA imports    *)
(* do not deadlock, and imports take effect one after the other.  Then     *)
(* theorems about GhcnhCommands, the commands that end in such an import,  *)
(* for every window, every limit and everything an upstream can send:      *)
(* files arrive whole and in bounded time, the outcome is told, and import *)
(* and quality report agree on every row.                                  *)
(***************************************************************************)
EXTENDS DatasetImport, GhcnhCommands, FiniteSetTheorems, SequenceTheorems,
        WellFoundedInduction, TLAPS

USE ImportAssumption

-----------------------------------------------------------------------------
(* Batches and statements. *)

LEMMA BatchFacts ==
  ASSUME NEW b \in NoaaBatches \cup OtherBatches
  PROVE  /\ b \in Seq(Records) /\ DOMAIN b = 1..Len(b) /\ Len(b) \in Nat
         /\ \A n \in DOMAIN b : b[n].slot \in Slots /\ b[n].value \in Values
<1>1. b \in Seq(Records)
  BY BatchAssumption
<1>2. DOMAIN b = 1..Len(b) /\ Len(b) \in Nat
  BY <1>1
<1>3. \A n \in DOMAIN b : b[n] \in Records
  BY <1>1, <1>2, ElementOfSeq
<1>. QED
  BY <1>1, <1>2, <1>3 DEF Records

(* A statement that does not end goes on with the next record. *)
LEMMA StatementGoesOn ==
  ASSUME NEW m \in Nat \ {0}, m % Chunk # 0
  PROVE  m \div Chunk = (m - 1) \div Chunk
BY DEF Imports

(* The first record of a batch for a slot is the one that is stored. *)
LEMMA FirstRecord ==
  ASSUME NEW b \in NoaaBatches \cup OtherBatches, NEW s, NEW n \in DOMAIN b, b[n].slot = s,
         \A k \in 1..(n - 1) : b[k].slot # s
  PROVE  Atomic!ValueIn(b, s) = b[n].value
<1> DEFINE First(m) == b[m].slot = s /\ \A k \in 1..(m - 1) : b[k].slot # s
<1>1. \A m \in DOMAIN b : First(m) => m = n
  BY BatchFacts
<1>2. (CHOOSE m \in DOMAIN b : First(m)) = n
  BY <1>1
<1>. QED
  BY <1>2 DEF Atomic!ValueIn

-----------------------------------------------------------------------------
(* Imports that a step does not concern. *)

(* The rows that others store are not where k has drafted, and replace     *)
(* nothing.                                                                *)
LEMMA ImportFrame ==
  ASSUME TypeOK, NEW k \in Imports, ImportIInv(k),
         UNCHANGED <<pc[k], batch[k], next[k], draft[k], inserted[k], audit[k], share[k]>>,
         k \in Noaa => /\ UNCHANGED asset[k]
                       /\ \A a \in Assets : update'[a] = k <=> update[a] = k,
         \A s \in Slots :
           store'[s] # store[s] =>
             store[s] = NoRow /\ store'[s] # NoRow /\ store'[s].import # k /\ s \notin Drafted(k)
  PROVE  ImportIInv(k)'
<1>1. Drafted(k)' = Drafted(k)
  BY DEF Drafted
<1>2. pc[k] \in Open =>
        \A n \in DOMAIN batch[k] : batch[k][n].slot \in Slots /\ n \in Nat
  BY BatchFacts DEF ImportIInv, CommandAgrees
<1>3. CommandAgrees(k)'
  BY <1>1 DEF ImportIInv, CommandAgrees
<1>4. DraftAgrees(k)'
  BY <1>1, <1>2 DEF ImportIInv, DraftAgrees, Drafted
<1>5. AuditCounts(k)'
  <2>1. Brought(k)' = Brought(k)
    BY DEF Brought
  <2>. QED
    BY <2>1 DEF ImportIInv, AuditCounts
<1>6. ASSUME k \in Noaa
      PROVE  HoldsAsset(k)' /\ PassedAgree(k)' /\ IngestedIsStored(k)'
  <2>1. HoldsAsset(k)'
    BY <1>6 DEF ImportIInv, HoldsAsset
  <2>2. ASSUME NEW r, r.slot \in Slots
        PROVE  /\ Atomic!SameObservation(store[r.slot], r) => Atomic!SameObservation(store'[r.slot], r)
               /\ Agrees(k, r) => Agrees(k, r)'
    BY <1>1, <2>2 DEF Atomic!SameObservation, Agrees
  <2>3. PassedAgree(k)'
    BY <1>2, <1>6, <2>2 DEF ImportIInv, PassedAgree, EndsStatement
  <2>4. IngestedIsStored(k)'
    <3>1. batch[k] \in Seq(Records)
      BY DEF TypeOK
    <3>2. \A n \in DOMAIN batch[k] : batch[k][n] \in Records
      BY <3>1, ElementOfSeq
    <3>3. \A n \in DOMAIN batch[k] : batch[k][n].slot \in Slots
      BY <3>2 DEF Records
    <3>. QED
      BY <1>6, <2>2, <3>3 DEF ImportIInv, IngestedIsStored
  <2>. QED
    BY <2>1, <2>3, <2>4
<1>. QED
  BY <1>3, <1>4, <1>5, <1>6 DEF ImportIInv

-----------------------------------------------------------------------------
(* The begin of an import. *)

LEMMA InitIInv == Init => IInv
<1>. SUFFICES ASSUME Init PROVE IInv
  OBVIOUS
<1>1. \A i \in Imports : Drafted(i) = {}
  BY DEF Init, Drafted, NoDraft
<1>2. TypeOK
  BY <1>1, EmptySeq DEF Init, TypeOK, Open, Atomic!Init, Atomic!NoAudit, Atomic!Imports, Imports, NoDraft
<1>3. ASSUME NEW i \in Imports PROVE ImportIInv(i)
  <2>1. pc[i] = "idle" /\ audit[i] = Atomic!NoAudit /\ next[i] = 1 /\ inserted[i] = 0 /\ share[i] = {}
    BY DEF Init, Atomic!Init, Atomic!Imports, Imports
  <2>2. CommandAgrees(i)
    BY <1>1, <2>1 DEF CommandAgrees, Open
  <2>3. DraftAgrees(i)
    BY <1>1, <2>1, FS_EmptySet DEF DraftAgrees, Open
  <2>4. Brought(i) = {}
    BY DEF Brought, Init, Atomic!Init
  <2>5. AuditCounts(i)
    BY <2>1, <2>4, FS_EmptySet DEF AuditCounts, Atomic!NoAudit
  <2>6. HoldsAsset(i) /\ PassedAgree(i) /\ IngestedIsStored(i)
    BY <2>1 DEF HoldsAsset, PassedAgree, IngestedIsStored, Open, Init, Atomic!NoAudit
  <2>. QED
    BY <2>2, <2>3, <2>5, <2>6 DEF ImportIInv
<1>. QED
  BY <1>2, <1>3 DEF IInv

LEMMA BeginPreserves ==
  ASSUME IInv, NEW i \in Imports, NEW b, NEW first, Begin(i, b, first),
         \/ /\ i \in Noaa /\ b \in NoaaBatches /\ first = "locking"
            /\ \E a \in Assets : /\ asset' = [asset EXCEPT ![i] = a]
                                 /\ \A n \in DOMAIN b : AssetOf[b[n].slot] = a
         \/ i \in Others /\ b \in OtherBatches /\ first = "inserting" /\ UNCHANGED asset
  PROVE  IInv'
<1>. TypeOK /\ ImportIInv(i)
  BY DEF IInv
<1>1. \A k \in Imports : Drafted(k)' = Drafted(k)
  BY DEF Drafted, Begin
<1>2. Drafted(i) = {} /\ share[i] = {} /\ next[i] = 1 /\ inserted[i] = 0 /\ audit[i] = Atomic!NoAudit
  BY DEF Begin, ImportIInv, CommandAgrees
<1>3. b \in Seq(Records) /\ DOMAIN b = 1..Len(b) /\ Len(b) \in Nat
  BY BatchFacts
<1>4. TypeOK'
  <2>1. /\ pc' = [pc EXCEPT ![i] = first] /\ batch' = [batch EXCEPT ![i] = b]
        /\ UNCHANGED <<store, audit, next, draft, inserted, update, share>>
    BY DEF Begin, committed, locks
  <2>2. first \in Open
    BY DEF Open
  <2>3. asset' \in [Noaa -> Assets \cup {NoAsset}]
    BY DEF TypeOK
  <2>4. pc' \in [Imports -> {"idle", "ended"} \cup Open]
    BY <2>1, <2>2 DEF TypeOK
  <2>5. batch' \in [Imports -> Seq(Records)]
    BY <1>3, <2>1 DEF TypeOK
  <2>6. \A k \in Imports : pc'[k] \notin Open => Drafted(k)' = {} /\ share'[k] = {}
    BY <1>1, <2>1, <2>2 DEF TypeOK
  <2>7. \A a \in Assets : update'[a] # NoImport => pc'[update'[a]] \in Open
    BY <2>1, <2>2 DEF TypeOK
  <2>. QED
    BY <1>1, <2>1, <2>3, <2>4, <2>5, <2>6, <2>7 DEF TypeOK
<1>5. ASSUME NEW k \in Imports \ {i} PROVE ImportIInv(k)'
  BY <1>5, ImportFrame DEF Begin, TypeOK, committed, locks, IInv
<1>6. pc'[i] = first /\ batch'[i] = b
  BY DEF Begin, TypeOK
<1>7. UNCHANGED <<store, audit, next, inserted, share, update, draft>>
  BY DEF Begin, committed, locks
<1>8. CommandAgrees(i)'
  <2>1. first = "inserting" => 1 <= Len(b)
    BY <1>3, BatchAssumption, EmptySeq DEF Imports
  <2>. QED
    BY <1>1, <1>2, <1>6, <1>7, <2>1 DEF CommandAgrees, Open, Imports
<1>9. DraftAgrees(i)'
  <2>1. Drafted(i)' = {} /\ inserted'[i] = 0 /\ next'[i] = 1 /\ batch'[i] = b
    BY <1>1, <1>2, <1>6, <1>7
  <2>2. \A n \in DOMAIN b : ~(n < 1)
    BY <1>3
  <2>. QED
    BY <2>1, <2>2, FS_EmptySet DEF DraftAgrees
<1>10. AuditCounts(i)'
  BY <1>7 DEF ImportIInv, AuditCounts, Brought
<1>11. ASSUME i \in Noaa PROVE HoldsAsset(i)' /\ PassedAgree(i)' /\ IngestedIsStored(i)'
  <2>1. PICK a \in Assets : asset'[i] = a /\ \A n \in DOMAIN b : AssetOf[b[n].slot] = a
    BY <1>11 DEF TypeOK
  <2>2. first = "locking"
    BY <1>11
  <2>3. \A c \in Assets : update[c] # i
    BY <1>11 DEF ImportIInv, HoldsAsset, Begin, Open
  <2>4. HoldsAsset(i)'
    BY <1>6, <1>7, <2>1, <2>2, <2>3 DEF HoldsAsset, Open
  <2>5. PassedAgree(i)'
    BY <1>2, <1>3, <1>6, <1>7 DEF PassedAgree
  <2>6. IngestedIsStored(i)'
    BY <1>2, <1>7 DEF IngestedIsStored, Atomic!NoAudit
  <2>. QED
    BY <2>4, <2>5, <2>6
<1>. QED
  BY <1>4, <1>5, <1>8, <1>9, <1>10, <1>11 DEF IInv, ImportIInv

LEMMA PreviewPreserves ==
  ASSUME IInv, NEW i \in Others, Preview(i)
  PROVE  IInv'
<1>. i \in Imports /\ i \notin Noaa /\ TypeOK /\ ImportIInv(i)
  BY DEF IInv, Imports
<1>1. \A k \in Imports : Drafted(k)' = Drafted(k)
  BY DEF Drafted, Preview
<1>2. Drafted(i) = {} /\ share[i] = {} /\ audit[i] = Atomic!NoAudit
  BY DEF Preview, ImportIInv, CommandAgrees
<1>3. UNCHANGED <<store, asset, batch, next, inserted, share, update, draft>>
  BY DEF Preview, locks
<1>4. pc' = [pc EXCEPT ![i] = "ended"] /\ pc[i] = "idle"
      /\ audit' = [audit EXCEPT ![i] = Atomic!Validated]
  BY DEF Preview
<1>5. TypeOK'
  BY <1>1, <1>2, <1>3, <1>4 DEF TypeOK, Open, Atomic!Validated
<1>6. ASSUME NEW k \in Imports \ {i} PROVE ImportIInv(k)'
  BY <1>6, <1>3, <1>4, ImportFrame DEF TypeOK, IInv
<1>7. CommandAgrees(i)'
  BY <1>4 DEF CommandAgrees, TypeOK, Open
<1>8. DraftAgrees(i)'
  BY <1>1, <1>2, <1>3, <1>4, FS_EmptySet DEF DraftAgrees, TypeOK, Open
<1>9. AuditCounts(i)'
  BY <1>2, <1>3, <1>4 DEF AuditCounts, Brought, TypeOK, Atomic!Validated, Atomic!NoAudit, ImportIInv
<1>. QED
  BY <1>5, <1>6, <1>7, <1>8, <1>9 DEF IInv, ImportIInv

LEMMA LockPreserves ==
  ASSUME IInv, NEW i \in Imports, LockAsset(i)
  PROVE  IInv'
<1>. TypeOK /\ ImportIInv(i)
  BY DEF IInv
<1>1. i \in Noaa /\ pc[i] = "locking" /\ batch[i] \in NoaaBatches
  BY DEF LockAsset, ImportIInv, CommandAgrees, Open
<1>2. asset[i] \in Assets /\ \A n \in DOMAIN batch[i] : AssetOf[batch[i][n].slot] = asset[i]
  BY <1>1 DEF ImportIInv, HoldsAsset, Open
<1>3. UNCHANGED <<store, audit, asset, batch, next, inserted, share, draft>>
  BY DEF LockAsset, committed
<1>4. /\ pc' = [pc EXCEPT ![i] = Onwards(i)]
      /\ update' = [update EXCEPT ![asset[i]] = i]
      /\ update[asset[i]] = NoImport
  BY DEF LockAsset
<1>5. Onwards(i) \in {"inserting", "finishing"}
  BY DEF Onwards
<1>6. \A k \in Imports : Drafted(k)' = Drafted(k)
  BY <1>3 DEF Drafted
<1>7. TypeOK'
  BY <1>1, <1>2, <1>3, <1>4, <1>5, <1>6 DEF TypeOK, Open
<1>8. ASSUME NEW k \in Imports \ {i} PROVE ImportIInv(k)'
  <2>1. \A a \in Assets : update'[a] = k <=> update[a] = k
    BY <1>2, <1>4, <1>8 DEF TypeOK
  <2>. QED
    BY <1>3, <1>4, <1>8, <2>1, ImportFrame DEF TypeOK, IInv
<1>9. pc'[i] = Onwards(i)
  BY <1>4 DEF TypeOK
<1>10. Drafted(i) = {} /\ share[i] = {} /\ next[i] = 1 /\ inserted[i] = 0
  BY <1>1 DEF ImportIInv, CommandAgrees
<1>11. DOMAIN batch[i] = 1..Len(batch[i]) /\ Len(batch[i]) \in Nat
  BY <1>1, BatchFacts
<1>12. CommandAgrees(i)'
  BY <1>1, <1>3, <1>9, <1>10, <1>11 DEF ImportIInv, CommandAgrees, Onwards, Open
<1>13. DraftAgrees(i)'
  <2>1. Drafted(i)' = {} /\ inserted'[i] = 0 /\ next'[i] = 1 /\ batch'[i] = batch[i]
    BY <1>3, <1>6, <1>10
  <2>2. \A n \in DOMAIN batch[i] : ~(n < 1)
    BY <1>11
  <2>. QED
    BY <2>1, <2>2, FS_EmptySet DEF DraftAgrees
<1>14. AuditCounts(i)'
  BY <1>3 DEF ImportIInv, AuditCounts, Brought
<1>15. HoldsAsset(i)'
  <2>1. \A a \in Assets : update[a] # i
    BY <1>1 DEF ImportIInv, HoldsAsset, Open
  <2>. QED
    BY <1>1, <1>2, <1>3, <1>4, <1>5, <1>9, <2>1 DEF HoldsAsset, Open, TypeOK
<1>16. PassedAgree(i)'
  BY <1>3, <1>10, <1>11 DEF PassedAgree
<1>17. IngestedIsStored(i)'
  BY <1>1, <1>3 DEF ImportIInv, IngestedIsStored
<1>. QED
  BY <1>7, <1>8, <1>12, <1>13, <1>14, <1>15, <1>16, <1>17 DEF IInv, ImportIInv

-----------------------------------------------------------------------------
(* Statements. *)

(* A row is drafted only for a slot that is neither stored nor drafted, so *)
(* no earlier record of the batch was for it.  A NOAA import passes it     *)
(* without comparing it, in the statement that is not compared yet.        *)
LEMMA InsertPreserves ==
  ASSUME IInv, NEW i \in Imports, Insert(i)
  PROVE  IInv'
<1> DEFINE r == batch[i][next[i]]
           isNew == store[r.slot] = NoRow /\ r.slot \notin Drafted(i)
<1>. TypeOK /\ ImportIInv(i)
  BY DEF IInv
<1>1. /\ pc[i] = "inserting"
      /\ \A k \in Imports \ {i} : r.slot \notin Drafted(k)
      /\ draft' = IF isNew THEN [draft EXCEPT ![i][r.slot] = r.value] ELSE draft
      /\ inserted' = [inserted EXCEPT ![i] = IF isNew THEN @ + 1 ELSE @]
      /\ next' = [next EXCEPT ![i] = @ + 1]
      /\ pc' = [pc EXCEPT ![i] = IF EndsStatement(i, next[i]) THEN "referencing" ELSE @]
      /\ UNCHANGED <<store, audit, asset, batch, update, share>>
  BY DEF Insert, committed, locks
<1>2. batch[i] \in NoaaBatches \cup OtherBatches /\ next[i] <= Len(batch[i]) /\ next[i] \in Nat \ {0}
  BY <1>1 DEF ImportIInv, CommandAgrees, Open, TypeOK
<1>3. /\ DOMAIN batch[i] = 1..Len(batch[i]) /\ Len(batch[i]) \in Nat
      /\ \A n \in DOMAIN batch[i] : batch[i][n].slot \in Slots /\ batch[i][n].value \in Values
  BY <1>2, BatchFacts
<1>4. next[i] \in DOMAIN batch[i] /\ r.slot \in Slots /\ r.value \in Values
  BY <1>2, <1>3
<1>5. Drafted(i)' = (IF isNew THEN Drafted(i) \cup {r.slot} ELSE Drafted(i))
  BY <1>1, <1>4 DEF Drafted, TypeOK
<1>6. \A k \in Imports \ {i} : Drafted(k)' = Drafted(k)
  BY <1>1 DEF Drafted, TypeOK
<1>7. /\ pc'[i] \in {"inserting", "referencing"}
      /\ pc'[i] = "inserting" => ~EndsStatement(i, next[i])
      /\ next'[i] = next[i] + 1
      /\ inserted'[i] = IF isNew THEN inserted[i] + 1 ELSE inserted[i]
  BY <1>1 DEF TypeOK
<1>8. TypeOK'
  <2>1. draft' \in [Imports -> [Slots -> Values \cup {NoValue}]]
    BY <1>1, <1>4 DEF TypeOK
  <2>2. pc' \in [Imports -> {"idle", "ended"} \cup Open] /\ pc'[i] \in Open
    BY <1>1, <1>7 DEF TypeOK, Open
  <2>3. next' \in [Imports -> Nat \ {0}] /\ inserted' \in [Imports -> Nat]
    BY <1>1 DEF TypeOK
  <2>4. \A k \in Imports : pc'[k] \notin Open => Drafted(k)' = {} /\ share'[k] = {}
    BY <1>1, <1>6, <2>2 DEF TypeOK
  <2>5. \A k, l \in Imports : k # l => Drafted(k)' \cap Drafted(l)' = {}
    <3>1. \A k, l \in Imports : k # l => Drafted(k) \cap Drafted(l) = {}
      BY DEF TypeOK
    <3>2. \A k \in Imports \ {i} : Drafted(i)' \cap Drafted(k)' = {}
      BY <1>1, <1>5, <1>6, <3>1
    <3>. QED
      BY <1>6, <3>1, <3>2
  <2>6. \A a \in Assets : update'[a] # NoImport => pc'[update'[a]] \in Open
    BY <1>1, <2>2 DEF TypeOK
  <2>. QED
    BY <1>1, <2>1, <2>2, <2>3, <2>4, <2>5, <2>6 DEF TypeOK
<1>9. ASSUME NEW k \in Imports \ {i} PROVE ImportIInv(k)'
  <2>1. UNCHANGED <<pc[k], batch[k], next[k], draft[k], inserted[k], audit[k], share[k]>>
    BY <1>1, <1>9 DEF TypeOK
  <2>. QED
    BY <1>1, <1>9, <2>1, ImportFrame DEF IInv
<1>10. CommandAgrees(i)'
  <2>1. pc'[i] = "inserting" => next'[i] <= Len(batch'[i])
    BY <1>1, <1>2, <1>3, <1>7 DEF EndsStatement
  <2>. QED
    BY <1>1, <1>7, <2>1 DEF ImportIInv, CommandAgrees, Open
<1>11. DraftAgrees(i)'
  <2>1. \A n \in DOMAIN batch[i] :
          n < next[i] => batch[i][n].slot \in Drafted(i) \/ store[batch[i][n].slot] # NoRow
    BY <1>1 DEF ImportIInv, DraftAgrees, Open
  <2>2. IsFiniteSet(Drafted(i)) /\ inserted[i] = Cardinality(Drafted(i))
    BY <1>1 DEF ImportIInv, DraftAgrees, Open
  <2>3. IsFiniteSet(Drafted(i)') /\ inserted'[i] = Cardinality(Drafted(i)')
    <3>1. CASE isNew
      <4>1. Drafted(i)' = Drafted(i) \cup {r.slot} /\ r.slot \notin Drafted(i)
        BY <1>5, <3>1
      <4>2. IsFiniteSet(Drafted(i)') /\ Cardinality(Drafted(i)') = Cardinality(Drafted(i)) + 1
        <5>1. IsFiniteSet(Drafted(i))
          BY <2>2
        <5>2. /\ IsFiniteSet(Drafted(i) \cup {r.slot})
              /\ Cardinality(Drafted(i) \cup {r.slot}) = Cardinality(Drafted(i)) + 1
          BY ONLY <4>1, <5>1, FS_AddElement, Zenon
        <5>. QED
          BY <4>1, <5>2
      <4>. QED
        BY <1>7, <2>2, <3>1, <4>2
    <3>2. CASE ~isNew
      BY <1>5, <1>7, <2>2, <3>2
    <3>. QED
      BY <3>1, <3>2
  <2>4. ASSUME NEW s \in Drafted(i)'
        PROVE  /\ store'[s] = NoRow
               /\ \E n \in DOMAIN batch[i] :
                    /\ n < next'[i] /\ batch[i][n].slot = s /\ batch[i][n].value = draft'[i][s]
                    /\ \A k \in 1..(n - 1) : batch[i][k].slot # s
    <3>1. CASE s \in Drafted(i)
      <4>1. draft'[i][s] = draft[i][s] /\ store[s] = NoRow
        BY <1>1, <3>1 DEF TypeOK, ImportIInv, DraftAgrees
      <4>2. PICK n \in DOMAIN batch[i] :
              /\ n < next[i] /\ batch[i][n].slot = s /\ batch[i][n].value = draft[i][s]
              /\ \A k \in 1..(n - 1) : batch[i][k].slot # s
        BY <3>1 DEF ImportIInv, DraftAgrees
      <4>3. n < next'[i]
        BY <1>2, <1>3, <1>7, <4>2
      <4>. QED
        BY <1>1, <4>1, <4>2, <4>3
    <3>2. CASE s \notin Drafted(i)
      <4>1. isNew /\ s = r.slot
        BY <1>5, <3>2
      <4>2. draft'[i][s] = r.value
        BY <1>1, <1>4, <4>1 DEF TypeOK
      <4>3. \A k \in 1..(next[i] - 1) : batch[i][k].slot # s
        BY <1>2, <1>3, <2>1, <4>1
      <4>4. next[i] < next'[i]
        BY <1>2, <1>7
      <4>. QED
        BY <1>1, <1>4, <4>1, <4>2, <4>3, <4>4
    <3>. QED
      BY <3>1, <3>2
  <2>5. ASSUME NEW n \in DOMAIN batch[i], n < next'[i]
        PROVE  batch[i][n].slot \in Drafted(i)' \/ store'[batch[i][n].slot] # NoRow
    <3>1. n < next[i] \/ n = next[i]
      BY <1>2, <1>3, <1>7, <2>5
    <3>. QED
      BY <1>1, <1>5, <2>1, <3>1
  <2>. QED
    BY <1>1, <2>3, <2>4, <2>5 DEF DraftAgrees
<1>12. AuditCounts(i)'
  BY <1>1 DEF ImportIInv, AuditCounts, Brought
<1>13. ASSUME i \in Noaa PROVE HoldsAsset(i)' /\ PassedAgree(i)' /\ IngestedIsStored(i)'
  <2>1. HoldsAsset(i)'
    BY <1>1, <1>7, <1>13 DEF ImportIInv, HoldsAsset, Open
  <2>2. ASSUME NEW n \in DOMAIN batch[i], n < next[i], ~Agrees(i, batch[i][n])
        PROVE  (n - 1) \div Chunk = (next[i] - 1) \div Chunk
    <3>1. (n - 1) \div Chunk = (next[i] - 2) \div Chunk /\ ~EndsStatement(i, next[i] - 1)
      BY <1>1, <1>13, <2>2 DEF ImportIInv, PassedAgree, Open
    <3>2. next[i] - 1 \in Nat \ {0} /\ (next[i] - 1) % Chunk # 0
      BY <1>2, <1>3, <2>2, <3>1 DEF EndsStatement
    <3>3. (next[i] - 1) \div Chunk = ((next[i] - 1) - 1) \div Chunk
      BY <3>2, StatementGoesOn
    <3>4. (next[i] - 1) - 1 = next[i] - 2
      BY <1>2
    <3>. QED
      BY <3>1, <3>3, <3>4
  <2>3. ASSUME NEW n \in DOMAIN batch[i], n < next'[i], ~Agrees(i, batch[i][n])'
        PROVE  (n - 1) \div Chunk = (next'[i] - 2) \div Chunk
    <3>1. ~Agrees(i, batch[i][n])
      BY <1>1, <1>5, <2>3 DEF Agrees
    <3>2. next'[i] - 2 = next[i] - 1
      BY <1>2, <1>7
    <3>3. n < next[i] \/ n = next[i]
      BY <1>2, <1>3, <1>7, <2>3
    <3>. QED
      BY <2>2, <3>1, <3>2, <3>3
  <2>4. next'[i] - 1 = next[i]
    BY <1>2, <1>7
  <2>5. pc'[i] = "inserting" => ~EndsStatement(i, next[i] - 1)'
    BY <1>1, <1>7, <2>4 DEF EndsStatement
  <2>6. PassedAgree(i)'
    BY <1>1, <1>7, <2>3, <2>5 DEF PassedAgree, EndsStatement
  <2>7. IngestedIsStored(i)'
    BY <1>1, <1>13 DEF ImportIInv, IngestedIsStored
  <2>. QED
    BY <2>1, <2>6, <2>7
<1>. QED
  BY <1>8, <1>9, <1>10, <1>11, <1>12, <1>13 DEF IInv, ImportIInv

(* Between its INSERTs a transaction only moves on and takes key locks. *)
LEMMA BetweenInserts ==
  ASSUME IInv, NEW i \in Imports, NEW q \in Open \ {"locking"}, pc[i] \in {"referencing", "comparing"},
         pc' = [pc EXCEPT ![i] = q],
         \/ UNCHANGED share
         \/ \E a \in Assets : share' = [share EXCEPT ![i] = @ \cup {a}],
         UNCHANGED <<store, audit, asset, batch, next, draft, inserted, update>>,
         q = "comparing" => i \in Noaa,
         q = "inserting" => next[i] <= Len(batch[i]),
         q = "finishing" => next[i] > Len(batch[i]),
         i \in Noaa => PassedAgree(i)'
  PROVE  IInv'
<1>. TypeOK /\ ImportIInv(i)
  BY DEF IInv
<1>1. \A k \in Imports : Drafted(k)' = Drafted(k)
  BY DEF Drafted
<1>2. pc'[i] = q /\ pc[i] \in Open \ {"locking"}
  BY DEF TypeOK, Open
<1>3. TypeOK'
  <2>1. share' \in [Imports -> SUBSET Assets] /\ \A k \in Imports \ {i} : share'[k] = share[k]
    <3>1. CASE UNCHANGED share
      BY <3>1 DEF TypeOK
    <3>2. ASSUME NEW a \in Assets, share' = [share EXCEPT ![i] = @ \cup {a}]
          PROVE  share' \in [Imports -> SUBSET Assets] /\ \A k \in Imports \ {i} : share'[k] = share[k]
      <4>1. share \in [Imports -> SUBSET Assets]
        BY DEF TypeOK
      <4>2. share[i] \cup {a} \in SUBSET Assets
        BY <4>1
      <4>. QED
        BY <3>2, <4>1, <4>2
    <3>. QED
      BY <3>1, <3>2
  <2>2. pc' \in [Imports -> {"idle", "ended"} \cup Open]
    BY DEF TypeOK
  <2>3. \A k \in Imports : pc'[k] \notin Open => Drafted(k)' = {} /\ share'[k] = {}
    BY <1>1, <1>2, <2>1 DEF TypeOK
  <2>. QED
    BY <1>1, <1>2, <2>1, <2>2, <2>3 DEF TypeOK
<1>4. ASSUME NEW k \in Imports \ {i} PROVE ImportIInv(k)'
  <2>1. UNCHANGED <<pc[k], batch[k], next[k], draft[k], inserted[k], audit[k], share[k]>>
    BY <1>4 DEF TypeOK
  <2>. QED
    BY <1>4, <2>1, ImportFrame DEF IInv
<1>5. CommandAgrees(i)'
  BY <1>2 DEF ImportIInv, CommandAgrees, Open
<1>6. DraftAgrees(i)'
  BY <1>1, <1>2 DEF ImportIInv, DraftAgrees
<1>7. AuditCounts(i)'
  BY DEF ImportIInv, AuditCounts, Brought
<1>8. i \in Noaa => HoldsAsset(i)'
  BY <1>2 DEF ImportIInv, HoldsAsset
<1>9. i \in Noaa => IngestedIsStored(i)'
  BY DEF ImportIInv, IngestedIsStored
<1>. QED
  BY <1>3, <1>4, <1>5, <1>6, <1>7, <1>8, <1>9 DEF IInv, ImportIInv

LEMMA ReferencePreserves ==
  ASSUME IInv, NEW i \in Imports, NEW a \in Assets, Reference(i, a)
  PROVE  IInv'
<1>1. pc[i] = "referencing" /\ UNCHANGED <<store, audit, pc, asset, batch, next, draft, inserted, update>>
      /\ share' = [share EXCEPT ![i] = @ \cup {a}]
  BY DEF Reference, committed, progress
<1>2. pc' = [pc EXCEPT ![i] = "referencing"] /\ "referencing" \in Open \ {"locking"}
  BY <1>1 DEF IInv, TypeOK, Open
<1>3. i \in Noaa => PassedAgree(i)'
  BY <1>1 DEF IInv, ImportIInv, PassedAgree, Agrees, Drafted, EndsStatement
<1>. QED
  BY <1>1, <1>2, <1>3, BetweenInserts

LEMMA EndStatementPreserves ==
  ASSUME IInv, NEW i \in Imports, EndStatement(i)
  PROVE  IInv'
<1> DEFINE q == IF i \in Noaa THEN "comparing" ELSE Onwards(i)
<1>1. pc[i] = "referencing" /\ UNCHANGED <<store, audit, asset, batch, next, draft, inserted, update, share>>
      /\ pc' = [pc EXCEPT ![i] = q]
  BY DEF EndStatement, committed, locks
<1>2. next[i] \in Nat /\ Len(batch[i]) \in Nat
  BY DEF IInv, TypeOK
<1>3. /\ q \in Open \ {"locking"}
      /\ q = "comparing" => i \in Noaa
      /\ q = "inserting" => next[i] <= Len(batch[i])
      /\ q = "finishing" => next[i] > Len(batch[i])
  BY <1>2 DEF Onwards, Open
<1>4. ASSUME i \in Noaa PROVE PassedAgree(i)'
  <2>1. pc'[i] = "comparing"
    BY <1>1, <1>4 DEF IInv, TypeOK
  <2>. QED
    BY <1>1, <1>4, <2>1 DEF IInv, ImportIInv, PassedAgree, Agrees, Drafted, Open
<1>. HIDE DEF q
<1>. QED
  BY <1>1, <1>3, <1>4, BetweenInserts

(* The records of the statement are the only ones that were still to be    *)
(* compared.                                                               *)
LEMMA ComparePreserves ==
  ASSUME IInv, NEW i \in Imports, Compare(i)
  PROVE  IInv'
<1>1. pc[i] = "comparing" /\ UNCHANGED <<store, audit, asset, batch, next, draft, inserted, update, share>>
      /\ pc' = [pc EXCEPT ![i] = Onwards(i)] /\ \A n \in InStatement(i) : Agrees(i, batch[i][n])
  BY DEF Compare, committed, locks
<1>2. next[i] \in Nat /\ Len(batch[i]) \in Nat
  BY DEF IInv, TypeOK
<1>3. /\ Onwards(i) \in Open \ {"locking"}
      /\ Onwards(i) # "comparing"
      /\ Onwards(i) = "inserting" => next[i] <= Len(batch[i])
      /\ Onwards(i) = "finishing" => next[i] > Len(batch[i])
  BY <1>2 DEF Onwards, Open
<1>4. ASSUME i \in Noaa PROVE PassedAgree(i)'
  <2>1. \A n \in DOMAIN batch[i] : n < next[i] => Agrees(i, batch[i][n])
    BY <1>1, <1>4 DEF IInv, ImportIInv, PassedAgree, InStatement, Open
  <2>2. \A n \in DOMAIN batch[i] : Agrees(i, batch[i][n]) => Agrees(i, batch[i][n])'
    BY <1>1 DEF Agrees, Drafted
  <2>. QED
    BY <1>1, <2>1, <2>2 DEF PassedAgree
<1>. QED
  BY <1>1, <1>3, <1>4, BetweenInserts

-----------------------------------------------------------------------------
(* The end of an import. *)

(* Locks and rows are given up; only rows of i itself have become stored.  *)
LEMMA LeavePreserves ==
  ASSUME IInv, NEW i \in Imports, pc[i] \in Open, Leave(i),
         store' \in [Slots -> Row \cup {NoRow}],
         \A s \in Slots :
           store'[s] # store[s] => s \in Drafted(i) /\ store'[s] \in Row /\ store'[s].import = i,
         audit' \in [Imports -> [status : {"absent", "validated", "ingested"}, inserted : Nat]],
         \A k \in Imports \ {i} : audit'[k] = audit[k],
         AuditCounts(i)', i \in Noaa => IngestedIsStored(i)'
  PROVE  IInv'
<1>. TypeOK /\ ImportIInv(i)
  BY DEF IInv
<1>1. /\ pc' = [pc EXCEPT ![i] = "ended"]
      /\ draft' = [draft EXCEPT ![i] = NoDraft]
      /\ update' = [a \in Assets |-> IF update[a] = i THEN NoImport ELSE update[a]]
      /\ share' = [share EXCEPT ![i] = {}]
      /\ UNCHANGED <<asset, batch, next, inserted>>
  BY DEF Leave
<1>2. pc'[i] = "ended" /\ Drafted(i)' = {} /\ share'[i] = {} /\ "ended" \notin Open
  BY <1>1 DEF TypeOK, Drafted, NoDraft, Open
<1>3. \A k \in Imports \ {i} : Drafted(k)' = Drafted(k)
  BY <1>1 DEF Drafted, TypeOK
<1>4. \A a \in Assets : update'[a] # i
  BY <1>1
<1>5. TypeOK'
  <2>1. draft' \in [Imports -> [Slots -> Values \cup {NoValue}]]
    BY <1>1 DEF TypeOK, NoDraft
  <2>2. pc' \in [Imports -> {"idle", "ended"} \cup Open]
    BY <1>1 DEF TypeOK
  <2>3. update' \in [Assets -> Noaa \cup {NoImport}] /\ share' \in [Imports -> SUBSET Assets]
    BY <1>1 DEF TypeOK
  <2>4. \A k \in Imports : pc'[k] \notin Open => Drafted(k)' = {} /\ share'[k] = {}
    BY <1>1, <1>2, <1>3 DEF TypeOK
  <2>5. \A k, l \in Imports : k # l => Drafted(k)' \cap Drafted(l)' = {}
    <3>1. \A k, l \in Imports : k # l => Drafted(k) \cap Drafted(l) = {}
      BY DEF TypeOK
    <3>. QED
      BY <1>2, <1>3, <3>1
  <2>6. \A a \in Assets : update'[a] # NoImport => pc'[update'[a]] \in Open
    BY <1>1 DEF TypeOK, Imports
  <2>. QED
    BY <1>1, <2>1, <2>2, <2>3, <2>4, <2>5, <2>6 DEF TypeOK
<1>6. ASSUME NEW k \in Imports \ {i} PROVE ImportIInv(k)'
  <2>1. UNCHANGED <<pc[k], batch[k], next[k], draft[k], inserted[k], audit[k], share[k]>>
    BY <1>1, <1>6 DEF TypeOK
  <2>2. \A a \in Assets : update'[a] = k <=> update[a] = k
    BY <1>1, <1>6
  <2>3. \A s \in Slots :
          store'[s] # store[s] =>
            store[s] = NoRow /\ store'[s] # NoRow /\ store'[s].import # k /\ s \notin Drafted(k)
    BY <1>6, RowAssumption DEF TypeOK, ImportIInv, DraftAgrees
  <2>. QED
    BY <1>1, <1>6, <2>1, <2>2, <2>3, ImportFrame DEF IInv
<1>7. CommandAgrees(i)'
  BY <1>2 DEF CommandAgrees
<1>8. DraftAgrees(i)'
  BY <1>2, FS_EmptySet DEF DraftAgrees
<1>9. HoldsAsset(i)' /\ PassedAgree(i)'
  BY <1>2, <1>4 DEF HoldsAsset, PassedAgree
<1>. QED
  BY <1>5, <1>6, <1>7, <1>8, <1>9 DEF IInv, ImportIInv

LEMMA RollbackPreserves ==
  ASSUME IInv, NEW i \in Imports, pc[i] \in Open, Rollback(i)
  PROVE  IInv'
<1>1. Leave(i) /\ UNCHANGED <<store, audit, batch>>
  BY DEF Rollback, Leave, committed
<1>2. AuditCounts(i)'
  BY <1>1 DEF IInv, ImportIInv, AuditCounts, Brought
<1>3. i \in Noaa => IngestedIsStored(i)'
  BY <1>1 DEF IInv, ImportIInv, IngestedIsStored
<1>4. /\ store \in [Slots -> Row \cup {NoRow}]
      /\ audit \in [Imports -> [status : {"absent", "validated", "ingested"}, inserted : Nat]]
  BY DEF IInv, TypeOK
<1>. QED
  BY <1>1, <1>2, <1>3, <1>4, LeavePreserves

(* What a transaction has drafted when it commits is what is new of its    *)
(* batch.                                                                  *)
LEMMA DraftedIsNew ==
  ASSUME IInv, NEW i \in Imports, pc[i] = "finishing"
  PROVE  /\ batch[i] \in IF i \in Noaa THEN NoaaBatches ELSE OtherBatches
         /\ \A n \in DOMAIN batch[i] : n < next[i] /\ batch[i][n].slot \in Slots
         /\ Drafted(i) = Atomic!New(batch[i])
         /\ \A s \in Drafted(i) : draft[i][s] = Atomic!ValueIn(batch[i], s)
<1>. TypeOK /\ ImportIInv(i)
  BY DEF IInv
<1>1. batch[i] \in IF i \in Noaa THEN NoaaBatches ELSE OtherBatches
  BY DEF ImportIInv, CommandAgrees, Open
<1>2. next[i] > Len(batch[i]) /\ next[i] \in Nat
  BY DEF ImportIInv, CommandAgrees, TypeOK
<1>3. \A n \in DOMAIN batch[i] : n < next[i] /\ batch[i][n].slot \in Slots
  BY <1>1, <1>2, BatchFacts
<1>4. \A n \in DOMAIN batch[i] : batch[i][n].slot \in Drafted(i) \/ store[batch[i][n].slot] # NoRow
  BY <1>3 DEF ImportIInv, DraftAgrees, Open
<1>5. ASSUME NEW s \in Drafted(i)
      PROVE  /\ store[s] = NoRow /\ s \in Atomic!SlotsOf(batch[i])
             /\ draft[i][s] = Atomic!ValueIn(batch[i], s)
  <2>1. store[s] = NoRow
    BY <1>5 DEF ImportIInv, DraftAgrees
  <2>2. PICK n \in DOMAIN batch[i] :
          /\ n < next[i] /\ batch[i][n].slot = s /\ batch[i][n].value = draft[i][s]
          /\ \A k \in 1..(n - 1) : batch[i][k].slot # s
    BY <1>5 DEF ImportIInv, DraftAgrees
  <2>3. batch[i] \in NoaaBatches \cup OtherBatches
    BY <1>1
  <2>4. Atomic!ValueIn(batch[i], s) = batch[i][n].value
    BY <2>2, <2>3, FirstRecord
  <2>. QED
    BY <2>1, <2>2, <2>4 DEF Atomic!SlotsOf
<1>6. Drafted(i) = Atomic!New(batch[i])
  BY <1>4, <1>5 DEF Atomic!New, Atomic!SlotsOf
<1>. QED
  BY <1>1, <1>3, <1>5, <1>6

(* Every record of a NOAA batch has been compared when it is committed.    *)
LEMMA CommitPreserves ==
  ASSUME IInv, NEW i \in Imports, Commit(i)
  PROVE  IInv'
<1>. TypeOK /\ ImportIInv(i)
  BY DEF IInv
<1>1. /\ pc[i] = "finishing" /\ Leave(i)
      /\ store' = [s \in Slots |-> IF s \in Drafted(i) THEN [import |-> i, value |-> draft[i][s]]
                                   ELSE store[s]]
      /\ audit' = [audit EXCEPT ![i] = Atomic!Ingested(inserted[i])]
  BY DEF Commit
<1>2. pc[i] \in Open
  BY <1>1 DEF Open
<1>3. \A s \in Drafted(i) : s \in Slots /\ draft[i][s] \in Values
  BY DEF Drafted, TypeOK
<1>4. /\ \A s \in Drafted(i) :
           /\ store'[s] \in Row /\ store'[s] # NoRow
           /\ store'[s].import = i /\ store'[s].value = draft[i][s]
      /\ \A s \in Slots \ Drafted(i) : store'[s] = store[s]
  <2>1. ASSUME NEW s \in Drafted(i)
        PROVE  /\ store'[s] \in Row /\ store'[s] # NoRow
               /\ store'[s].import = i /\ store'[s].value = draft[i][s]
    <3>1. store'[s] = [import |-> i, value |-> draft[i][s]]
      BY <1>1, <1>3
    <3>. QED
      BY <1>3, <3>1, RowAssumption DEF Row
  <2>. QED
    BY <1>1, <2>1
<1>5. store' \in [Slots -> Row \cup {NoRow}]
  BY <1>1, <1>4 DEF TypeOK
<1>6. audit' \in [Imports -> [status : {"absent", "validated", "ingested"}, inserted : Nat]]
  BY <1>1 DEF TypeOK, Atomic!Ingested
<1>7. audit'[i].inserted = inserted[i] /\ \A k \in Imports \ {i} : audit'[k] = audit[k]
  BY <1>1 DEF TypeOK, Atomic!Ingested
<1>8. AuditCounts(i)'
  <2>1. audit[i].inserted = 0
    BY <1>1 DEF ImportIInv, CommandAgrees, Atomic!NoAudit
  <2>2. Brought(i) = {}
    BY <2>1, FS_EmptySet DEF ImportIInv, AuditCounts
  <2>3. Brought(i)' = Drafted(i)
    <3>1. Drafted(i) \subseteq Brought(i)'
      BY <1>3, <1>4 DEF Brought
    <3>2. \A s \in Brought(i)' : s \notin Drafted(i) => s \in Brought(i)
      BY <1>4 DEF Brought
    <3>. QED
      BY <2>2, <3>1, <3>2
  <2>4. IsFiniteSet(Drafted(i)) /\ inserted[i] = Cardinality(Drafted(i))
    BY <1>2 DEF ImportIInv, DraftAgrees
  <2>. QED
    BY <1>7, <2>3, <2>4 DEF AuditCounts
<1>9. ASSUME i \in Noaa PROVE IngestedIsStored(i)'
  <2>1. batch[i] \in NoaaBatches /\ \A n \in DOMAIN batch[i] : n < next[i] /\ batch[i][n].slot \in Slots
    BY <1>1, <1>9, DraftedIsNew
  <2>2. ASSUME NEW n \in DOMAIN batch[i]
        PROVE  Atomic!SameObservation(store'[batch[i][n].slot], batch[i][n])
    <3>1. Agrees(i, batch[i][n])
      BY <1>1, <1>9, <2>1 DEF ImportIInv, PassedAgree, Open
    <3>2. CASE batch[i][n].slot \in Drafted(i)
      <4>1. PICK m \in DOMAIN batch[i] :
              batch[i][m].slot = batch[i][n].slot /\ batch[i][m].value = draft[i][batch[i][n].slot]
        BY <3>2 DEF ImportIInv, DraftAgrees
      <4>2. m = n
        BY <2>1, <4>1, BatchAssumption
      <4>. QED
        BY <1>4, <1>9, <3>2, <4>1, <4>2 DEF Atomic!SameObservation
    <3>3. CASE batch[i][n].slot \notin Drafted(i)
      BY <1>4, <2>1, <3>1, <3>3 DEF Agrees
    <3>. QED
      BY <3>2, <3>3
  <2>3. batch' = batch
    BY <1>1 DEF Leave
  <2>. QED
    BY <2>2, <2>3 DEF IngestedIsStored
<1>10. \A s \in Slots :
         store'[s] # store[s] => s \in Drafted(i) /\ store'[s] \in Row /\ store'[s].import = i
  BY <1>4
<1>. QED
  <2>1. /\ Leave(i) /\ AuditCounts(i)'
        /\ i \in Noaa => IngestedIsStored(i)'
        /\ \A k \in Imports \ {i} : audit'[k] = audit[k]
    BY <1>1, <1>7, <1>8, <1>9
  <2>. QED
    BY <1>2, <1>5, <1>6, <1>10, <2>1, LeavePreserves

-----------------------------------------------------------------------------
(* The steps together. *)

LEMMA NextIInv == IInv /\ [Next]_vars => IInv'
<1>. SUFFICES ASSUME IInv, [Next]_vars PROVE IInv'
  OBVIOUS
<1>1. CASE UNCHANGED vars
  <2>1. UNCHANGED <<store, audit, pc, asset, batch, next, draft, inserted, update, share>>
    BY <1>1 DEF vars, committed, progress, locks
  <2>2. TypeOK'
    BY <2>1 DEF IInv, TypeOK, Drafted
  <2>3. ASSUME NEW k \in Imports PROVE ImportIInv(k)'
    BY <2>1, ImportFrame DEF IInv
  <2>. QED
    BY <2>2, <2>3 DEF IInv
<1>2. ASSUME NEW i \in Noaa, NEW a \in Assets, NEW b \in NoaaBatches, BeginNoaa(i, a, b)
      PROVE  IInv'
  BY <1>2, BeginPreserves DEF BeginNoaa, Imports
<1>3. ASSUME NEW i \in Others, Preview(i) PROVE IInv'
  BY <1>3, PreviewPreserves
<1>4. ASSUME NEW i \in Others, NEW b \in OtherBatches, BeginOther(i, b) PROVE IInv'
  BY <1>4, BeginPreserves DEF BeginOther, Imports
<1>5. ASSUME NEW i \in Imports, LockAsset(i) PROVE IInv'
  BY <1>5, LockPreserves
<1>6. ASSUME NEW i \in Imports, Insert(i) PROVE IInv'
  BY <1>6, InsertPreserves
<1>7. ASSUME NEW i \in Imports, EndStatement(i) PROVE IInv'
  BY <1>7, EndStatementPreserves
<1>8. ASSUME NEW i \in Imports, Compare(i) PROVE IInv'
  BY <1>8, ComparePreserves
<1>9. ASSUME NEW i \in Imports, Differ(i) PROVE IInv'
  BY <1>9, RollbackPreserves DEF Differ, Open
<1>10. ASSUME NEW i \in Imports, Commit(i) PROVE IInv'
  BY <1>10, CommitPreserves
<1>11. ASSUME NEW i \in Imports, NEW a \in Assets, Reference(i, a) PROVE IInv'
  BY <1>11, ReferencePreserves
<1>12. ASSUME NEW i \in Imports, Fail(i) PROVE IInv'
  BY <1>12, RollbackPreserves DEF Fail
<1>13. ASSUME NEW i \in Imports, BreakDeadlock(i) PROVE IInv'
  <2>1. pc[i] \in Open /\ Rollback(i)
    BY <1>13 DEF BreakDeadlock, Circle, WaitsFor, Open
  <2>. QED
    BY <2>1, RollbackPreserves
<1>. QED
  BY <1>1, <1>2, <1>3, <1>4, <1>5, <1>6, <1>7, <1>8, <1>9, <1>10, <1>11, <1>12, <1>13
  DEF Next, Step

-----------------------------------------------------------------------------
(* Theorems *)

(* Every state the imports reach satisfies the invariant: each transaction *)
(* has drafted what was new of the records it has passed, and a NOAA       *)
(* import has compared all but those of its present statement              *)
(* (persist_batch).                                                        *)
THEOREM ImportsInvariance == Spec => []IInv
BY InitIInv, NextIInv, PTL DEF Spec

(* The count of every audit row is the number of observations with its id, *)
(* and a NOAA batch reported as ingested is stored as it came, however the *)
(* statements of concurrent imports interleave and fail.                   *)
THEOREM ImportAuditsAreTrue == Spec => []AuditsAreTrue
<1>1. IInv => AuditsAreTrue
  BY DEF IInv, ImportIInv, AuditCounts, Brought, IngestedIsStored, AuditsAreTrue, InsertedIsExact,
    NoaaIsStored, Imports
<1>. QED
  BY <1>1, ImportsInvariance, PTL

(* NOAA imports never wait for each other in a circle: each takes its one  *)
(* asset FOR UPDATE before it holds anything else, and while it holds it   *)
(* the others have no row of that asset.                                   *)
THEOREM NoaaImportsDoNotDeadlock == Spec => []DeadlocksNeedOthers
<1>1. ASSUME IInv, NEW S \in SUBSET Noaa, Circle(S) PROVE FALSE
  <2>. TypeOK /\ \A i \in Noaa : i \in Imports /\ ImportIInv(i)
    BY <1>1 DEF IInv, Imports
  <2>1. ASSUME NEW i \in S, NEW k \in S, WaitsFor(i, k) PROVE pc[i] = "locking"
    <3>1. CASE pc[i] = "inserting" /\ batch[i][next[i]].slot \in Drafted(k)
      <4>1. next[i] \in DOMAIN batch[i]
        BY <3>1 DEF ImportIInv, CommandAgrees, TypeOK
      <4>2. update[AssetOf[batch[i][next[i]].slot]] = i
        BY <3>1, <4>1 DEF ImportIInv, HoldsAsset, Open
      <4>3. pc[k] \in Open \ {"locking"}
        BY <3>1 DEF ImportIInv, CommandAgrees, TypeOK
      <4>4. update[AssetOf[batch[i][next[i]].slot]] = k
        BY <3>1, <4>3 DEF ImportIInv, HoldsAsset, DraftAgrees
      <4>. QED
        BY <2>1, <4>2, <4>4 DEF WaitsFor
    <3>2. CASE pc[i] = "referencing" /\ \E a \in Unreferenced(i) : update[a] = k
      <4>1. PICK s \in Drafted(i) : update[AssetOf[s]] = k
        BY <3>2 DEF Unreferenced
      <4>2. update[AssetOf[s]] = i
        BY <3>2 DEF ImportIInv, HoldsAsset, DraftAgrees, Open
      <4>. QED
        BY <2>1, <4>1, <4>2 DEF WaitsFor
    <3>. QED
      BY <2>1, <3>1, <3>2 DEF WaitsFor
  <2>2. PICK i \in S, k \in S : WaitsFor(i, k)
    BY <1>1 DEF Circle
  <2>3. pc[i] = "locking" /\ pc[k] = "locking"
    BY <1>1, <2>1, <2>2 DEF Circle
  <2>4. asset[i] \in Assets
    BY <2>3 DEF ImportIInv, HoldsAsset, Open
  <2>5. update[asset[i]] # k /\ share[k] = {}
    BY <2>3, <2>4 DEF ImportIInv, HoldsAsset, CommandAgrees
  <2>. QED
    BY <2>2, <2>3, <2>5 DEF WaitsFor
<1>2. IInv => DeadlocksNeedOthers
  BY <1>1 DEF DeadlocksNeedOthers
<1>. QED
  BY <1>2, ImportsInvariance, PTL

(* An import takes effect at its COMMIT and as a whole: it stores what is  *)
(* new of its batch at that moment, with the count of its audit row.       *)
LEMMA CommitIsAtomic ==
  ASSUME IInv, NEW i \in Imports, Commit(i)
  PROVE  Atomic!Next
<1>. TypeOK /\ ImportIInv(i)
  BY DEF IInv
<1>1. /\ pc[i] = "finishing"
      /\ store' = [s \in Slots |-> IF s \in Drafted(i) THEN [import |-> i, value |-> draft[i][s]]
                                   ELSE store[s]]
      /\ audit' = [audit EXCEPT ![i] = Atomic!Ingested(inserted[i])]
  BY DEF Commit
<1>2. /\ batch[i] \in IF i \in Noaa THEN NoaaBatches ELSE OtherBatches
      /\ \A n \in DOMAIN batch[i] : n < next[i]
      /\ Drafted(i) = Atomic!New(batch[i])
      /\ \A s \in Drafted(i) : draft[i][s] = Atomic!ValueIn(batch[i], s)
  BY <1>1, DraftedIsNew
<1>3. audit[i] = Atomic!NoAudit /\ inserted[i] = Cardinality(Atomic!New(batch[i]))
  BY <1>1, <1>2 DEF ImportIInv, CommandAgrees, DraftAgrees, Open
<1>4. store' = [s \in Slots |-> IF s \in Atomic!New(batch[i])
                                THEN [import |-> i, value |-> Atomic!ValueIn(batch[i], s)]
                                ELSE store[s]]
  BY <1>1, <1>2
<1>5. Atomic!Bring(i, batch[i])
  <2>1. audit' = [audit EXCEPT ![i] = Atomic!Ingested(Cardinality(Atomic!New(batch[i])))]
    BY <1>1, <1>3
  <2>2. Atomic!Cardinality(Atomic!New(batch[i])) = Cardinality(Atomic!New(batch[i]))
    BY DEF Atomic!Cardinality, Cardinality
  <2>. QED
    BY <1>3, <1>4, <2>1, <2>2 DEF Atomic!Bring
<1>6. CASE i \in Noaa
  <2>1. \A n \in DOMAIN batch[i] : Agrees(i, batch[i][n])
    BY <1>1, <1>2, <1>6 DEF ImportIInv, PassedAgree, Open
  <2>2. Atomic!ImportNoaa(i, batch[i])
    BY <1>2, <1>5, <2>1 DEF Atomic!ImportNoaa, Agrees
  <2>. QED
    BY <1>2, <1>6, <2>2 DEF Atomic!Next
<1>7. CASE i \notin Noaa
  BY <1>2, <1>5, <1>7 DEF Atomic!Next, Imports
<1>. QED
  BY <1>6, <1>7

(* Imports that run at the same time take effect one after the other, as a *)
(* whole or not at all, and a NOAA import only where what is stored agrees *)
(* with it.                                                                *)
THEOREM ImportsImplementAtomicImport == Spec => ImplementsAtomicImport
<1>1. Init => Atomic!Init
  BY DEF Init
<1>2. ASSUME IInv, [Next]_vars PROVE [Atomic!Next]_<<store, audit>>
  <2>1. CASE UNCHANGED vars
    BY <2>1 DEF vars, committed
  <2>2. ASSUME NEW i \in Others, Preview(i) PROVE Atomic!Next
    <3>1. audit[i] = Atomic!NoAudit
      BY <1>2, <2>2 DEF Preview, IInv, ImportIInv, CommandAgrees, Imports
    <3>2. Atomic!Preview(i)
      BY <2>2, <3>1 DEF Preview, Atomic!Preview
    <3>. QED
      BY <2>2, <3>2 DEF Atomic!Next
  <2>3. ASSUME NEW i \in Imports, Commit(i) PROVE Atomic!Next
    BY <1>2, <2>3, CommitIsAtomic
  <2>4. ASSUME NEW i, NEW a, NEW b,
               \/ BeginNoaa(i, a, b) \/ BeginOther(i, b) \/ LockAsset(i) \/ Insert(i)
               \/ EndStatement(i) \/ Compare(i) \/ Differ(i) \/ Reference(i, a) \/ Fail(i)
               \/ BreakDeadlock(i)
        PROVE  UNCHANGED <<store, audit>>
    BY <2>4 DEF BeginNoaa, BeginOther, Begin, LockAsset, Insert, EndStatement, Compare, Differ,
      Reference, Fail, BreakDeadlock, Rollback, committed
  <2>. QED
    BY <1>2, <2>1, <2>2, <2>3, <2>4 DEF Next, Step
<1>. QED
  BY <1>1, <1>2, ImportsInvariance, PTL DEF Spec, ImplementsAtomicImport, Atomic!Spec

-----------------------------------------------------------------------------
(* A run of a NOAA command: what the variables of GhcnhCommands can be. *)

Phases == {"next", "attempt", "connecting", "waiting", "reading", "retry", "chunk", "tell",
           "ended"}

Downloading == {"attempt", "connecting", "waiting", "reading", "retry", "chunk"}

Chunks == [year : Int, rows : Seq(SourceRows), served : Seq(SourceRows)]

LastYear == (End - 1) \div Year

CommandTypes ==
  /\ request \in Requests /\ task \in Tasks /\ phase \in Phases
  /\ attempt \in Nat \ {0} /\ elapsed \in Nat /\ waited \in Nat /\ patience \in Nat
  /\ header \in RetryHeaders \cup {Absent}
  /\ stream \in Seq(SourceRows) /\ body \in Seq(SourceRows) /\ served \in Seq(SourceRows)
  /\ chunks \in Seq(Chunks)
  /\ files \in [ReportFiles -> {"old", "new"}] /\ temp \in [ReportFiles -> {"none", "whole"}]

(* How much of the budget is gone, and what the pending operation can add. *)
ClockAgrees ==
  /\ phase \in {"next", "attempt", "chunk"} => elapsed < Budget
  /\ phase \in {"connecting", "waiting", "reading"} => waited <= patience /\ patience <= Timeout
  /\ phase = "connecting" => elapsed - waited + patience <= Budget
  /\ phase = "waiting" => elapsed - waited <= Budget
  /\ phase = "reading" => elapsed - waited <= Budget + Timeout
  /\ elapsed <= Budget + 2 * Timeout

(* What was received and what is still to come are what the server sends. *)
BodyAgrees ==
  /\ phase = "reading" => body \o stream = served
  /\ phase = "chunk" => body = served
  /\ phase \in {"reading", "chunk"} => Len(body) <= MaxBytes

(* The files acquired are those of the first years of the window. *)
YearsAgree ==
  /\ ChunksAreWhole
  /\ NextYear <= LastYear + 1
  /\ phase \in Downloading => NextYear <= LastYear

(* after[n] is the batch of the first n of the files cs. *)
BatchesAfter(cs, window, after) ==
  after = [n \in 0..Len(cs) |->
             IF n = 0 THEN EmptyBatch
             ELSE ParseChunk(after[n - 1], cs[n].rows, cs[n].year, window)]

BatchAgrees ==
  /\ \E after : BatchesAfter(chunks, Window, after) /\ gathered = after[Len(chunks)]
  /\ task.command # "validate" => ~gathered.failed

(* Until there is an outcome nothing is stored, told or written; then what *)
(* is told of an import is what was stored.                                *)
OutcomeAgrees ==
  /\ phase \notin {"tell", "ended"} =>
       stored = <<>> /\ report = "none" /\ \A f \in ReportFiles : temp[f] = "none"
  /\ phase = "tell" => report # "none"
  /\ phase # "ended" => exit = -1
  /\ task.command = "import" => report \in {"none", "failed", "ingested"}
  /\ report = "ingested" => stored # <<>>
  /\ stored # <<>> => stored = <<gathered>> /\ task.command = "import" /\ Missing = {}
  /\ exit = 0 => /\ report \notin {"none", "failed"}
                 /\ \A f \in task.reports : files[f] = "new"

(* A temporary file is the one of the report that is being written. *)
FilesAgree ==
  /\ files["markdown"] = "new" /\ "json" \in task.reports => files["json"] = "new"
  /\ temp["markdown"] = "whole" => ~Waiting("json")
  /\ \A f \in ReportFiles : temp[f] = "whole" => Waiting(f)
  /\ phase = "ended" /\ exit # 9 => \A f \in ReportFiles : temp[f] = "none"

CommandIInv ==
  /\ CommandTypes /\ ClockAgrees /\ BodyAgrees /\ YearsAgree /\ BatchAgrees
  /\ OutcomeAgrees /\ FilesAgree


(* What the assumptions say of the limits, of a window and of its files. *)
LEMMA CommandLimits ==
  /\ Timeout \in Nat \ {0} /\ Budget \in Nat \ {0} /\ Attempts \in Nat \ {0}
  /\ MaxBytes \in Nat \ {0} /\ Year \in Nat \ {0}
BY LimitsAssumption, LengthAssumption

HIDE ImportAssumption
USE CommandLimits

(* The steps that wait for the network, and the steps that follow them. *)
Fetch ==
  \/ BeginYear \/ LoadFixture \/ StartAttempt \/ Connected
  \/ Refused \/ Answered \/ ReceivePart \/ EndOfBody \/ Interrupted \/ Retry \/ Tick

Conclude ==
  \/ Describe \/ Persist \/ Finish \/ Kill
  \/ \E f \in ReportFiles : SaveReport(f) \/ ReplaceReport(f) \/ CannotSave(f)

LEMMA CommandSteps ==
  ASSUME [CommandNext]_commandVars
  PROVE  Fetch \/ Parse \/ Conclude \/ UNCHANGED commandVars
BY DEF CommandNext, CommandStep, Fetch, Conclude

(* The steps that conclude a command touch nothing of the downloads. *)
LEMMA ConcludeFrame ==
  ASSUME Conclude
  PROVE  /\ UNCHANGED <<request, task, download, parsed>>
         /\ phase' \in {"tell", "ended"}
         /\ phase # "ended"
<1>1. CASE Describe BY <1>1 DEF Describe, Acquired, Goto
<1>2. CASE Persist BY <1>2 DEF Persist, Acquired, Goto
<1>3. CASE Finish BY <1>3 DEF Finish, Goto
<1>4. CASE Kill BY <1>4 DEF Kill, Goto
<1>5. ASSUME NEW f \in ReportFiles, SaveReport(f) \/ ReplaceReport(f) \/ CannotSave(f)
      PROVE  /\ UNCHANGED <<request, task, download, parsed>>
             /\ phase' \in {"tell", "ended"}
             /\ phase # "ended"
  BY <1>5 DEF SaveReport, ReplaceReport, CannotSave, Turn, Goto
<1> QED BY <1>1, <1>2, <1>3, <1>4, <1>5 DEF Conclude

(* A fetch leaves what was parsed and what came of it alone. *)
LEMMA FetchFrame ==
  ASSUME Fetch
  PROVE  /\ UNCHANGED <<request, task, parsed, stored, filing>>
         /\ phase \in {"next"} \cup Downloading
         /\ \/ phase' \in Downloading /\ UNCHANGED report
            \/ phase' = "tell" /\ report' = "failed"
<1>1. CASE BeginYear BY <1>1 DEF BeginYear, Goto, outputs, Downloading
<1>2. CASE LoadFixture BY <1>2 DEF LoadFixture, Goto, Abort, Downloading
<1>3. CASE StartAttempt BY <1>3 DEF StartAttempt, Goto, Abort, Downloading
<1>4. CASE Connected BY <1>4 DEF Connected, Goto, outputs, Downloading
<1>5. CASE Refused BY <1>5 DEF Refused, Goto, Abort, Downloading
<1>6. CASE Answered BY <1>6 DEF Answered, Goto, outputs, Downloading
<1>7. CASE ReceivePart BY <1>7 DEF ReceivePart, Goto, Abort, Downloading
<1>8. CASE EndOfBody BY <1>8 DEF EndOfBody, Goto, Abort, Downloading
<1>9. CASE Interrupted BY <1>9 DEF Interrupted, Goto, Abort, Downloading
<1>10. CASE Retry BY <1>10 DEF Retry, Goto, Abort, Downloading
<1>11. CASE Tick BY <1>11 DEF Tick, outputs, Downloading
<1> QED BY <1>1, <1>2, <1>3, <1>4, <1>5, <1>6, <1>7, <1>8, <1>9, <1>10, <1>11 DEF Fetch

(* A wait before the next attempt, if it is made, takes some ticks. *)
LEMMA DelayIsTime ==
  ASSUME CommandTypes, Affordable
  PROVE  Delay \in Nat
<1>1. CASE header = Absent
  <2>1. Smaller(attempt, 5) \in 1..5
    BY DEF CommandTypes, Smaller
  <2>2. \A k \in 1..5 : <<1, 2, 4, 8, 16>>[k] \in Nat
    OBVIOUS
  <2> QED BY <1>1, <2>1, <2>2 DEF Delay
<1>2. CASE header # Absent
  BY <1>2, LimitsAssumption DEF CommandTypes, Affordable, Delay
<1> QED BY <1>1, <1>2

LEMMA RequestFacts ==
  ASSUME CommandTypes
  PROVE  /\ Start \in Nat /\ End \in Nat /\ Start < End
         /\ FirstYear \in Int /\ LastYear \in Int /\ FirstYear <= LastYear
         /\ Years = FirstYear..LastYear
         /\ Len(chunks) \in Nat /\ NextYear = FirstYear + Len(chunks)
         /\ NextYear \in Int
         /\ \A y \in Years : \A rows \in Upstream[y] : rows \in Seq(SourceRows)
<1>1. request \in [start : Nat, end : Nat] /\ request.start < request.end
  BY LimitsAssumption DEF CommandTypes
<1>2. Start \in Nat /\ End \in Nat /\ Start < End
  BY <1>1 DEF Start, End
<1>3. \A a \in Nat : a \div Year \in Int
  OBVIOUS
<1>4. \A a, b \in Nat : a <= b => a \div Year <= b \div Year
  OBVIOUS
<1>5. End - 1 \in Nat /\ Start <= End - 1
  BY <1>2
<1>6. FirstYear \in Int /\ LastYear \in Int /\ FirstYear <= LastYear
  BY <1>2, <1>3, <1>4, <1>5 DEF FirstYear, LastYear
<1>7. Len(chunks) \in Nat
  BY DEF CommandTypes
<1>8. \A y \in Years : \A rows \in Upstream[y] : rows \in Seq(SourceRows)
  BY UpstreamAssumption DEF CommandTypes, Years, Start, End
<1> QED BY <1>2, <1>6, <1>7, <1>8 DEF NextYear, Years, FirstYear, LastYear

LEMMA CommandTypesInit ==
  ASSUME CommandInit
  PROVE  CommandIInv
<1>1. CommandTypes
  <2>1. chunks \in Seq(Chunks) /\ stream \in Seq(SourceRows) /\ body \in Seq(SourceRows)
        /\ served \in Seq(SourceRows)
    BY DEF CommandInit
  <2> QED BY <2>1 DEF CommandInit, CommandTypes, Phases
<1>2. ClockAgrees /\ BodyAgrees /\ OutcomeAgrees /\ FilesAgree
  BY DEF CommandInit, ClockAgrees, BodyAgrees, OutcomeAgrees, FilesAgree, ReportFiles, Waiting
<1>3. YearsAgree
  <2>1. DOMAIN chunks = {} /\ Len(chunks) = 0
    BY DEF CommandInit
  <2>2. NextYear <= LastYear
    BY <1>1, <2>1, RequestFacts
  <2> QED BY <2>1, <2>2, <1>1, RequestFacts DEF CommandInit, YearsAgree, ChunksAreWhole
<1>4. BatchAgrees
  <2> DEFINE a == [n \in 0..0 |-> EmptyBatch]
  <2>1. a = [n \in 0..0 |->
               IF n = 0 THEN EmptyBatch
               ELSE ParseChunk(a[n - 1], chunks[n].rows, chunks[n].year, Window)]
    OBVIOUS
  <2>2. Len(chunks) = 0 /\ gathered = EmptyBatch /\ EmptyBatch = a[0]
    BY DEF CommandInit
  <2>3. ~EmptyBatch.failed
    BY DEF EmptyBatch
  <2> HIDE DEF a
  <2>4. BatchesAfter(chunks, Window, a)
    BY <2>1, <2>2 DEF BatchesAfter
  <2> QED BY <2>2, <2>3, <2>4 DEF BatchAgrees
<1> QED BY <1>1, <1>2, <1>3, <1>4 DEF CommandIInv

(* While a year is missing, it is the next one. *)
LEMMA MissingYears ==
  ASSUME CommandTypes, YearsAgree, Missing # {}
  PROVE  NextYear <= LastYear
<1>1. PICK y \in Years : y \notin {chunks[n].year : n \in DOMAIN chunks}
  BY DEF Missing
<1>2. DOMAIN chunks = 1..Len(chunks) /\ Len(chunks) \in Nat
  BY DEF CommandTypes
<1>3. /\ FirstYear \in Int /\ LastYear \in Int /\ y \in Int /\ y >= FirstYear /\ y <= LastYear
      /\ NextYear = FirstYear + Len(chunks)
  BY <1>1, RequestFacts
<1>4. ASSUME y < NextYear
      PROVE  FALSE
  <2> DEFINE n == y - FirstYear + 1
  <2>1. n \in 1..Len(chunks) /\ FirstYear + n - 1 = y
    BY <1>2, <1>3, <1>4
  <2> HIDE DEF n
  <2>2. chunks[n].year = y
    BY <1>2, <2>1 DEF YearsAgree, ChunksAreWhole
  <2> QED BY <1>1, <1>2, <2>1, <2>2
<1> QED BY <1>2, <1>3, <1>4

(* What a server sends is a sequence of rows. *)
LEMMA SentRows ==
  ASSUME CommandTypes, YearsAgree, phase \in Downloading \/ Missing # {},
         NEW rows \in Upstream[NextYear]
  PROVE  rows \in Seq(SourceRows)
<1>1. NextYear <= LastYear
  BY MissingYears DEF YearsAgree
<1>2. NextYear \in Years
  BY <1>1, RequestFacts
<1> QED BY <1>2, RequestFacts

LEMMA FetchKeepsTypes ==
  ASSUME CommandTypes, YearsAgree, Fetch
  PROVE  CommandTypes'
<1> USE DEF CommandTypes, Phases
<1>1. CASE BeginYear
  BY <1>1 DEF BeginYear, Goto, outputs, filing, parsed
<1>2. CASE LoadFixture
  <2>1. \A rows \in Upstream[NextYear] : rows \in Seq(SourceRows)
    BY <1>2, SentRows DEF LoadFixture
  <2> QED BY <1>2, <2>1 DEF LoadFixture, Abort, Goto, filing, parsed
<1>3. CASE StartAttempt
  BY <1>3 DEF StartAttempt, Abort, Goto, Smaller, filing, parsed
<1>4. CASE Connected
  BY <1>4 DEF Connected, Goto, outputs, filing, parsed
<1>5. CASE Refused
  BY <1>5 DEF Refused, Abort, Goto, filing, parsed
<1>6. CASE Answered
  <2>1. \A rows \in Upstream[NextYear] : rows \in Seq(SourceRows)
    BY <1>6, SentRows DEF Answered, Downloading
  <2>2. <<>> \in Seq(SourceRows)
    OBVIOUS
  <2> QED BY <1>6, <2>1, <2>2 DEF Answered, Goto, outputs, filing, parsed
<1>7. CASE ReceivePart
  <2>1. stream # <<>> => /\ Head(stream) \in SourceRows
                         /\ Tail(stream) \in Seq(SourceRows)
                         /\ Append(body, Head(stream)) \in Seq(SourceRows)
    OBVIOUS
  <2> QED BY <1>7, <2>1 DEF ReceivePart, Abort, Goto, filing, parsed
<1>8. CASE EndOfBody
  BY <1>8 DEF EndOfBody, Abort, Goto, download, filing, parsed
<1>9. CASE Interrupted
  BY <1>9 DEF Interrupted, Abort, Goto, download, filing, parsed
<1>10. CASE Retry
  <2>1. Affordable => Delay \in Nat
    BY DelayIsTime
  <2> HIDE DEF CommandTypes
  <2>2. Affordable => elapsed + Delay \in Nat
    BY <2>1 DEF CommandTypes
  <2> QED BY <1>10, <2>2 DEF CommandTypes, Retry, Abort, Goto, filing, parsed
<1>11. CASE Tick
  BY <1>11 DEF Tick, outputs, filing, parsed
<1> QED BY <1>1, <1>2, <1>3, <1>4, <1>5, <1>6, <1>7, <1>8, <1>9, <1>10, <1>11 DEF Fetch

LEMMA ConcludeKeepsTypes ==
  ASSUME CommandTypes, Conclude
  PROVE  CommandTypes'
<1>1. files' \in [ReportFiles -> {"old", "new"}] /\ temp' \in [ReportFiles -> {"none", "whole"}]
  <2>1. CASE Describe \/ Persist \/ Finish \/ Kill
    BY <2>1 DEF Describe, Persist, Finish, Kill, CommandTypes, filing
  <2>2. ASSUME NEW f \in ReportFiles, SaveReport(f) \/ ReplaceReport(f) \/ CannotSave(f)
        PROVE  files' \in [ReportFiles -> {"old", "new"}]
               /\ temp' \in [ReportFiles -> {"none", "whole"}]
    BY <2>2 DEF SaveReport, ReplaceReport, CannotSave, Turn, CommandTypes
  <2> QED BY <2>1, <2>2 DEF Conclude
<1> QED BY <1>1, ConcludeFrame DEF CommandTypes, Phases, download, parsed

(* The checksum, the year and the rows of a file that is taken, or nothing. *)
LEMMA ParseCases ==
  ASSUME Parse
  PROVE  /\ phase = "chunk"
         /\ UNCHANGED <<request, task, download, stored, filing>>
         /\ \/ phase' = "tell" /\ report' = "failed" /\ UNCHANGED parsed
            \/ /\ Len(chunks) = 0 => task.pin \in {NoPin, body}
               /\ chunks' = Append(chunks, [year |-> NextYear, rows |-> body, served |-> served])
               /\ gathered' = ParseChunk(gathered, body, NextYear, Window)
               /\ task.command # "validate" => ~gathered'.failed
               /\ phase' = "next" /\ UNCHANGED report
BY DEF Parse, Abort, Goto, parsed

LEMMA ParseKeepsTypes ==
  ASSUME CommandTypes, YearsAgree, Parse
  PROVE  CommandTypes'
<1>1. [year |-> NextYear, rows |-> body, served |-> served] \in Chunks
  BY RequestFacts DEF CommandTypes, Chunks
<1>2. Append(chunks, [year |-> NextYear, rows |-> body, served |-> served]) \in Seq(Chunks)
  BY <1>1 DEF CommandTypes
<1>3. chunks' \in Seq(Chunks) /\ phase' \in Phases
  BY <1>2, ParseCases DEF CommandTypes, Phases, parsed
<1> QED BY <1>3, ParseCases DEF CommandTypes, download, filing

-----------------------------------------------------------------------------
(* Time. *)

LEMMA ClockSteps ==
  ASSUME CommandTypes, ClockAgrees, [CommandNext]_commandVars
  PROVE  ClockAgrees'
<1> USE DEF ClockAgrees
<1>0. elapsed \in Nat /\ waited \in Nat /\ patience \in Nat /\ phase \in Phases
  BY DEF CommandTypes
<1>1. CASE BeginYear
  BY <1>0, <1>1 DEF BeginYear, Goto
<1>2. CASE LoadFixture
  BY <1>0, <1>2 DEF LoadFixture, Abort, Goto
<1>3. CASE StartAttempt
  BY <1>0, <1>3 DEF StartAttempt, Abort, Goto, Smaller
<1>4. CASE Connected
  BY <1>0, <1>4 DEF Connected, Goto
<1>5. CASE Refused
  BY <1>0, <1>5 DEF Refused, Abort, Goto
<1>6. CASE Answered
  BY <1>0, <1>6 DEF Answered, Goto
<1>7. CASE ReceivePart
  BY <1>0, <1>7 DEF ReceivePart, Abort, Goto
<1>8. CASE EndOfBody
  BY <1>0, <1>8 DEF EndOfBody, Abort, Goto, download
<1>9. CASE Interrupted
  BY <1>0, <1>9 DEF Interrupted, Abort, Goto, download
<1>10. CASE Retry
  <2>1. Affordable => Delay \in Nat /\ Delay < Budget - elapsed
    BY DelayIsTime DEF Affordable
  <2>2. Affordable => elapsed + Delay < Budget
    BY <1>0, <2>1
  <2>3. /\ phase = "retry"
        /\ (phase' = "tell" /\ elapsed' = elapsed)
             \/ (Affordable /\ phase' = "attempt" /\ elapsed' = elapsed + Delay)
    BY <1>10 DEF Retry, Abort, Goto
  <2> HIDE DEF Affordable, Delay
  <2> QED BY <1>0, <2>1, <2>2, <2>3
<1>11. CASE Tick
  BY <1>0, <1>11 DEF Tick
<1>12. CASE Parse
  BY <1>0, <1>12, ParseCases DEF download
<1>13. CASE Conclude
  BY <1>0, <1>13, ConcludeFrame DEF download
<1>14. CASE UNCHANGED commandVars
  BY <1>0, <1>14 DEF commandVars, download
<1> QED BY <1>1, <1>2, <1>3, <1>4, <1>5, <1>6, <1>7, <1>8, <1>9, <1>10, <1>11, <1>12, <1>13,
           <1>14, CommandSteps DEF Fetch

-----------------------------------------------------------------------------
(* Bytes and years. *)

(* Moving the head of a sequence to the end of what precedes it. *)
LEMMA MoveHead ==
  ASSUME NEW S, NEW a \in Seq(S), NEW b \in Seq(S), b # <<>>
  PROVE  /\ Append(a, Head(b)) \o Tail(b) = a \o b
         /\ Len(Append(a, Head(b))) = Len(a) + 1
<1>1. Len(b) \in Nat /\ Len(b) # 0 /\ Len(a) \in Nat
  OBVIOUS
<1>2. Head(b) \in S /\ Tail(b) \in Seq(S) /\ Len(Tail(b)) = Len(b) - 1
  BY <1>1
<1>3. Append(a, Head(b)) \in Seq(S) /\ Len(Append(a, Head(b))) = Len(a) + 1
  BY <1>2
<1> DEFINE l == Append(a, Head(b)) \o Tail(b)
           r == a \o b
<1>4. l \in Seq(S) /\ r \in Seq(S)
  BY <1>2, <1>3
<1>5. Len(l) = Len(a) + Len(b) /\ Len(r) = Len(a) + Len(b)
  BY <1>1, <1>2, <1>3
<1>6. ASSUME NEW k \in 1..Len(r)
      PROVE  l[k] = r[k]
  <2>1. k \in Nat /\ k >= 1 /\ k <= Len(a) + Len(b)
    BY <1>1, <1>5
  <2>2. CASE k <= Len(a)
    BY <1>1, <1>2, <1>3, <2>1, <2>2
  <2>3. CASE k = Len(a) + 1
    BY <1>1, <1>2, <1>3, <2>1, <2>3
  <2>4. CASE k > Len(a) + 1
    <3>1. l[k] = Tail(b)[k - (Len(a) + 1)]
      BY <1>1, <1>2, <1>3, <2>1, <2>4
    <3>2. Tail(b)[k - (Len(a) + 1)] = b[k - Len(a)]
      BY <1>1, <1>2, <2>1, <2>4
    <3> QED BY <1>1, <2>1, <2>4, <3>1, <3>2
  <2> QED BY <1>1, <2>1, <2>2, <2>3, <2>4
<1> HIDE DEF l, r
<1>7. l = r
  BY <1>4, <1>5, <1>6, SeqEqual
<1> QED BY <1>3, <1>7 DEF l, r

LEMMA BodySteps ==
  ASSUME CommandTypes, BodyAgrees, [CommandNext]_commandVars
  PROVE  BodyAgrees'
<1> USE DEF BodyAgrees
<1>1. CASE BeginYear
  BY <1>1 DEF BeginYear, Goto
<1>2. CASE LoadFixture
  BY <1>2 DEF LoadFixture, Abort, Goto
<1>3. CASE StartAttempt
  BY <1>3 DEF StartAttempt, Abort, Goto
<1>4. CASE Connected
  BY <1>4 DEF Connected, Goto
<1>5. CASE Refused
  BY <1>5 DEF Refused, Abort, Goto
<1>6. CASE Answered
  BY <1>6 DEF Answered, Goto
<1>7. CASE ReceivePart
  <2>1. stream # <<>> => /\ Append(body, Head(stream)) \o Tail(stream) = body \o stream
                         /\ Len(Append(body, Head(stream))) = Len(body) + 1
    BY MoveHead DEF CommandTypes
  <2>2. Len(body) \in Nat
    BY DEF CommandTypes
  <2>3. /\ phase = "reading" /\ UNCHANGED served
        /\ \/ phase' = "tell"
           \/ /\ phase' = "reading" /\ stream # <<>> /\ ~(Len(body) >= MaxBytes)
              /\ body' = Append(body, Head(stream)) /\ stream' = Tail(stream)
    BY <1>7 DEF ReceivePart, Abort, Goto
  <2>4. CASE phase' = "tell"
    BY <2>4
  <2>5. CASE /\ phase' = "reading" /\ stream # <<>> /\ ~(Len(body) >= MaxBytes)
             /\ body' = Append(body, Head(stream)) /\ stream' = Tail(stream)
    <3>1. body' \o stream' = body \o stream
      BY <2>1, <2>5
    <3>2. Len(body') = Len(body) + 1
      BY <2>1, <2>5
    <3>3. Len(body') <= MaxBytes
      BY <2>2, <2>5, <3>2
    <3> QED BY <2>3, <2>5, <3>1, <3>3
  <2> QED BY <2>3, <2>4, <2>5
<1>8. CASE EndOfBody
  <2>1. body \o <<>> = body
    BY DEF CommandTypes
  <2> QED BY <1>8, <2>1 DEF EndOfBody, Abort, Goto, download
<1>9. CASE Interrupted
  BY <1>9 DEF Interrupted, Abort, Goto, download
<1>10. CASE Retry
  BY <1>10 DEF Retry, Abort, Goto
<1>11. CASE Tick
  BY <1>11 DEF Tick
<1>12. CASE Parse
  BY <1>12, ParseCases DEF download
<1>13. CASE Conclude
  BY <1>13, ConcludeFrame DEF download
<1>14. CASE UNCHANGED commandVars
  BY <1>14 DEF commandVars, download
<1> QED BY <1>1, <1>2, <1>3, <1>4, <1>5, <1>6, <1>7, <1>8, <1>9, <1>10, <1>11, <1>12, <1>13,
           <1>14, CommandSteps DEF Fetch

(* A further file is the one of the next year of the window. *)
LEMMA YearsSteps ==
  ASSUME CommandTypes, BodyAgrees, YearsAgree, [CommandNext]_commandVars
  PROVE  YearsAgree'
<1>0. Len(chunks) \in Nat /\ DOMAIN chunks = 1..Len(chunks)
  BY DEF CommandTypes
<1>1. CASE UNCHANGED <<request, task, chunks>>
           /\ (phase' \in Downloading => NextYear <= LastYear)
  BY <1>1 DEF YearsAgree, ChunksAreWhole, NextYear, LastYear, FirstYear, Start, End
<1>2. CASE Fetch
  <2>1. UNCHANGED <<request, task, chunks>>
    BY <1>2, FetchFrame DEF parsed
  <2>2. NextYear <= LastYear
    <3>1. CASE phase \in Downloading
      BY <3>1 DEF YearsAgree
    <3>2. CASE phase = "next"
      <4>1. Missing # {}
        BY <1>2, <3>2 DEF Fetch, BeginYear, LoadFixture, StartAttempt, Connected, Refused,
                          Answered, ReceivePart, EndOfBody, Interrupted, Retry, Tick
      <4> QED BY <4>1, MissingYears
    <3> QED BY <1>2, <3>1, <3>2, FetchFrame
  <2> QED BY <1>1, <2>1, <2>2
<1>3. CASE Conclude
  BY <1>1, <1>3, ConcludeFrame DEF parsed, Downloading
<1>4. CASE UNCHANGED commandVars
  BY <1>1, <1>4 DEF commandVars, parsed, YearsAgree
<1>5. CASE Parse
  <2>1. CASE UNCHANGED parsed
    BY <1>1, <1>5, <2>1, ParseCases DEF parsed, YearsAgree, Downloading
  <2>2. CASE /\ Len(chunks) = 0 => task.pin \in {NoPin, body}
             /\ chunks' = Append(chunks, [year |-> NextYear, rows |-> body, served |-> served])
    <3> DEFINE c == [year |-> NextYear, rows |-> body, served |-> served]
    <3>1. phase = "chunk" /\ phase' \in {"tell", "next"} /\ UNCHANGED <<request, task>>
      BY <1>5, ParseCases
    <3>2. c.rows = c.served /\ Len(c.rows) <= MaxBytes /\ c.year = FirstYear + Len(chunks)
      BY <3>1 DEF BodyAgrees, NextYear
    <3>3. /\ chunks' = Append(chunks, c) /\ Len(chunks') = Len(chunks) + 1
          /\ DOMAIN chunks' = 1..(Len(chunks) + 1)
          /\ chunks'[Len(chunks) + 1] = c
          /\ \A n \in 1..Len(chunks) : chunks'[n] = chunks[n]
      <4>1. c \in Chunks /\ chunks \in Seq(Chunks)
        BY RequestFacts DEF CommandTypes, Chunks
      <4> HIDE DEF c
      <4>2. chunks' = Append(chunks, c)
        BY <2>2 DEF c
      <4> QED BY <4>1, <4>2
    <3>4. c.rows = body
      OBVIOUS
    <3> HIDE DEF c
    <3>5. \A n \in 1..Len(chunks) : /\ chunks[n].year = FirstYear + n - 1
                                    /\ chunks[n].rows = chunks[n].served
                                    /\ Len(chunks[n].rows) <= MaxBytes
      BY <1>0 DEF YearsAgree, ChunksAreWhole
    <3>6. \A n \in 1..(Len(chunks) + 1) : n \in 1..Len(chunks) \/ n = Len(chunks) + 1
      BY <1>0
    <3>7. FirstYear' = FirstYear /\ LastYear' = LastYear /\ FirstYear \in Int /\ LastYear \in Int
      BY <3>1, RequestFacts DEF FirstYear, LastYear, Start, End
    <3>8. FirstYear + Len(chunks) = FirstYear + (Len(chunks) + 1) - 1
      BY <1>0, <3>7
    <3>9. \A n \in DOMAIN chunks' : /\ chunks'[n].year = FirstYear' + n - 1
                                    /\ chunks'[n].rows = chunks'[n].served
                                    /\ Len(chunks'[n].rows) <= MaxBytes
      BY <3>2, <3>3, <3>5, <3>6, <3>7, <3>8
    <3>10. task.pin \in {NoPin, chunks'[1].rows}
      <4>1. CASE Len(chunks) = 0
        BY <2>2, <3>3, <3>4, <4>1
      <4>2. CASE Len(chunks) # 0
        <5>1. 1 \in 1..Len(chunks) /\ chunks # <<>>
          BY <1>0, <4>2
        <5> QED BY <3>3, <5>1 DEF YearsAgree, ChunksAreWhole
      <4> QED BY <4>1, <4>2
    <3>11. NextYear <= LastYear
      BY <3>1 DEF YearsAgree, Downloading
    <3>12. NextYear' = NextYear + 1 /\ NextYear \in Int
      BY <1>0, <3>3, <3>7 DEF NextYear
    <3>13. NextYear' <= LastYear' + 1
      BY <3>7, <3>11, <3>12
    <3>14. ChunksAreWhole'
      BY <3>1, <3>9, <3>10 DEF ChunksAreWhole
    <3> QED BY <3>1, <3>13, <3>14 DEF YearsAgree, Downloading
  <2> QED BY <1>5, <2>1, <2>2, ParseCases
<1> QED BY <1>2, <1>3, <1>4, <1>5, CommandSteps

-----------------------------------------------------------------------------
(* The batch. *)

LEMMA BatchesAt ==
  ASSUME NEW cs, NEW w, NEW a, BatchesAfter(cs, w, a), NEW n \in 0..Len(cs)
  PROVE  a[n] = IF n = 0 THEN EmptyBatch ELSE ParseChunk(a[n - 1], cs[n].rows, cs[n].year, w)
<1> DEFINE g == [i \in 0..Len(cs) |->
                   IF i = 0 THEN EmptyBatch ELSE ParseChunk(a[i - 1], cs[i].rows, cs[i].year, w)]
<1>1. a = g
  BY DEF BatchesAfter
<1>2. g[n] = IF n = 0 THEN EmptyBatch ELSE ParseChunk(a[n - 1], cs[n].rows, cs[n].year, w)
  OBVIOUS
<1> HIDE DEF g
<1> QED BY <1>1, <1>2

(* One file more takes the batch one file further. *)
LEMMA BatchGrows ==
  ASSUME NEW cs \in Seq(Chunks), NEW w, NEW a, BatchesAfter(cs, w, a), NEW c \in Chunks
  PROVE  \E b : /\ BatchesAfter(Append(cs, c), w, b)
                /\ b[Len(cs) + 1] = ParseChunk(a[Len(cs)], c.rows, c.year, w)
<1> DEFINE m == Len(cs) + 1
           ds == Append(cs, c)
           b == [n \in 0..m |-> IF n < m THEN a[n] ELSE ParseChunk(a[m - 1], c.rows, c.year, w)]
<1>1. /\ m \in Nat /\ m - 1 = Len(cs) /\ Len(cs) \in Nat /\ m # 0 /\ Len(ds) = m /\ ds[m] = c
      /\ \A n \in 1..Len(cs) : ds[n] = cs[n]
  OBVIOUS
<1> HIDE DEF ds
<1>2. ASSUME NEW n \in 0..m
      PROVE  b[n] = IF n = 0 THEN EmptyBatch ELSE ParseChunk(b[n - 1], ds[n].rows, ds[n].year, w)
  <2>1. CASE n < m
    <3>1. n \in 0..Len(cs) /\ b[n] = a[n]
      BY <1>1, <2>1
    <3>2. a[n] = IF n = 0 THEN EmptyBatch ELSE ParseChunk(a[n - 1], cs[n].rows, cs[n].year, w)
      BY <3>1, BatchesAt
    <3>3. n # 0 => b[n - 1] = a[n - 1] /\ ds[n] = cs[n]
      BY <1>1, <2>1
    <3> HIDE DEF b
    <3> QED BY <3>1, <3>2, <3>3
  <2>2. CASE n = m
    <3>1. b[n] = ParseChunk(a[m - 1], c.rows, c.year, w)
      BY <2>2
    <3>2. m - 1 \in 0..m /\ m - 1 < m
      BY <1>1
    <3>3. b[m - 1] = a[m - 1]
      BY <3>2
    <3> HIDE DEF b
    <3> QED BY <1>1, <2>2, <3>1, <3>3
  <2> HIDE DEF m
  <2> QED BY <1>1, <2>1, <2>2
<1>3. b = [n \in 0..m |->
             IF n = 0 THEN EmptyBatch ELSE ParseChunk(b[n - 1], ds[n].rows, ds[n].year, w)]
  <2>1. b = [n \in 0..m |-> b[n]]
    OBVIOUS
  <2> HIDE DEF b
  <2> QED BY <1>2, <2>1
<1>4. b[m] = ParseChunk(a[m - 1], c.rows, c.year, w)
  BY <1>1
<1> HIDE DEF b
<1>5. BatchesAfter(ds, w, b)
  BY <1>1, <1>3 DEF BatchesAfter
<1> QED BY <1>1, <1>4, <1>5 DEF ds

(* A set of natural numbers has a smallest one. *)
LEMMA SmallestOf ==
  ASSUME NEW T, T \subseteq Nat, T # {}
  PROVE  \E n \in T : \A m \in T : n <= m
<1>1. PICK n \in T : \A m \in T : ~(<<m, n>> \in OpToRel(<, Nat))
  BY NatLessThanWellFounded, WFMin
<1>2. \A m \in T : ~(m < n)
  BY <1>1 DEF OpToRel
<1> QED BY <1>2

(* There is only one way to parse a sequence of files. *)
LEMMA BatchIsUnique ==
  ASSUME NEW cs \in Seq(Chunks), NEW w, NEW a, NEW b, BatchesAfter(cs, w, a), BatchesAfter(cs, w, b)
  PROVE  a[Len(cs)] = b[Len(cs)]
<1>0. Len(cs) \in Nat
  OBVIOUS
<1> DEFINE T == {n \in 0..Len(cs) : a[n] # b[n]}
<1>1. SUFFICES ASSUME T # {} PROVE FALSE
  BY <1>0
<1>2. PICK n \in T : \A j \in T : n <= j
  <2>1. T \subseteq Nat
    OBVIOUS
  <2> HIDE DEF T
  <2> QED BY <1>1, <2>1, SmallestOf
<1>3. n \in 0..Len(cs) /\ a[n] # b[n]
  BY <1>2
<1>4. /\ a[n] = IF n = 0 THEN EmptyBatch ELSE ParseChunk(a[n - 1], cs[n].rows, cs[n].year, w)
      /\ b[n] = IF n = 0 THEN EmptyBatch ELSE ParseChunk(b[n - 1], cs[n].rows, cs[n].year, w)
  BY <1>3, BatchesAt
<1>5. n # 0 => n - 1 \in 0..Len(cs) /\ ~(n <= n - 1)
  BY <1>0, <1>3
<1>6. n # 0 => a[n - 1] = b[n - 1]
  BY <1>2, <1>5
<1> QED BY <1>3, <1>4, <1>6

LEMMA BatchIsTheirs ==
  ASSUME NEW cs \in Seq(Chunks), NEW a, BatchesAfter(cs, Window, a)
  PROVE  ParseChunks(cs) = a[Len(cs)]
<1> DEFINE after == CHOOSE f : BatchesAfter(cs, Window, f)
<1>1. BatchesAfter(cs, Window, after)
  OBVIOUS
<1>2. ParseChunks(cs) = after[Len(cs)]
  BY DEF ParseChunks, BatchesAfter
<1> HIDE DEF after
<1> QED BY <1>1, <1>2, BatchIsUnique

LEMMA BatchSteps ==
  ASSUME CommandTypes, BatchAgrees, [CommandNext]_commandVars
  PROVE  BatchAgrees'
<1>1. CASE UNCHANGED <<request, task, chunks, gathered>>
  <2>1. PICK a : BatchesAfter(chunks, Window, a) /\ gathered = a[Len(chunks)]
    BY DEF BatchAgrees
  <2>2. (BatchesAfter(chunks, Window, a) /\ gathered = a[Len(chunks)])'
    BY <1>1, <2>1 DEF Window, Start, End
  <2>3. (\E after : BatchesAfter(chunks, Window, after) /\ gathered = after[Len(chunks)])'
    BY <2>2
  <2> QED BY <1>1, <2>3 DEF BatchAgrees
<1>2. CASE Fetch
  BY <1>1, <1>2, FetchFrame DEF parsed
<1>3. CASE Conclude
  BY <1>1, <1>3, ConcludeFrame DEF parsed
<1>4. CASE UNCHANGED commandVars
  BY <1>1, <1>4 DEF commandVars, parsed
<1>5. CASE Parse
  <2>1. CASE UNCHANGED parsed
    BY <1>1, <1>5, <2>1, ParseCases DEF parsed
  <2>2. CASE /\ chunks' = Append(chunks, [year |-> NextYear, rows |-> body, served |-> served])
             /\ gathered' = ParseChunk(gathered, body, NextYear, Window)
             /\ task.command # "validate" => ~gathered'.failed
    <3> DEFINE c == [year |-> NextYear, rows |-> body, served |-> served]
    <3>1. c \in Chunks /\ c.rows = body /\ c.year = NextYear
      BY RequestFacts DEF CommandTypes, Chunks
    <3>2. chunks' = Append(chunks, c)
      BY <2>2
    <3> HIDE DEF c
    <3>3. chunks \in Seq(Chunks) /\ Len(chunks') = Len(chunks) + 1
      BY <3>1, <3>2 DEF CommandTypes
    <3>4. PICK a : BatchesAfter(chunks, Window, a) /\ gathered = a[Len(chunks)]
      BY DEF BatchAgrees
    <3>5. PICK b : /\ BatchesAfter(chunks', Window, b)
                   /\ b[Len(chunks')] = ParseChunk(gathered, body, NextYear, Window)
      BY <3>1, <3>2, <3>3, <3>4, BatchGrows
    <3>6. UNCHANGED <<request, task>>
      BY <1>5, ParseCases
    <3>7. (\E after : BatchesAfter(chunks, Window, after) /\ gathered = after[Len(chunks)])'
      <4>1. gathered' = b[Len(chunks')]
        BY <2>2, <3>5
      <4>2. (BatchesAfter(chunks, Window, b) /\ gathered = b[Len(chunks)])'
        BY <3>5, <3>6, <4>1 DEF Window, Start, End
      <4> QED BY <4>2
    <3> QED BY <2>2, <3>6, <3>7 DEF BatchAgrees
  <2> QED BY <1>5, <2>1, <2>2, ParseCases
<1> QED BY <1>2, <1>3, <1>4, <1>5, CommandSteps

-----------------------------------------------------------------------------
(* The outcome. *)

(* Until the outcome, a step leaves it open or says that the command failed. *)
LEMMA OutcomeSteps ==
  ASSUME CommandTypes, YearsAgree, BatchAgrees, OutcomeAgrees, FilesAgree,
         [CommandNext]_commandVars
  PROVE  OutcomeAgrees'
<1> USE DEF OutcomeAgrees
<1>1. CASE Fetch
  <2>1. /\ UNCHANGED <<task, chunks, gathered, stored, files, temp, exit, request>>
        /\ phase \in {"next"} \cup Downloading
        /\ \/ phase' \in Downloading /\ UNCHANGED report
           \/ phase' = "tell" /\ report' = "failed"
    BY <1>1, FetchFrame DEF parsed, filing
  <2>2. phase \notin {"tell", "ended"} /\ phase' # "ended" /\ stored = <<>>
        /\ report = "none" /\ exit = -1
    BY <2>1 DEF Downloading
  <2> QED BY <2>1, <2>2 DEF Downloading
<1>2. CASE Parse
  <2>1. /\ UNCHANGED <<task, stored, files, temp, exit, request>>
        /\ phase = "chunk"
        /\ \/ phase' = "next" /\ UNCHANGED report
           \/ phase' = "tell" /\ report' = "failed"
    BY <1>2, ParseCases DEF parsed, filing
  <2>2. stored = <<>> /\ report = "none" /\ exit = -1
    BY <2>1
  <2> QED BY <2>1, <2>2
<1>3. CASE Describe
  BY <1>3 DEF Describe, Goto, Acquired, parsed, filing, Missing, Years, Start, End
<1>4. CASE Persist
  <2>1. /\ UNCHANGED <<request, task, chunks, gathered, files, temp, exit>>
        /\ task.command = "import" /\ Missing = {} /\ phase = "next" /\ phase' = "tell"
        /\ \/ stored' = <<gathered>> /\ report' \in {"ingested", "failed"}
           \/ stored' = <<>> /\ report' = "failed"
    BY <1>4 DEF Persist, Goto, Acquired, parsed, filing
  <2>2. Missing' = {}
    BY <2>1 DEF Missing, Years, Start, End
  <2>3. <<gathered>> # <<>> /\ exit = -1
    BY <2>1
  <2> QED BY <2>1, <2>2, <2>3
<1>5. CASE Finish
  BY <1>5 DEF Finish, Goto, parsed, Missing, Years, Start, End, CommandTypes
<1>6. CASE Kill
  BY <1>6 DEF Kill, Goto, parsed, Missing, Years, Start, End
<1>7. ASSUME NEW f \in ReportFiles, SaveReport(f) \/ ReplaceReport(f) \/ CannotSave(f)
      PROVE  OutcomeAgrees'
  <2>1. /\ UNCHANGED <<request, task, parsed, stored, report>>
        /\ phase = "tell"
        /\ (phase' = "tell" /\ exit' = exit) \/ (phase' = "ended" /\ exit' = 2)
    BY <1>7 DEF SaveReport, ReplaceReport, CannotSave, Turn, Goto
  <2> QED BY <2>1 DEF parsed, Missing, Years, Start, End
<1>8. CASE UNCHANGED commandVars
  BY <1>8 DEF commandVars, parsed, outputs, filing, Missing, Years, Start, End
<1> QED BY <1>1, <1>2, <1>3, <1>4, <1>5, <1>6, <1>7, <1>8, CommandSteps DEF Conclude

LEMMA FilesSteps ==
  ASSUME CommandTypes, OutcomeAgrees, FilesAgree, [CommandNext]_commandVars
  PROVE  FilesAgree'
<1>0. /\ files \in [ReportFiles -> {"old", "new"}] /\ temp \in [ReportFiles -> {"none", "whole"}]
      /\ ReportFiles = {"json", "markdown"}
  BY DEF CommandTypes, ReportFiles
<1> HIDE DEF ReportFiles
<1> USE DEF FilesAgree, Waiting
<1>1. CASE Fetch
  BY <1>1, FetchFrame DEF filing, Downloading
<1>2. CASE Parse
  BY <1>2, ParseCases DEF filing
<1>3. CASE Describe
  BY <1>3 DEF Describe, Goto, filing
<1>4. CASE Persist
  BY <1>4 DEF Persist, Goto, filing
<1>5. CASE Finish
  BY <1>0, <1>5 DEF Finish, Goto
<1>6. CASE Kill
  BY <1>6 DEF Kill, Goto
<1>7. ASSUME NEW f \in ReportFiles, SaveReport(f)
      PROVE  FilesAgree'
  BY <1>0, <1>7 DEF SaveReport, Turn
<1>8. ASSUME NEW f \in ReportFiles, ReplaceReport(f)
      PROVE  FilesAgree'
  BY <1>0, <1>8 DEF ReplaceReport
<1>9. ASSUME NEW f \in ReportFiles, CannotSave(f)
      PROVE  FilesAgree'
  BY <1>0, <1>9 DEF CannotSave, Turn, Goto
<1>10. CASE UNCHANGED commandVars
  BY <1>10 DEF commandVars, outputs, filing
<1> QED BY <1>1, <1>2, <1>3, <1>4, <1>5, <1>6, <1>7, <1>8, <1>9, <1>10, CommandSteps DEF Conclude

-----------------------------------------------------------------------------
(* All that the variables of a run keep to, whatever the server sends. *)
THEOREM CommandInvariance == CommandSpec => []CommandIInv
<1>1. CommandInit => CommandIInv
  BY CommandTypesInit
<1>2. CommandIInv /\ [CommandNext]_commandVars => CommandIInv'
  <2> SUFFICES ASSUME CommandIInv, [CommandNext]_commandVars
               PROVE  CommandIInv'
    OBVIOUS
  <2> USE DEF CommandIInv
  <2>1. CommandTypes'
    <3>1. CASE UNCHANGED commandVars
      BY <3>1 DEF CommandTypes, commandVars, download, parsed, outputs, filing
    <3> QED BY <3>1, CommandSteps, FetchKeepsTypes, ParseKeepsTypes, ConcludeKeepsTypes
  <2>2. ClockAgrees' BY ClockSteps
  <2>3. BodyAgrees' BY BodySteps
  <2>4. YearsAgree' BY YearsSteps
  <2>5. BatchAgrees' BY BatchSteps
  <2>6. OutcomeAgrees' BY OutcomeSteps
  <2>7. FilesAgree' BY FilesSteps
  <2> QED BY <2>1, <2>2, <2>3, <2>4, <2>5, <2>6, <2>7
<1> QED BY <1>1, <1>2, PTL DEF CommandSpec

(* iter_chunks and download_chunk: a file that is parsed came whole from   *)
(* one response, within the byte limit, is the pinned one if one is pinned,*)
(* and is of the next year, however often the transfer broke off before.   *)
THEOREM FilesArriveWhole == CommandSpec => []ChunksAreWhole
<1>1. CommandIInv => ChunksAreWhole
  BY DEF CommandIInv, YearsAgree
<1> QED BY <1>1, CommandInvariance, PTL

(* download_chunk: whatever the server does, a file takes its budget and   *)
(* at most the timeouts of two operations, and none is accepted beyond it. *)
THEOREM DownloadsAreBounded == CommandSpec => []BudgetHolds
<1>1. CommandIInv => BudgetHolds
  BY DEF CommandIInv, ClockAgrees, BudgetHolds
<1> QED BY <1>1, CommandInvariance, PTL

(* When no year is missing, there is one file for every year. *)
LEMMA OneFilePerYear ==
  ASSUME CommandTypes, YearsAgree, Missing = {}
  PROVE  Cardinality(Years) = Len(chunks)
<1>1. DOMAIN chunks = 1..Len(chunks) /\ Len(chunks) \in Nat
  BY DEF CommandTypes
<1>2. PICK n \in DOMAIN chunks : chunks[n].year = LastYear
  BY RequestFacts DEF Missing
<1>3. LastYear = FirstYear + n - 1
  BY <1>2 DEF YearsAgree, ChunksAreWhole
<1>4. /\ FirstYear \in Int /\ LastYear \in Int /\ Years = FirstYear..LastYear
      /\ FirstYear + Len(chunks) <= LastYear + 1
  BY RequestFacts DEF YearsAgree
<1>5. LastYear - FirstYear + 1 = Len(chunks) /\ FirstYear <= LastYear
  BY <1>1, <1>2, <1>3, <1>4
<1>6. Cardinality(FirstYear..LastYear) = LastYear - FirstYear + 1
  BY <1>4, <1>5, FS_Interval
<1> QED BY <1>4, <1>5, <1>6

(* run of both commands: what is stored is the batch of every year, parsed *)
(* in their order and without a conflict, an import that exits with 0 has  *)
(* stored it, and no report file is torn.                                  *)
THEOREM OutcomesAreTold == CommandSpec => []OutcomeIsTold
<1>1. CommandIInv => OutcomeIsTold
  <2> SUFFICES ASSUME CommandIInv PROVE OutcomeIsTold
    OBVIOUS
  <2> USE DEF CommandIInv
  <2>1. ASSUME stored # <<>>
        PROVE  /\ task.command = "import" /\ Missing = {}
               /\ Cardinality(Years) = Len(chunks)
               /\ stored = <<ParseChunks(chunks)>>
               /\ ~stored[1].failed
    <3>1. stored = <<gathered>> /\ task.command = "import" /\ Missing = {}
      BY <2>1 DEF OutcomeAgrees
    <3>2. PICK a : BatchesAfter(chunks, Window, a) /\ gathered = a[Len(chunks)]
      BY DEF BatchAgrees
    <3>3. gathered = ParseChunks(chunks)
      BY <3>2, BatchIsTheirs DEF CommandTypes
    <3>4. ~gathered.failed
      BY <3>1 DEF BatchAgrees
    <3> QED BY <3>1, <3>3, <3>4, OneFilePerYear
  <2>2. report = "ingested" => stored # <<>>
    BY DEF OutcomeAgrees
  <2>3. exit = 0 => /\ task.command = "import" => stored # <<>>
                    /\ report # "failed"
                    /\ \A f \in task.reports : files[f] = "new"
    BY DEF OutcomeAgrees
  <2>4. ReportsAreWhole
    BY DEF ReportsAreWhole, FilesAgree, CommandTypes
  <2> QED BY <2>1, <2>2, <2>3, <2>4 DEF OutcomeIsTold
<1> QED BY <1>1, CommandInvariance, PTL

HIDE CommandLimits

-----------------------------------------------------------------------------
(* The rows of a batch. *)

-----------------------------------------------------------------------------
(* The two readers of the rows. *)

(* f is the recursion from a on the numbers up to n. *)
Recursion(f, S, a, n, step) ==
  f \in [0..n -> S] /\ f[0] = a /\ \A i \in 1..n : f[i] = step[<<i, f[i - 1]>>]

(* A recursion on the numbers up to n that stays in S has values. *)
LEMMA RecursionExists ==
  ASSUME NEW S, NEW a \in S, NEW n \in Nat, NEW step,
         \A i \in 1..n : \A s \in S : step[<<i, s>>] \in S
  PROVE  \E f : Recursion(f, S, a, n, step)
<1> USE DEF Recursion
<1> DEFINE Upto(m, f) == /\ f \in [0..m -> S] /\ f[0] = a
                         /\ \A i \in 1..m : f[i] = step[<<i, f[i - 1]>>]
           T == {m \in 0..n : ~\E f : Upto(m, f)}
<1>1. SUFFICES ASSUME T # {} PROVE FALSE
  OBVIOUS
<1>2. T \subseteq Nat
  OBVIOUS
<1>3. PICK m \in T : \A k \in T : m <= k
  <2> HIDE DEF T
  <2> QED BY <1>1, <1>2, SmallestOf
<1>4. m \in 0..n /\ ~\E f : Upto(m, f)
  BY <1>3
<1>5. CASE m = 0
  <2> DEFINE f == [i \in 0..0 |-> a]
  <2>1. Upto(0, f)
    OBVIOUS
  <2> QED BY <1>4, <1>5, <2>1
<1>6. CASE m # 0
  <2>1. m \in 1..n /\ m - 1 \in 0..n /\ ~(m <= m - 1)
    BY <1>4, <1>6
  <2>2. PICK f : Upto(m - 1, f)
    <3>1. m - 1 \notin T
      BY <1>3, <2>1
    <3> QED BY <2>1, <3>1
  <2>3. f \in [0..(m - 1) -> S] /\ f[0] = a /\ \A i \in 1..(m - 1) : f[i] = step[<<i, f[i - 1]>>]
    BY <2>2
  <2>4. f[m - 1] \in S
    BY <2>1, <2>3
  <2> DEFINE v == step[<<m, f[m - 1]>>]
             g == [i \in 0..m |-> IF i = m THEN v ELSE f[i]]
  <2>5. v \in S
    BY <2>1, <2>4
  <2> HIDE DEF v
  <2>6. /\ \A i \in 0..(m - 1) : g[i] = f[i] /\ f[i] \in S
        /\ g[m] = v
    BY <2>1, <2>3
  <2>7. g \in [0..m -> S]
    BY <2>1, <2>3, <2>5
  <2> HIDE DEF g
  <2>8. g[0] = a
    BY <2>1, <2>3, <2>6
  <2>9. ASSUME NEW i \in 1..m PROVE g[i] = step[<<i, g[i - 1]>>]
    <3>1. i - 1 \in 0..(m - 1) /\ (i # m => i \in 0..(m - 1) /\ i \in 1..(m - 1))
      BY <2>1
    <3>2. g[i - 1] = f[i - 1]
      BY <2>6, <3>1
    <3>3. CASE i = m
      BY <2>6, <3>2, <3>3 DEF v
    <3>4. CASE i # m
      BY <2>3, <2>6, <3>1, <3>2, <3>4
    <3> QED BY <3>3, <3>4
  <2>10. Upto(m, g)
    BY <2>7, <2>8, <2>9
  <2> QED BY <1>4, <2>10
<1> QED BY <1>5, <1>6

Amounts == {"observed_zero", "observed_positive", "none"}
Signatures == (SUBSET Flaws) \X Amounts

Batches ==
  [failed : BOOLEAN, source_rows : Nat, outside_window : Nat, received : Nat,
   duplicates : Nat, seen : SUBSET (Nat \X Signatures),
   records : Seq([ts : Nat, amount : Amounts]), rejected : Nat, reasons : [Reasons -> Nat]]

(* The rows of a window, the times they report, and what they say of them. *)
Chosen(rows, w) == {p \in DOMAIN rows : rows[p].ts \in w}
Noted(rows, w) == {<<rows[p].ts, Signature(rows[p])>> : p \in Chosen(rows, w)}
Told(rows, w) == {rows[p].ts : p \in Chosen(rows, w)}
Clean(rows, w) == {rows[p].ts : p \in {q \in Chosen(rows, w) : rows[q].flaws = {}}}
Bad(rows, w, r) ==
  {rows[p].ts : p \in {q \in Chosen(rows, w) : rows[q].flaws # {} /\ Reason(rows[q].flaws) = r}}

Consistent(rows, w) ==
  \A p, q \in Chosen(rows, w) :
    rows[p].ts = rows[q].ts => Signature(rows[p]) = Signature(rows[q])

(* What a batch says of the rows it was made of. *)
AgreesWith(b, rows, w) ==
  /\ b \in Batches
  /\ b.failed <=> ~Consistent(rows, w)
  /\ ~b.failed =>
       /\ b.seen = Noted(rows, w)
       /\ b.source_rows = b.received + b.outside_window
       /\ b.received = Cardinality(Chosen(rows, w))
       /\ b.received = Len(b.records) + b.rejected + b.duplicates
       /\ b.received = b.duplicates + Cardinality(Noted(rows, w))
       /\ Imported(b) = Clean(rows, w) /\ Cardinality(Imported(b)) = Len(b.records)
       /\ Len(b.records) + b.rejected = Cardinality(Told(rows, w))
       /\ \A r \in Reasons : b.reasons[r] = Cardinality(Bad(rows, w, r))

AreRows(rows) == IsFiniteSet(DOMAIN rows) /\ \A p \in DOMAIN rows : rows[p] \in SourceRows

LEMMA RowFacts ==
  ASSUME NEW row \in SourceRows
  PROVE  /\ row.ts \in Nat /\ row.flaws \in SUBSET Flaws /\ row.amount \in Amounts
         /\ Signature(row) \in Signatures
         /\ row.flaws # {} => Reason(row.flaws) \in Reasons
<1>1. row.ts \in Nat /\ row.flaws \in SUBSET Flaws /\ row.amount \in Amounts
  BY DEF SourceRows, Amounts
<1> QED BY <1>1 DEF Signature, Signatures, Reasons

(* What is known of the time of a row, and what is noted of the row. *)
Pair(row) == <<row.ts, Signature(row)>>
KnownAt(b, row) == {s \in b.seen : s[1] = row.ts}
TakenRow(b) == [b EXCEPT !.source_rows = @ + 1, !.received = @ + 1]
NotedRow(b, row) == [TakenRow(b) EXCEPT !.seen = @ \cup {Pair(row)}]

(* A row of the window is received, a readable one outside it is counted. *)
LEMMA ReceivedRow ==
  ASSUME NEW b \in Batches, NEW row
  PROVE  ReceiveRow(TakenRow(b), row) =
           IF KnownAt(b, row) = {} THEN NormalizeRow(NotedRow(b, row), row)
           ELSE IF KnownAt(b, row) = {Pair(row)} THEN [TakenRow(b) EXCEPT !.duplicates = @ + 1]
           ELSE Refuse(TakenRow(b))
<1>1. TakenRow(b).seen = b.seen
  BY DEF Batches, TakenRow
<1>2. {s \in TakenRow(b).seen : s[1] = row.ts} = KnownAt(b, row)
  BY <1>1 DEF KnownAt
<1> QED BY <1>2 DEF ReceiveRow, NotedRow, Pair

LEMMA RefuseKeepsTypes ==
  ASSUME NEW b \in Batches
  PROVE  Refuse(b) \in Batches /\ Refuse(b).failed
BY DEF Batches, Refuse

(* What a row of a new time does to the batch. *)
LEMMA NormalizedRow ==
  ASSUME NEW b \in Batches, NEW row \in SourceRows,
         NEW n, n = NormalizeRow(b, row)
  PROVE  /\ n \in Batches
         /\ n.failed = b.failed /\ n.source_rows = b.source_rows /\ n.received = b.received
         /\ n.outside_window = b.outside_window /\ n.duplicates = b.duplicates /\ n.seen = b.seen
         /\ row.flaws = {} => /\ n.records = Append(b.records, [ts |-> row.ts, amount |-> row.amount])
                              /\ n.rejected = b.rejected /\ n.reasons = b.reasons
         /\ row.flaws # {} => /\ n.records = b.records /\ n.rejected = b.rejected + 1
                              /\ \A r \in Reasons : n.reasons[r] =
                                   b.reasons[r] + (IF r = Reason(row.flaws) THEN 1 ELSE 0)
<1>1. /\ row.ts \in Nat /\ row.amount \in Amounts
      /\ row.flaws # {} => Reason(row.flaws) \in Reasons
  BY RowFacts
<1>2. CASE row.flaws = {}
  <2> DEFINE record == [ts |-> row.ts, amount |-> row.amount]
  <2>1. record \in [ts : Nat, amount : Amounts]
    BY <1>1
  <2> HIDE DEF record
  <2>2. NormalizeRow(b, row) = [b EXCEPT !.records = Append(@, record)]
    BY <1>2 DEF NormalizeRow, record
  <2>3. Append(b.records, record) \in Seq([ts : Nat, amount : Amounts])
    BY <2>1 DEF Batches
  <2>4. NormalizeRow(b, row) \in Batches
    BY <2>2, <2>3 DEF Batches
  <2> QED BY <1>2, <2>2, <2>4 DEF record, Batches
<1>3. CASE row.flaws # {}
  <2>1. PICK q \in Reasons : q = Reason(row.flaws)
    BY <1>1, <1>3
  <2>2. b.reasons \in [Reasons -> Nat] /\ b.rejected \in Nat
    BY DEF Batches
  <2>3. PICK f : f = Count(b.reasons, q)
    OBVIOUS
  <2>4. /\ f \in [Reasons -> Nat]
        /\ \A r \in Reasons : f[r] = b.reasons[r] + (IF r = q THEN 1 ELSE 0)
    BY <2>1, <2>2, <2>3 DEF Count
  <2>5. NormalizeRow(b, row) = [b EXCEPT !.rejected = b.rejected + 1, !.reasons = f]
    BY <1>3, <2>1, <2>3 DEF NormalizeRow
  <2>6. PICK m \in Nat : m = b.rejected + 1
    BY <2>2
  <2>7. NormalizeRow(b, row) \in Batches
    BY <2>2, <2>4, <2>5, <2>6 DEF Batches
  <2> QED BY <1>3, <2>1, <2>2, <2>4, <2>5, <2>7 DEF Batches
<1> QED BY <1>2, <1>3

(* A row of the window is received. *)
LEMMA TakenFacts ==
  ASSUME NEW b \in Batches, NEW m, m = TakenRow(b)
  PROVE  /\ m \in Batches /\ m.failed = b.failed /\ m.source_rows = b.source_rows + 1
         /\ m.received = b.received + 1 /\ m.outside_window = b.outside_window
         /\ m.duplicates = b.duplicates /\ m.seen = b.seen /\ m.records = b.records
         /\ m.rejected = b.rejected /\ m.reasons = b.reasons
<1>1. PICK c \in Nat, o \in Nat : c = b.source_rows + 1 /\ o = b.received + 1
  BY DEF Batches
<1>2. m = [b EXCEPT !.source_rows = c, !.received = o]
  BY <1>1 DEF TakenRow
<1>3. m \in Batches
  BY <1>2 DEF Batches
<1> QED BY <1>1, <1>2, <1>3 DEF Batches

(* What each case does to the parts of the batch. *)
LEMMA RowOutside ==
  ASSUME NEW b \in Batches, NEW row, NEW year, NEW w,
         ~b.failed, ~Unreadable(row, year), row.ts \notin w, NEW n, n = ParseRow(b, row, year, w)
  PROVE  /\ n \in Batches /\ ~n.failed /\ n.source_rows = b.source_rows + 1
         /\ n.received = b.received /\ n.outside_window = b.outside_window + 1
         /\ n.duplicates = b.duplicates /\ n.seen = b.seen /\ n.records = b.records
         /\ n.rejected = b.rejected /\ n.reasons = b.reasons
<1>1. n = [b EXCEPT !.source_rows = @ + 1, !.outside_window = @ + 1]
  BY DEF ParseRow
<1>2. PICK c \in Nat, o \in Nat : c = b.source_rows + 1 /\ o = b.outside_window + 1
  BY DEF Batches
<1>3. n = [b EXCEPT !.source_rows = c, !.outside_window = o]
  BY <1>1, <1>2
<1>4. n \in Batches
  BY <1>3 DEF Batches
<1> QED BY <1>2, <1>3, <1>4 DEF Batches

LEMMA RowRepeated ==
  ASSUME NEW b \in Batches, NEW row, NEW year, NEW w, ~b.failed, ~Unreadable(row, year),
         row.ts \in w, KnownAt(b, row) = {Pair(row)}, NEW n, n = ParseRow(b, row, year, w)
  PROVE  /\ n \in Batches /\ ~n.failed /\ n.source_rows = b.source_rows + 1
         /\ n.received = b.received + 1 /\ n.outside_window = b.outside_window
         /\ n.duplicates = b.duplicates + 1 /\ n.seen = b.seen /\ n.records = b.records
         /\ n.rejected = b.rejected /\ n.reasons = b.reasons
<1>1. n = ReceiveRow(TakenRow(b), row)
  BY DEF ParseRow, TakenRow
<1>2. KnownAt(b, row) # {}
  OBVIOUS
<1>3. n = [TakenRow(b) EXCEPT !.duplicates = @ + 1]
  BY <1>1, <1>2, ReceivedRow
<1>4. PICK m : m = TakenRow(b)
  OBVIOUS
<1>5. /\ m \in Batches /\ m.failed = b.failed /\ m.source_rows = b.source_rows + 1
      /\ m.received = b.received + 1 /\ m.outside_window = b.outside_window
      /\ m.duplicates = b.duplicates /\ m.seen = b.seen /\ m.records = b.records
      /\ m.rejected = b.rejected /\ m.reasons = b.reasons
  BY <1>4, TakenFacts
<1>6. PICK d \in Nat : d = m.duplicates + 1
  BY <1>5 DEF Batches
<1>7. n = [m EXCEPT !.duplicates = d]
  BY <1>3, <1>4, <1>6
<1>8. n \in Batches
  BY <1>5, <1>7 DEF Batches
<1> QED BY <1>5, <1>6, <1>7, <1>8 DEF Batches

LEMMA RowRefused ==
  ASSUME NEW b \in Batches, NEW row, NEW year, NEW w, NEW n, n = ParseRow(b, row, year, w),
         \/ b.failed \/ Unreadable(row, year)
         \/ row.ts \in w /\ KnownAt(b, row) # {} /\ KnownAt(b, row) # {Pair(row)}
  PROVE  n \in Batches /\ n.failed
<1>1. TakenRow(b) \in Batches
  BY TakenFacts
<1>2. CASE b.failed \/ Unreadable(row, year)
  BY <1>2, RefuseKeepsTypes DEF ParseRow
<1>3. CASE /\ ~(b.failed \/ Unreadable(row, year))
           /\ row.ts \in w /\ KnownAt(b, row) # {} /\ KnownAt(b, row) # {Pair(row)}
  <2>1. n = ReceiveRow(TakenRow(b), row)
    BY <1>3 DEF ParseRow, TakenRow
  <2>2. n = Refuse(TakenRow(b))
    BY <1>3, <2>1, ReceivedRow
  <2> QED BY <1>1, <2>2, RefuseKeepsTypes
<1> QED BY <1>2, <1>3

LEMMA RowFresh ==
  ASSUME NEW b \in Batches, NEW row \in SourceRows, NEW year, NEW w, ~b.failed,
         ~Unreadable(row, year), row.ts \in w, KnownAt(b, row) = {},
         NEW n, n = ParseRow(b, row, year, w)
  PROVE  /\ n \in Batches /\ ~n.failed /\ n.source_rows = b.source_rows + 1
         /\ n.received = b.received + 1 /\ n.outside_window = b.outside_window
         /\ n.duplicates = b.duplicates /\ n.seen = b.seen \cup {Pair(row)}
         /\ row.flaws = {} => /\ n.records = Append(b.records, [ts |-> row.ts, amount |-> row.amount])
                              /\ n.rejected = b.rejected /\ n.reasons = b.reasons
         /\ row.flaws # {} => /\ n.records = b.records /\ n.rejected = b.rejected + 1
                              /\ \A r \in Reasons : n.reasons[r] =
                                   b.reasons[r] + (IF r = Reason(row.flaws) THEN 1 ELSE 0)
<1>1. n = NormalizeRow(NotedRow(b, row), row)
  <2>1. n = ReceiveRow(TakenRow(b), row)
    BY DEF ParseRow, TakenRow
  <2> QED BY <2>1, ReceivedRow
<1>2. PICK m : m = NotedRow(b, row)
  OBVIOUS
<1>3. Pair(row) \in Nat \X Signatures
  BY RowFacts DEF Pair
<1>4. /\ m \in Batches
      /\ m.failed = b.failed /\ m.source_rows = b.source_rows + 1
      /\ m.received = b.received + 1 /\ m.outside_window = b.outside_window
      /\ m.duplicates = b.duplicates /\ m.seen = b.seen \cup {Pair(row)}
      /\ m.records = b.records /\ m.rejected = b.rejected /\ m.reasons = b.reasons
  <2>1. PICK k : k = TakenRow(b)
    OBVIOUS
  <2>2. /\ k \in Batches /\ k.failed = b.failed /\ k.source_rows = b.source_rows + 1
        /\ k.received = b.received + 1 /\ k.outside_window = b.outside_window
        /\ k.duplicates = b.duplicates /\ k.seen = b.seen /\ k.records = b.records
        /\ k.rejected = b.rejected /\ k.reasons = b.reasons
    BY <2>1, TakenFacts
  <2>3. PICK v \in SUBSET (Nat \X Signatures) : v = k.seen \cup {Pair(row)}
    BY <1>3, <2>2 DEF Batches
  <2>4. m = [k EXCEPT !.seen = v]
    BY <1>2, <2>1, <2>3 DEF NotedRow
  <2>5. m \in Batches
    BY <2>2, <2>4 DEF Batches
  <2> QED BY <2>2, <2>3, <2>4, <2>5 DEF Batches
<1>5. n = NormalizeRow(m, row)
  BY <1>1, <1>2
<1>6. /\ n \in Batches
      /\ n.failed = m.failed /\ n.source_rows = m.source_rows /\ n.received = m.received
      /\ n.outside_window = m.outside_window /\ n.duplicates = m.duplicates /\ n.seen = m.seen
      /\ row.flaws = {} => /\ n.records = Append(m.records, [ts |-> row.ts, amount |-> row.amount])
                           /\ n.rejected = m.rejected /\ n.reasons = m.reasons
      /\ row.flaws # {} => /\ n.records = m.records /\ n.rejected = m.rejected + 1
                           /\ \A r \in Reasons : n.reasons[r] =
                                m.reasons[r] + (IF r = Reason(row.flaws) THEN 1 ELSE 0)
  BY <1>4, <1>5, NormalizedRow
<1> QED BY <1>4, <1>6

(* A row more, at a new place p. *)
With(rows, p, row) == [q \in DOMAIN rows \cup {p} |-> IF q = p THEN row ELSE rows[q]]

LEMMA WithRow ==
  ASSUME NEW rows, AreRows(rows), NEW row \in SourceRows, NEW p, NEW new, new = With(rows, p, row),
         p \notin DOMAIN rows
  PROVE  /\ AreRows(new) /\ DOMAIN new = DOMAIN rows \cup {p} /\ new[p] = row
         /\ \A q \in DOMAIN rows : new[q] = rows[q]
<1>1. /\ DOMAIN new = DOMAIN rows \cup {p} /\ new[p] = row
      /\ \A q \in DOMAIN rows : new[q] = rows[q]
  BY DEF With
<1>2. IsFiniteSet(DOMAIN rows \cup {p})
  BY FS_AddElement DEF AreRows
<1>3. AreRows(new)
  BY <1>1, <1>2 DEF AreRows
<1> QED BY <1>1, <1>3

LEMMA WithRowOutside ==
  ASSUME NEW rows, NEW row, NEW p, NEW new, new = With(rows, p, row),
         p \notin DOMAIN rows, NEW w, row.ts \notin w
  PROVE  /\ Chosen(new, w) = Chosen(rows, w) /\ Noted(new, w) = Noted(rows, w)
         /\ Told(new, w) = Told(rows, w) /\ Clean(new, w) = Clean(rows, w)
         /\ \A r : Bad(new, w, r) = Bad(rows, w, r)
<1>1. /\ DOMAIN new = DOMAIN rows \cup {p} /\ new[p] = row
      /\ \A q \in DOMAIN rows : new[q] = rows[q]
  BY DEF With
<1>2. Chosen(new, w) = Chosen(rows, w)
  BY <1>1 DEF Chosen
<1>3. \A q \in Chosen(rows, w) : new[q] = rows[q]
  BY <1>1 DEF Chosen
<1> QED BY <1>2, <1>3 DEF Noted, Told, Clean, Bad

LEMMA WithRowInside ==
  ASSUME NEW rows, NEW row, NEW p, NEW new, new = With(rows, p, row),
         p \notin DOMAIN rows, NEW w, row.ts \in w
  PROVE  /\ Chosen(new, w) = Chosen(rows, w) \cup {p}
         /\ Noted(new, w) = Noted(rows, w) \cup {<<row.ts, Signature(row)>>}
         /\ Told(new, w) = Told(rows, w) \cup {row.ts}
         /\ row.flaws = {} => Clean(new, w) = Clean(rows, w) \cup {row.ts}
         /\ row.flaws # {} => Clean(new, w) = Clean(rows, w)
         /\ \A r : Bad(new, w, r) = IF row.flaws # {} /\ Reason(row.flaws) = r
                                    THEN Bad(rows, w, r) \cup {row.ts} ELSE Bad(rows, w, r)
<1>1. /\ DOMAIN new = DOMAIN rows \cup {p} /\ new[p] = row
      /\ \A q \in DOMAIN rows : new[q] = rows[q]
  BY DEF With
<1>2. Chosen(new, w) = Chosen(rows, w) \cup {p}
  BY <1>1 DEF Chosen
<1>3. \A q \in Chosen(rows, w) : new[q] = rows[q]
  BY <1>1 DEF Chosen
<1>4. Noted(new, w) = Noted(rows, w) \cup {<<row.ts, Signature(row)>>}
  BY <1>1, <1>2, <1>3 DEF Noted
<1>5. Told(new, w) = Told(rows, w) \cup {row.ts}
  BY <1>1, <1>2, <1>3 DEF Told
<1>6. /\ row.flaws = {} => Clean(new, w) = Clean(rows, w) \cup {row.ts}
      /\ row.flaws # {} => Clean(new, w) = Clean(rows, w)
  BY <1>1, <1>2, <1>3 DEF Clean
<1>7. \A r : Bad(new, w, r) = IF row.flaws # {} /\ Reason(row.flaws) = r
                              THEN Bad(rows, w, r) \cup {row.ts} ELSE Bad(rows, w, r)
  BY <1>1, <1>2, <1>3 DEF Bad
<1> QED BY <1>2, <1>4, <1>5, <1>6, <1>7

(* All that is counted is finite. *)
LEMMA FiniteRows ==
  ASSUME NEW rows, AreRows(rows), NEW w
  PROVE  /\ IsFiniteSet(Chosen(rows, w)) /\ IsFiniteSet(Noted(rows, w)) /\ IsFiniteSet(Told(rows, w))
         /\ IsFiniteSet(Clean(rows, w)) /\ \A r : IsFiniteSet(Bad(rows, w, r))
         /\ Clean(rows, w) \subseteq Told(rows, w) /\ \A r : Bad(rows, w, r) \subseteq Told(rows, w)
         /\ Told(rows, w) \subseteq Nat
<1>1. IsFiniteSet(Chosen(rows, w))
  BY FS_Subset DEF AreRows, Chosen
<1> DEFINE C == Chosen(rows, w)
           f == [p \in C |-> <<rows[p].ts, Signature(rows[p])>>]
           g == [p \in C |-> rows[p].ts]
<1>2. f \in Surjection(C, Noted(rows, w)) /\ g \in Surjection(C, Told(rows, w))
  BY DEF Surjection, Noted, Told
<1> HIDE DEF f, g, C
<1>3. IsFiniteSet(Noted(rows, w)) /\ IsFiniteSet(Told(rows, w))
  BY <1>1, <1>2, FS_Surjection DEF C
<1>4. Clean(rows, w) \in SUBSET Told(rows, w) /\ \A r : Bad(rows, w, r) \in SUBSET Told(rows, w)
  BY DEF Clean, Bad, Told
<1>5. Told(rows, w) \subseteq Nat
  <2>1. \A p \in Chosen(rows, w) : rows[p].ts \in Nat
    BY RowFacts DEF AreRows, Chosen
  <2> QED BY <2>1 DEF Told
<1> QED BY <1>1, <1>3, <1>4, <1>5, FS_Subset

(* What a batch that has not failed says of the rows it was made of. *)
LEMMA Tallied ==
  ASSUME NEW rows, NEW w, NEW b, AgreesWith(b, rows, w), ~b.failed
  PROVE  /\ Consistent(rows, w) /\ b.seen = Noted(rows, w)
         /\ b.source_rows = b.received + b.outside_window
         /\ b.received = Cardinality(Chosen(rows, w))
         /\ b.received = Len(b.records) + b.rejected + b.duplicates
         /\ b.received = b.duplicates + Cardinality(Noted(rows, w))
         /\ Imported(b) = Clean(rows, w) /\ Cardinality(Imported(b)) = Len(b.records)
         /\ Len(b.records) + b.rejected = Cardinality(Told(rows, w))
         /\ \A r \in Reasons : b.reasons[r] = Cardinality(Bad(rows, w, r))
BY DEF AgreesWith

LEMMA BatchNumbers ==
  ASSUME NEW b \in Batches
  PROVE  /\ b.source_rows \in Nat /\ b.received \in Nat /\ b.outside_window \in Nat
         /\ b.duplicates \in Nat /\ b.rejected \in Nat /\ Len(b.records) \in Nat
BY DEF Batches

(* A row that contradicts what was read makes a batch that has failed. *)
LEMMA AgreesRefused ==
  ASSUME NEW rows, NEW w, NEW b, AgreesWith(b, rows, w), NEW row, NEW year,
         NEW p, p \notin DOMAIN rows, NEW new, new = With(rows, p, row),
         NEW n, n = ParseRow(b, row, year, w),
         \/ b.failed
         \/ ~b.failed /\ row.ts \in w /\ KnownAt(b, row) # {} /\ KnownAt(b, row) # {Pair(row)}
  PROVE  AgreesWith(n, new, w)
<1>1. b \in Batches
  BY DEF AgreesWith
<1>2. n \in Batches /\ n.failed
  BY <1>1, RowRefused
<1>3. new[p] = row /\ DOMAIN new = DOMAIN rows \cup {p} /\ \A q \in DOMAIN rows : new[q] = rows[q]
  BY DEF With
<1>4. \A q \in Chosen(rows, w) : q \in Chosen(new, w) /\ new[q] = rows[q]
  BY <1>3 DEF Chosen
<1>5. ~Consistent(new, w)
  <2>1. CASE b.failed
    <3>1. ~Consistent(rows, w)
      BY <2>1 DEF AgreesWith
    <3>2. PICK i \in Chosen(rows, w), j \in Chosen(rows, w) :
            rows[i].ts = rows[j].ts /\ Signature(rows[i]) # Signature(rows[j])
      BY <3>1 DEF Consistent
    <3> QED BY <1>4, <3>2 DEF Consistent
  <2>2. CASE ~b.failed /\ row.ts \in w /\ KnownAt(b, row) # {} /\ KnownAt(b, row) # {Pair(row)}
    <3>1. PICK s \in b.seen : s[1] = row.ts /\ s # Pair(row)
      BY <2>2 DEF KnownAt
    <3>2. b.seen = Noted(rows, w)
      BY <2>2, Tallied
    <3>3. PICK o \in Chosen(rows, w) : s = <<rows[o].ts, Signature(rows[o])>>
      BY <3>1, <3>2 DEF Noted
    <3>4. rows[o].ts = row.ts /\ Signature(rows[o]) # Signature(row)
      BY <3>1, <3>3 DEF Pair
    <3>5. p \in Chosen(new, w)
      BY <1>3, <2>2 DEF Chosen
    <3> QED BY <1>3, <1>4, <3>3, <3>4, <3>5 DEF Consistent
  <2> QED BY <2>1, <2>2
<1> QED BY <1>2, <1>5 DEF AgreesWith

(* A row outside the window is only counted. *)
LEMMA AgreesOutside ==
  ASSUME NEW rows, AreRows(rows), NEW w, NEW b, AgreesWith(b, rows, w), ~b.failed,
         NEW row \in SourceRows, NEW year, ~Unreadable(row, year), row.ts \notin w,
         NEW p, p \notin DOMAIN rows, NEW new, new = With(rows, p, row),
         NEW n, n = ParseRow(b, row, year, w)
  PROVE  AgreesWith(n, new, w)
<1>1. b \in Batches
  BY DEF AgreesWith
<1>2. /\ n \in Batches /\ ~n.failed /\ n.source_rows = b.source_rows + 1
      /\ n.received = b.received /\ n.outside_window = b.outside_window + 1
      /\ n.duplicates = b.duplicates /\ n.seen = b.seen /\ n.records = b.records
      /\ n.rejected = b.rejected /\ n.reasons = b.reasons
  BY <1>1, RowOutside
<1>0. /\ DOMAIN new = DOMAIN rows \cup {p} /\ new[p] = row
      /\ \A q \in DOMAIN rows : new[q] = rows[q]
  BY DEF With
<1>3. /\ Chosen(new, w) = Chosen(rows, w) /\ Noted(new, w) = Noted(rows, w)
      /\ Told(new, w) = Told(rows, w) /\ Clean(new, w) = Clean(rows, w)
      /\ \A r : Bad(new, w, r) = Bad(rows, w, r)
  BY WithRowOutside
<1>4. Consistent(new, w) <=> Consistent(rows, w)
  <2>1. \A q \in Chosen(rows, w) : new[q] = rows[q]
    BY <1>0 DEF Chosen
  <2> QED BY <1>3, <2>1 DEF Consistent
<1>5. Imported(n) = Imported(b)
  BY <1>2 DEF Imported
<1>6. n.source_rows = n.received + n.outside_window
  <2>1. b.source_rows = b.received + b.outside_window
    BY Tallied
  <2> QED BY <1>1, <1>2, <2>1, BatchNumbers
<1>7. /\ Consistent(new, w) /\ n.seen = Noted(new, w)
      /\ n.received = Cardinality(Chosen(new, w))
      /\ n.received = Len(n.records) + n.rejected + n.duplicates
      /\ n.received = n.duplicates + Cardinality(Noted(new, w))
      /\ Imported(n) = Clean(new, w) /\ Cardinality(Imported(n)) = Len(n.records)
      /\ Len(n.records) + n.rejected = Cardinality(Told(new, w))
      /\ \A r \in Reasons : n.reasons[r] = Cardinality(Bad(new, w, r))
  BY <1>2, <1>3, <1>4, <1>5, Tallied
<1> QED BY <1>2, <1>6, <1>7 DEF AgreesWith

(* A row that repeats what was read of its time is a duplicate. *)
LEMMA AgreesRepeated ==
  ASSUME NEW rows, AreRows(rows), NEW w, NEW b, AgreesWith(b, rows, w), ~b.failed,
         NEW row \in SourceRows, NEW year, ~Unreadable(row, year), row.ts \in w,
         KnownAt(b, row) = {Pair(row)},
         NEW p, p \notin DOMAIN rows, NEW new, new = With(rows, p, row),
         NEW n, n = ParseRow(b, row, year, w)
  PROVE  AgreesWith(n, new, w)
<1>1. b \in Batches
  BY DEF AgreesWith
<1>2. /\ n \in Batches /\ ~n.failed /\ n.source_rows = b.source_rows + 1
      /\ n.received = b.received + 1 /\ n.outside_window = b.outside_window
      /\ n.duplicates = b.duplicates + 1 /\ n.seen = b.seen /\ n.records = b.records
      /\ n.rejected = b.rejected /\ n.reasons = b.reasons
  BY <1>1, RowRepeated
<1>0. /\ DOMAIN new = DOMAIN rows \cup {p} /\ new[p] = row
      /\ \A q \in DOMAIN rows : new[q] = rows[q]
  BY DEF With
<1>3. /\ Chosen(new, w) = Chosen(rows, w) \cup {p}
      /\ Noted(new, w) = Noted(rows, w) \cup {<<row.ts, Signature(row)>>}
      /\ Told(new, w) = Told(rows, w) \cup {row.ts}
      /\ row.flaws = {} => Clean(new, w) = Clean(rows, w) \cup {row.ts}
      /\ row.flaws # {} => Clean(new, w) = Clean(rows, w)
      /\ \A r : Bad(new, w, r) = IF row.flaws # {} /\ Reason(row.flaws) = r
                                 THEN Bad(rows, w, r) \cup {row.ts} ELSE Bad(rows, w, r)
  BY WithRowInside
<1>4. b.seen = Noted(rows, w) /\ Consistent(rows, w)
  BY Tallied
<1>5. PICK o \in Chosen(rows, w) : rows[o].ts = row.ts /\ Signature(rows[o]) = Signature(row)
  <2>1. Pair(row) \in Noted(rows, w)
    BY <1>4 DEF KnownAt
  <2> QED BY <2>1 DEF Noted, Pair
<1>6. row.flaws = rows[o].flaws
  BY <1>5 DEF Signature
<1>7. /\ Noted(new, w) = Noted(rows, w) /\ Told(new, w) = Told(rows, w)
      /\ Clean(new, w) = Clean(rows, w) /\ \A r : Bad(new, w, r) = Bad(rows, w, r)
  <2>1. <<row.ts, Signature(row)>> \in Noted(rows, w)
    BY <1>5 DEF Noted
  <2>2. row.ts \in Told(rows, w)
    BY <1>5 DEF Told
  <2>3. row.flaws = {} => row.ts \in Clean(rows, w)
    BY <1>5, <1>6 DEF Clean
  <2>4. \A r : row.flaws # {} /\ Reason(row.flaws) = r => row.ts \in Bad(rows, w, r)
    BY <1>5, <1>6 DEF Bad
  <2>5. Noted(new, w) = Noted(rows, w) /\ Told(new, w) = Told(rows, w)
    BY <1>3, <2>1, <2>2
  <2>6. Clean(new, w) = Clean(rows, w)
    BY <1>3, <2>3
  <2>7. \A r : Bad(new, w, r) = Bad(rows, w, r)
    BY <1>3, <2>4
  <2> QED BY <2>5, <2>6, <2>7
<1>8. Consistent(new, w)
  <2>1. \A q \in Chosen(rows, w) : rows[q].ts = row.ts => Signature(rows[q]) = Signature(row)
    BY <1>4, <1>5 DEF Consistent
  <2>2. \A q \in Chosen(new, w) : q = p \/ (q \in Chosen(rows, w) /\ new[q] = rows[q])
    BY <1>0, <1>3 DEF Chosen
  <2>3. \A q, r \in Chosen(rows, w) :
          rows[q].ts = rows[r].ts => Signature(rows[q]) = Signature(rows[r])
    BY <1>4 DEF Consistent
  <2> QED BY <1>0, <1>3, <2>1, <2>2, <2>3 DEF Consistent
<1>9. Imported(n) = Imported(b)
  BY <1>2 DEF Imported
<1>10. Cardinality(Noted(rows, w)) \in Nat /\ Cardinality(Chosen(new, w)) = b.received + 1
  <2>1. IsFiniteSet(Chosen(rows, w)) /\ IsFiniteSet(Noted(rows, w))
    BY FiniteRows
  <2>2. p \notin Chosen(rows, w)
    BY DEF Chosen
  <2>3. Cardinality(Chosen(rows, w) \cup {p}) = Cardinality(Chosen(rows, w)) + 1
    BY <2>1, <2>2, FS_AddElement
  <2>4. b.received = Cardinality(Chosen(rows, w))
    BY Tallied
  <2> QED BY <1>3, <2>1, <2>3, <2>4, FS_CardinalityType
<1>11. /\ n.source_rows = n.received + n.outside_window
       /\ n.received = Len(n.records) + n.rejected + n.duplicates
       /\ n.received = n.duplicates + Cardinality(Noted(new, w))
  <2>1. PICK c \in Nat : c = Cardinality(Noted(rows, w))
    BY <1>10
  <2>2. PICK l \in Nat : l = Len(b.records)
    BY <1>1, BatchNumbers
  <2>3. /\ b.source_rows = b.received + b.outside_window
        /\ b.received = l + b.rejected + b.duplicates
        /\ b.received = b.duplicates + c
    BY <2>1, <2>2, Tallied
  <2>4. Len(n.records) = l /\ Cardinality(Noted(new, w)) = c
    BY <1>2, <1>7, <2>1, <2>2
  <2>5. PICK u \in Nat, v \in Nat, x \in Nat, y \in Nat, z \in Nat :
          /\ u = b.source_rows /\ v = b.received /\ x = b.outside_window
          /\ y = b.duplicates /\ z = b.rejected
    BY <1>1, BatchNumbers
  <2>6. /\ n.source_rows = u + 1 /\ n.received = v + 1 /\ n.outside_window = x
        /\ n.duplicates = y + 1 /\ n.rejected = z
    BY <1>2, <2>5
  <2>7. u = v + x /\ v = l + z + y /\ v = y + c
    BY <2>3, <2>5
  <2> QED BY <2>4, <2>6, <2>7
<1>12. /\ n.seen = Noted(new, w) /\ n.received = Cardinality(Chosen(new, w))
       /\ Imported(n) = Clean(new, w) /\ Cardinality(Imported(n)) = Len(n.records)
       /\ Len(n.records) + n.rejected = Cardinality(Told(new, w))
       /\ \A r \in Reasons : n.reasons[r] = Cardinality(Bad(new, w, r))
  BY <1>2, <1>4, <1>7, <1>9, <1>10, Tallied
<1> QED BY <1>2, <1>8, <1>11, <1>12 DEF AgreesWith

(* What a record more does to the times of the records. *)
LEMMA RecordMore ==
  ASSUME NEW b \in Batches, NEW n \in Batches, NEW t \in Nat, NEW a,
         n.records = Append(b.records, [ts |-> t, amount |-> a])
  PROVE  Imported(n) = Imported(b) \cup {t} /\ Len(n.records) = Len(b.records) + 1
<1>1. PICK record : record = [ts |-> t, amount |-> a]
  OBVIOUS
<1>2. record.ts = t
  BY <1>1
<1>3. PICK old \in Seq([ts : Nat, amount : Amounts]) : old = b.records
  BY DEF Batches
<1>4. PICK more : more = n.records
  OBVIOUS
<1>5. more = Append(old, record)
  BY <1>1, <1>3, <1>4
<1>6. PICK l \in Nat : l = Len(old)
  OBVIOUS
<1>7. /\ Len(more) = l + 1 /\ DOMAIN old = 1..l /\ DOMAIN more = 1..(l + 1)
      /\ more[l + 1] = record /\ \A k \in 1..l : more[k] = old[k]
  BY <1>5, <1>6
<1>8. {more[k].ts : k \in DOMAIN more} = {old[k].ts : k \in DOMAIN old} \cup {t}
  <2>1. \A k \in DOMAIN more : k = l + 1 \/ k \in DOMAIN old
    BY <1>7
  <2>2. l + 1 \in DOMAIN more /\ \A k \in DOMAIN old : k \in DOMAIN more /\ more[k] = old[k]
    BY <1>7
  <2> QED BY <1>2, <1>7, <2>1, <2>2
<1> QED BY <1>3, <1>4, <1>6, <1>7, <1>8 DEF Imported

(* A row of a new time is accepted or rejected. *)
LEMMA AgreesFresh ==
  ASSUME NEW rows, AreRows(rows), NEW w, NEW b, AgreesWith(b, rows, w), ~b.failed,
         NEW row \in SourceRows, NEW year, ~Unreadable(row, year), row.ts \in w,
         KnownAt(b, row) = {},
         NEW p, p \notin DOMAIN rows, NEW new, new = With(rows, p, row),
         NEW n, n = ParseRow(b, row, year, w)
  PROVE  AgreesWith(n, new, w)
<1>1. b \in Batches
  BY DEF AgreesWith
<1>2. /\ n \in Batches /\ ~n.failed /\ n.source_rows = b.source_rows + 1
      /\ n.received = b.received + 1 /\ n.outside_window = b.outside_window
      /\ n.duplicates = b.duplicates /\ n.seen = b.seen \cup {Pair(row)}
      /\ row.flaws = {} => /\ n.records = Append(b.records, [ts |-> row.ts, amount |-> row.amount])
                           /\ n.rejected = b.rejected /\ n.reasons = b.reasons
      /\ row.flaws # {} => /\ n.records = b.records /\ n.rejected = b.rejected + 1
                           /\ \A r \in Reasons : n.reasons[r] =
                                b.reasons[r] + (IF r = Reason(row.flaws) THEN 1 ELSE 0)
  BY <1>1, RowFresh
<1>3. /\ DOMAIN new = DOMAIN rows \cup {p} /\ new[p] = row
      /\ \A q \in DOMAIN rows : new[q] = rows[q]
  BY DEF With
<1>4. /\ Chosen(new, w) = Chosen(rows, w) \cup {p}
      /\ Noted(new, w) = Noted(rows, w) \cup {<<row.ts, Signature(row)>>}
      /\ Told(new, w) = Told(rows, w) \cup {row.ts}
      /\ row.flaws = {} => Clean(new, w) = Clean(rows, w) \cup {row.ts}
      /\ row.flaws # {} => Clean(new, w) = Clean(rows, w)
      /\ \A r : Bad(new, w, r) = IF row.flaws # {} /\ Reason(row.flaws) = r
                                 THEN Bad(rows, w, r) \cup {row.ts} ELSE Bad(rows, w, r)
  BY WithRowInside
<1>5. /\ Consistent(rows, w) /\ b.seen = Noted(rows, w)
      /\ b.source_rows = b.received + b.outside_window
      /\ b.received = Cardinality(Chosen(rows, w))
      /\ b.received = Len(b.records) + b.rejected + b.duplicates
      /\ b.received = b.duplicates + Cardinality(Noted(rows, w))
      /\ Imported(b) = Clean(rows, w) /\ Cardinality(Imported(b)) = Len(b.records)
      /\ Len(b.records) + b.rejected = Cardinality(Told(rows, w))
      /\ \A r \in Reasons : b.reasons[r] = Cardinality(Bad(rows, w, r))
  BY Tallied
<1>6. /\ IsFiniteSet(Chosen(rows, w)) /\ IsFiniteSet(Noted(rows, w)) /\ IsFiniteSet(Told(rows, w))
      /\ IsFiniteSet(Clean(rows, w)) /\ \A r : IsFiniteSet(Bad(rows, w, r))
      /\ Clean(rows, w) \subseteq Told(rows, w) /\ \A r : Bad(rows, w, r) \subseteq Told(rows, w)
  BY FiniteRows
<1>7. \A q \in Chosen(rows, w) : rows[q].ts # row.ts
  <2>1. \A q \in Chosen(rows, w) : <<rows[q].ts, Signature(rows[q])>> \in b.seen
    BY <1>5 DEF Noted
  <2>2. \A s \in b.seen : s[1] # row.ts
    BY DEF KnownAt
  <2>3. ASSUME NEW q \in Chosen(rows, w) PROVE rows[q].ts # row.ts
    <3>1. <<rows[q].ts, Signature(rows[q])>>[1] = rows[q].ts
      OBVIOUS
    <3> QED BY <2>1, <2>2, <3>1
  <2> QED BY <2>3
<1>8. row.ts \notin Told(rows, w)
  BY <1>7 DEF Told
<1>9. <<row.ts, Signature(row)>> \notin Noted(rows, w)
  BY <1>7 DEF Noted
<1>10. p \notin Chosen(rows, w)
  BY DEF Chosen
<1>11. row.ts \notin Clean(rows, w) /\ \A r : row.ts \notin Bad(rows, w, r)
  BY <1>6, <1>8
<1>12. Cardinality(Chosen(new, w)) = b.received + 1
  <2>1. Cardinality(Chosen(rows, w) \cup {p}) = Cardinality(Chosen(rows, w)) + 1
    BY <1>6, <1>10, FS_AddElement
  <2> QED BY <1>4, <1>5, <2>1
<1>13. Cardinality(Noted(new, w)) = Cardinality(Noted(rows, w)) + 1
  <2>1. PICK e : e = <<row.ts, Signature(row)>>
    OBVIOUS
  <2>2. Cardinality(Noted(rows, w) \cup {e}) = Cardinality(Noted(rows, w)) + 1
    BY <1>6, <1>9, <2>1, FS_AddElement
  <2> QED BY <1>4, <2>1, <2>2
<1>14. Cardinality(Told(new, w)) = Cardinality(Told(rows, w)) + 1
  <2>1. Cardinality(Told(rows, w) \cup {row.ts}) = Cardinality(Told(rows, w)) + 1
    BY <1>6, <1>8, FS_AddElement
  <2> QED BY <1>4, <2>1
<1>15. \A r \in Reasons : n.reasons[r] = Cardinality(Bad(new, w, r))
  <2>1. SUFFICES ASSUME NEW r \in Reasons PROVE n.reasons[r] = Cardinality(Bad(new, w, r))
    OBVIOUS
  <2>2. PICK old : old = Bad(rows, w, r)
    OBVIOUS
  <2>3. IsFiniteSet(old) /\ row.ts \notin old /\ b.reasons[r] = Cardinality(old)
    BY <1>5, <1>6, <1>11, <2>2
  <2>4. Cardinality(old) \in Nat
    BY <2>3, FS_CardinalityType
  <2>5. Cardinality(old \cup {row.ts}) = Cardinality(old) + 1
    BY <2>3, FS_AddElement
  <2>6. CASE row.flaws # {} /\ Reason(row.flaws) = r
    <3>1. Bad(new, w, r) = old \cup {row.ts}
      BY <1>4, <2>2, <2>6
    <3>2. n.reasons[r] = b.reasons[r] + 1
      BY <1>2, <2>6
    <3> QED BY <2>3, <2>5, <3>1, <3>2
  <2>7. CASE row.flaws # {} /\ Reason(row.flaws) # r
    <3>1. Bad(new, w, r) = old
      BY <1>4, <2>2, <2>7
    <3>2. n.reasons[r] = b.reasons[r] + 0
      BY <1>2, <2>7
    <3> QED BY <2>3, <2>4, <3>1, <3>2
  <2>8. CASE row.flaws = {}
    <3>1. Bad(new, w, r) = old
      BY <1>4, <2>2, <2>8
    <3> QED BY <1>2, <2>3, <2>8, <3>1
  <2> QED BY <2>6, <2>7, <2>8
<1>16. Consistent(new, w)
  <2>1. \A q \in Chosen(new, w) : q = p \/ (q \in Chosen(rows, w) /\ new[q] = rows[q])
    BY <1>3, <1>4 DEF Chosen
  <2>2. \A q, r \in Chosen(rows, w) :
          rows[q].ts = rows[r].ts => Signature(rows[q]) = Signature(rows[r])
    BY <1>5 DEF Consistent
  <2> QED BY <1>3, <1>7, <2>1, <2>2 DEF Consistent
<1>17. row.ts \in Nat
  BY RowFacts
<1>18. /\ Imported(n) = Clean(new, w) /\ Cardinality(Imported(n)) = Len(n.records)
       /\ Len(n.records) + n.rejected = Len(b.records) + b.rejected + 1
  <2>1. CASE row.flaws = {}
    <3>1. Imported(n) = Imported(b) \cup {row.ts} /\ Len(n.records) = Len(b.records) + 1
      BY <1>1, <1>2, <1>17, <2>1, RecordMore
    <3>2. Cardinality(Imported(b) \cup {row.ts}) = Cardinality(Imported(b)) + 1
      BY <1>5, <1>6, <1>11, FS_AddElement
    <3>3. Imported(n) = Clean(new, w)
      BY <1>4, <1>5, <2>1, <3>1
    <3>4. Cardinality(Imported(n)) = Len(n.records)
      BY <1>5, <3>1, <3>2
    <3>5. PICK l \in Nat, z \in Nat : l = Len(b.records) /\ z = b.rejected
      BY <1>1, BatchNumbers
    <3>6. Len(n.records) = l + 1 /\ n.rejected = z
      BY <1>2, <2>1, <3>1, <3>5
    <3> QED BY <3>3, <3>4, <3>5, <3>6
  <2>2. CASE row.flaws # {}
    <3>1. Imported(n) = Imported(b)
      BY <1>2, <2>2 DEF Imported
    <3>2. Imported(n) = Clean(new, w) /\ Cardinality(Imported(n)) = Len(n.records)
      BY <1>2, <1>4, <1>5, <2>2, <3>1
    <3>3. PICK l \in Nat, z \in Nat : l = Len(b.records) /\ z = b.rejected
      BY <1>1, BatchNumbers
    <3>4. Len(n.records) = l /\ n.rejected = z + 1
      BY <1>2, <2>2, <3>3
    <3> QED BY <3>2, <3>3, <3>4
  <2> QED BY <2>1, <2>2
<1>19. /\ n.source_rows = n.received + n.outside_window
       /\ n.received = Len(n.records) + n.rejected + n.duplicates
       /\ n.received = n.duplicates + Cardinality(Noted(new, w))
       /\ Len(n.records) + n.rejected = Cardinality(Told(new, w))
  <2>1. PICK c \in Nat : c = Cardinality(Noted(rows, w))
    BY <1>6, FS_CardinalityType
  <2>2. PICK l \in Nat, m \in Nat, k \in Nat :
          l = Len(b.records) /\ m = Len(n.records) /\ k = n.rejected
    BY <1>1, <1>2, BatchNumbers
  <2>3. PICK u \in Nat, v \in Nat, x \in Nat, y \in Nat, z \in Nat :
          /\ u = b.source_rows /\ v = b.received /\ x = b.outside_window
          /\ y = b.duplicates /\ z = b.rejected
    BY <1>1, BatchNumbers
  <2>4. u = v + x /\ v = l + z + y /\ v = y + c /\ l + z = Cardinality(Told(rows, w))
    BY <1>5, <2>1, <2>2, <2>3
  <2>5. /\ n.source_rows = u + 1 /\ n.received = v + 1 /\ n.outside_window = x
        /\ n.duplicates = y /\ m + k = l + z + 1
        /\ Cardinality(Noted(new, w)) = c + 1 /\ Cardinality(Told(new, w)) = (l + z) + 1
    BY <1>2, <1>13, <1>14, <1>18, <2>1, <2>2, <2>3, <2>4
  <2>6. n.source_rows = n.received + n.outside_window
    <3>1. u + 1 = (v + 1) + x
      BY <2>4
    <3> QED BY <2>5, <3>1
  <2>7. n.received = n.duplicates + Cardinality(Noted(new, w))
    <3>1. v + 1 = y + (c + 1)
      BY <2>4
    <3> QED BY <2>5, <3>1
  <2>8. m + k = Cardinality(Told(new, w))
    BY <2>2, <2>3, <2>5
  <2>9. n.received = m + k + n.duplicates
    <3>1. v + 1 = m + k + y
      BY <2>4, <2>5
    <3> QED BY <2>5, <3>1
  <2> QED BY <2>2, <2>6, <2>7, <2>8, <2>9
<1>20. n.seen = Noted(new, w) /\ n.received = Cardinality(Chosen(new, w))
  BY <1>2, <1>4, <1>5, <1>12 DEF Pair
<1> QED BY <1>2, <1>15, <1>16, <1>18, <1>19, <1>20 DEF AgreesWith

(* A readable row more keeps the batch in agreement with the rows. *)
LEMMA RowAgrees ==
  ASSUME NEW rows, AreRows(rows), NEW w, NEW b, AgreesWith(b, rows, w), NEW row \in SourceRows,
         NEW year, ~Unreadable(row, year), NEW p, p \notin DOMAIN rows
  PROVE  AgreesWith(ParseRow(b, row, year, w), With(rows, p, row), w)
<1>1. CASE b.failed
  BY <1>1, AgreesRefused
<1>2. CASE ~b.failed /\ row.ts \notin w
  BY <1>2, AgreesOutside
<1>3. CASE ~b.failed /\ row.ts \in w /\ KnownAt(b, row) = {}
  BY <1>3, AgreesFresh
<1>4. CASE ~b.failed /\ row.ts \in w /\ KnownAt(b, row) = {Pair(row)}
  BY <1>4, AgreesRepeated
<1>5. CASE ~b.failed /\ row.ts \in w /\ KnownAt(b, row) # {} /\ KnownAt(b, row) # {Pair(row)}
  BY <1>5, AgreesRefused
<1> QED BY <1>1, <1>2, <1>3, <1>4, <1>5

LEMMA ParseRowType ==
  ASSUME NEW b \in Batches, NEW row \in SourceRows, NEW year, NEW w
  PROVE  ParseRow(b, row, year, w) \in Batches
<1>1. CASE b.failed \/ Unreadable(row, year)
  BY <1>1, RowRefused
<1>2. CASE ~b.failed /\ ~Unreadable(row, year) /\ row.ts \notin w
  BY <1>2, RowOutside
<1>3. CASE ~b.failed /\ ~Unreadable(row, year) /\ row.ts \in w /\ KnownAt(b, row) = {}
  BY <1>3, RowFresh
<1>4. CASE ~b.failed /\ ~Unreadable(row, year) /\ row.ts \in w /\ KnownAt(b, row) = {Pair(row)}
  BY <1>4, RowRepeated
<1>5. CASE row.ts \in w /\ KnownAt(b, row) # {} /\ KnownAt(b, row) # {Pair(row)}
  BY <1>5, RowRefused
<1> QED BY <1>1, <1>2, <1>3, <1>4, <1>5

(* f[n] is the batch b with the first n of the rows. *)
RowsAfter(b, rows, year, w, f) ==
  f = [n \in 0..Len(rows) |-> IF n = 0 THEN b ELSE ParseRow(f[n - 1], rows[n], year, w)]

LEMMA ChunkIsRowByRow ==
  ASSUME NEW b \in Batches, NEW rows \in Seq(SourceRows), Len(rows) <= MaxRows, NEW year, NEW w
  PROVE  \E f \in [0..Len(rows) -> Batches] :
           /\ f[0] = b
           /\ \A n \in 1..Len(rows) : f[n] = ParseRow(f[n - 1], rows[n], year, w)
           /\ ParseChunk(b, rows, year, w) = f[Len(rows)]
<1>1. PICK l \in Nat : l = Len(rows)
  OBVIOUS
<1>2. \A n \in 1..l : rows[n] \in SourceRows
  BY <1>1
<1> DEFINE step == [x \in (1..l) \X Batches |-> ParseRow(x[2], rows[x[1]], year, w)]
<1>0. PICK move : move = step
  OBVIOUS
<1>3. \A n \in 1..l : \A s \in Batches :
        move[<<n, s>>] = ParseRow(s, rows[n], year, w) /\ move[<<n, s>>] \in Batches
  BY <1>0, <1>2, ParseRowType
<1> HIDE DEF step
<1>4. PICK f \in [0..l -> Batches] : f[0] = b /\ \A n \in 1..l : f[n] = move[<<n, f[n - 1]>>]
  <2>1. \A i \in 1..l : \A s \in Batches : move[<<i, s>>] \in Batches
    BY <1>3
  <2>2. PICK f : Recursion(f, Batches, b, l, move)
    BY <2>1, RecursionExists
  <2> QED BY <2>2 DEF Recursion
<1>5. \A n \in 1..l : f[n] = ParseRow(f[n - 1], rows[n], year, w)
  <2>1. \A n \in 1..l : n - 1 \in 0..l
    BY <1>1
  <2> QED BY <1>3, <1>4, <2>1
<1>6. RowsAfter(b, rows, year, w, f)
  <2>1. \A n \in 0..l : f[n] = IF n = 0 THEN b ELSE ParseRow(f[n - 1], rows[n], year, w)
    <3>1. \A n \in 0..l : n # 0 => n \in 1..l
      BY <1>1
    <3> QED BY <1>4, <1>5, <3>1
  <2> QED BY <1>1, <1>4, <2>1 DEF RowsAfter
<1> DEFINE after == CHOOSE g : RowsAfter(b, rows, year, w, g)
<1>7. RowsAfter(b, rows, year, w, after)
  BY <1>6
<1>8. ParseChunk(b, rows, year, w) = after[l]
  <2>1. ~(l > MaxRows)
    BY <1>1, LengthAssumption
  <2> HIDE DEF after
  <2>2. ParseChunk(b, rows, year, w) = (CHOOSE g : RowsAfter(b, rows, year, w, g))[l]
    BY <1>1, <2>1 DEF ParseChunk, RowsAfter
  <2> QED BY <2>2 DEF after
<1> HIDE DEF after
<1>9. /\ after[0] = b /\ \A n \in 1..l : after[n] = ParseRow(after[n - 1], rows[n], year, w)
      /\ DOMAIN after = 0..l /\ after = [n \in 0..l |-> after[n]]
  <2> DEFINE g == [n \in 0..l |-> IF n = 0 THEN b ELSE ParseRow(after[n - 1], rows[n], year, w)]
  <2>1. after = g
    BY <1>1, <1>7 DEF RowsAfter
  <2>2. /\ g[0] = b /\ \A n \in 1..l : g[n] = ParseRow(after[n - 1], rows[n], year, w)
        /\ DOMAIN g = 0..l /\ g = [n \in 0..l |-> g[n]]
    OBVIOUS
  <2> HIDE DEF g
  <2> QED BY <2>1, <2>2
<1>10. \A n \in 0..l : after[n] = f[n]
  <2> DEFINE T == {n \in 0..l : after[n] # f[n]}
  <2>1. SUFFICES ASSUME T # {} PROVE FALSE
    OBVIOUS
  <2>2. PICK n \in T : \A j \in T : n <= j
    <3>1. T \subseteq Nat
      OBVIOUS
    <3> HIDE DEF T
    <3> QED BY <2>1, <3>1, SmallestOf
  <2>3. n \in 0..l /\ after[n] # f[n] /\ n # 0
    BY <1>4, <1>9, <2>2
  <2>4. n \in 1..l /\ n - 1 \in 0..l /\ ~(n <= n - 1)
    BY <2>3
  <2>5. after[n - 1] = f[n - 1]
    BY <2>2, <2>4
  <2> QED BY <1>5, <1>9, <2>3, <2>4, <2>5
<1> QED BY <1>1, <1>4, <1>5, <1>8, <1>10

(* The rows all, and the first m rows of the file c. *)
Extended(all, c, rows, m) ==
  [p \in DOMAIN all \cup ({c} \X (1..m)) |-> IF p \in DOMAIN all THEN all[p] ELSE rows[p[2]]]

LEMMA ExtendedByOne ==
  ASSUME NEW all, NEW c, NEW rows, NEW m \in Nat, m # 0,
         \A n \in Nat : <<c, n>> \notin DOMAIN all
  PROVE  Extended(all, c, rows, m) = With(Extended(all, c, rows, m - 1), <<c, m>>, rows[m])
         /\ <<c, m>> \notin DOMAIN Extended(all, c, rows, m - 1)
<1>1. PICK p : p = <<c, m>>
  OBVIOUS
<1>2. p \notin DOMAIN all /\ p[2] = m
  BY <1>1
<1>3. DOMAIN Extended(all, c, rows, m) = DOMAIN all \cup ({c} \X (1..m))
      /\ DOMAIN Extended(all, c, rows, m - 1) = DOMAIN all \cup ({c} \X (1..(m - 1)))
  BY DEF Extended
<1>4. {c} \X (1..m) = ({c} \X (1..(m - 1))) \cup {p}
  <2>1. 1..m = (1..(m - 1)) \cup {m}
    OBVIOUS
  <2> QED BY <1>1, <2>1
<1>5. p \notin {c} \X (1..(m - 1))
  BY <1>1
<1>6. \A q \in DOMAIN all \cup ({c} \X (1..m)) :
        Extended(all, c, rows, m)[q] = With(Extended(all, c, rows, m - 1), p, rows[m])[q]
  BY <1>2, <1>4, <1>5 DEF Extended, With
<1> QED BY <1>1, <1>2, <1>3, <1>4, <1>5, <1>6 DEF Extended, With

LEMMA ExtendedIsRows ==
  ASSUME NEW all, AreRows(all), NEW c, NEW rows, NEW m \in Nat, \A n \in 1..m : rows[n] \in SourceRows,
         \A n \in Nat : <<c, n>> \notin DOMAIN all
  PROVE  AreRows(Extended(all, c, rows, m))
<1>1. IsFiniteSet({c} \X (1..m))
  <2>1. IsFiniteSet({c})
    BY FS_Singleton
  <2>2. 1 \in Int /\ m \in Int
    OBVIOUS
  <2>3. IsFiniteSet(1..m)
    BY <2>2, FS_Interval
  <2> QED BY <2>1, <2>3, FS_Product
<1>2. IsFiniteSet(DOMAIN all \cup ({c} \X (1..m)))
  BY <1>1, FS_Union DEF AreRows
<1>3. ASSUME NEW p \in DOMAIN all \cup ({c} \X (1..m))
      PROVE  Extended(all, c, rows, m)[p] \in SourceRows
  <2>1. CASE p \in DOMAIN all
    BY <2>1 DEF AreRows, Extended
  <2>2. CASE p \notin DOMAIN all
    <3>1. p[2] \in 1..m /\ Extended(all, c, rows, m)[p] = rows[p[2]]
      BY <2>2 DEF Extended
    <3> QED BY <3>1
  <2> QED BY <2>1, <2>2
<1>4. DOMAIN Extended(all, c, rows, m) = DOMAIN all \cup ({c} \X (1..m))
  BY DEF Extended
<1> QED BY <1>2, <1>3, <1>4 DEF AreRows

(* A file of readable rows keeps the batch in agreement with the rows, and *)
(* a row that cannot be read makes it fail.                                *)
LEMMA ChunkAgrees ==
  ASSUME NEW all, AreRows(all), NEW w, NEW b, AgreesWith(b, all, w), NEW rows \in Seq(SourceRows),
         Len(rows) <= MaxRows, NEW year, NEW c, \A n \in Nat : <<c, n>> \notin DOMAIN all,
         NEW outcome, outcome = ParseChunk(b, rows, year, w),
         ~outcome.failed \/ \A n \in 1..Len(rows) : ~Unreadable(rows[n], year)
  PROVE  AgreesWith(outcome, Extended(all, c, rows, Len(rows)), w)
<1>1. PICK l \in Nat : l = Len(rows)
  OBVIOUS
<1>2. b \in Batches
  BY DEF AgreesWith
<1>3. PICK f \in [0..l -> Batches] :
        /\ f[0] = b
        /\ \A n \in 1..l : f[n] = ParseRow(f[n - 1], rows[n], year, w)
        /\ outcome = f[l]
  BY <1>1, <1>2, ChunkIsRowByRow
<1>4. \A n \in 1..l : rows[n] \in SourceRows
  BY <1>1
<1> DEFINE Read(m) == \A n \in 1..m : ~Unreadable(rows[n], year)
           Good(m) == IF Read(m) THEN AgreesWith(f[m], Extended(all, c, rows, m), w) ELSE f[m].failed
           T == {m \in 0..l : ~Good(m)}
<1>5. T = {}
  <2>1. SUFFICES ASSUME T # {} PROVE FALSE
    OBVIOUS
  <2>2. PICK m \in T : \A j \in T : m <= j
    <3>1. T \subseteq Nat
      OBVIOUS
    <3> HIDE DEF T
    <3> QED BY <2>1, <3>1, SmallestOf
  <2>3. m \in 0..l /\ ~Good(m)
    BY <2>2
  <2>4. m # 0
    <3>1. ASSUME m = 0 PROVE FALSE
      <4>1. DOMAIN Extended(all, c, rows, 0) = DOMAIN all
        <5>1. 1..0 = {}
          OBVIOUS
        <5>2. {c} \X (1..0) = {}
          BY <5>1
        <5>3. DOMAIN Extended(all, c, rows, 0) = DOMAIN all \cup ({c} \X (1..0))
          BY DEF Extended
        <5> QED BY <5>2, <5>3
      <4>2. Chosen(Extended(all, c, rows, 0), w) = Chosen(all, w)
            /\ \A p \in DOMAIN all : Extended(all, c, rows, 0)[p] = all[p]
        BY <4>1 DEF Extended, Chosen
      <4>3. \A p \in Chosen(all, w) : Extended(all, c, rows, 0)[p] = all[p]
        BY <4>2 DEF Chosen
      <4>4. AgreesWith(b, Extended(all, c, rows, 0), w)
        <5> DEFINE e == Extended(all, c, rows, 0)
        <5>1. /\ Noted(e, w) = Noted(all, w) /\ Told(e, w) = Told(all, w)
              /\ Clean(e, w) = Clean(all, w) /\ \A r : Bad(e, w, r) = Bad(all, w, r)
          BY <4>2, <4>3 DEF Noted, Told, Clean, Bad
        <5>2. Consistent(e, w) <=> Consistent(all, w)
          BY <4>2, <4>3 DEF Consistent
        <5>3. Chosen(e, w) = Chosen(all, w)
          BY <4>2
        <5> HIDE DEF e
        <5>4. AgreesWith(b, e, w)
          BY <5>1, <5>2, <5>3 DEF AgreesWith
        <5> QED BY <5>4 DEF e
      <4>5. Read(0)
        OBVIOUS
      <4> QED BY <1>3, <2>3, <3>1, <4>4, <4>5
    <3> QED BY <3>1
  <2>5. m \in 1..l /\ m - 1 \in 0..l /\ ~(m <= m - 1) /\ m \in Nat /\ m - 1 \in Nat
    BY <2>3, <2>4
  <2>6. Good(m - 1)
    BY <2>2, <2>5
  <2>7. f[m] = ParseRow(f[m - 1], rows[m], year, w) /\ f[m - 1] \in Batches /\ rows[m] \in SourceRows
    BY <1>3, <1>4, <2>5
  <2>8. Read(m) <=> Read(m - 1) /\ ~Unreadable(rows[m], year)
    <3>1. 1..m = (1..(m - 1)) \cup {m}
      BY <2>5
    <3> QED BY <3>1
  <2> HIDE DEF Read
  <2>9. CASE Read(m)
    <3>1. AgreesWith(f[m - 1], Extended(all, c, rows, m - 1), w) /\ ~Unreadable(rows[m], year)
      BY <2>6, <2>8, <2>9
    <3>2. AreRows(Extended(all, c, rows, m - 1))
      <4>1. \A n \in 1..(m - 1) : rows[n] \in SourceRows
        BY <1>4, <2>5
      <4> QED BY <2>5, <4>1, ExtendedIsRows
    <3>3. PICK before : before = Extended(all, c, rows, m - 1)
      OBVIOUS
    <3>4. Extended(all, c, rows, m) = With(before, <<c, m>>, rows[m]) /\ <<c, m>> \notin DOMAIN before
      BY <2>4, <2>5, <3>3, ExtendedByOne
    <3>5. AgreesWith(f[m], With(before, <<c, m>>, rows[m]), w)
      BY <2>7, <3>1, <3>2, <3>3, <3>4, RowAgrees
    <3> QED BY <2>3, <2>9, <3>4, <3>5
  <2>10. CASE ~Read(m)
    <3>1. f[m - 1].failed \/ Unreadable(rows[m], year)
      BY <2>6, <2>8, <2>10
    <3>2. f[m].failed
      BY <2>7, <3>1, RowRefused
    <3> QED BY <2>3, <2>10, <3>2
  <2> QED BY <2>9, <2>10
<1>6. Good(l)
  BY <1>5
<1>7. Read(l)
  BY <1>1, <1>3, <1>6
<1> QED BY <1>1, <1>3, <1>6, <1>7

-----------------------------------------------------------------------------
(* What the counts tell. *)

(* What the two readers make of the same rows. *)

ReasonNames ==
  {"missing_rainfall", "invalid_numeric_value", "trace_rainfall", "unsupported_measurement_code",
   "source_quality_flag", "missing_source_metadata"}

LEMMA ReasonIsNamed ==
  ASSUME NEW F \in SUBSET Flaws, F # {}
  PROVE  Reason(F) \in ReasonNames
<1> DEFINE T == {n \in DOMAIN Checks : Checks[n].flaws \cap F # {}}
<1>1. DOMAIN Checks = 1..6
  BY DEF Checks
<1>2. T # {}
  <2>1. PICK x \in F : x \in Flaws
    OBVIOUS
  <2>2. \E n \in 1..6 : x \in Checks[n].flaws
    BY <2>1 DEF Flaws, Checks
  <2> QED BY <1>1, <2>1, <2>2
<1>3. T \subseteq Nat
  BY <1>1
<1> HIDE DEF T
<1>4. PICK k \in T : \A m \in T : k <= m
  BY <1>2, <1>3, SmallestOf
<1>5. Min(T) \in T
  BY <1>4 DEF Min
<1>6. Min(T) \in 1..6
  BY <1>1, <1>5 DEF T
<1>7. Reason(F) = Checks[Min(T)].reason
  BY DEF Reason, T
<1>8. \A n \in 1..6 : Checks[n].reason \in ReasonNames
  BY DEF Checks, ReasonNames
<1> QED BY <1>6, <1>7, <1>8

LEMMA ReasonsAreNamed == Reasons \subseteq ReasonNames
BY ReasonIsNamed DEF Reasons

(* A set with two elements is one of more than one, and no other set is. *)
LEMMA MoreThanOne ==
  ASSUME NEW S, IsFiniteSet(S), NEW s \in S
  PROVE  /\ (\A x \in S : x = s) => Cardinality(S) = 1
         /\ (\E x \in S : x # s) => Cardinality(S) > 1
<1>1. Cardinality(S) \in Nat /\ Cardinality(S) # 0
  BY FS_CardinalityType, FS_EmptySet
<1>2. Cardinality(S) = 1 <=> \E x : S = {x}
  BY FS_Singleton
<1>3. (\A x \in S : x = s) => S = {s}
  OBVIOUS
<1>4. (\E x \in S : x # s) => ~\E x : S = {x}
  OBVIOUS
<1> QED BY <1>1, <1>2, <1>3, <1>4

(* What is described of the time of a selected row. *)
LEMMA StateOfRow ==
  ASSUME NEW rows, AreRows(rows), NEW n \in Selected(rows)
  PROVE  /\ (\E m \in Selected(rows) : /\ rows[m].ts = rows[n].ts
                                       /\ Signature(rows[m]) # Signature(rows[n])) =>
              StateAt(rows, rows[n].ts) = "conflicting_duplicate"
         /\ (\A m \in Selected(rows) : rows[m].ts = rows[n].ts =>
                                         Signature(rows[m]) = Signature(rows[n])) =>
              StateAt(rows, rows[n].ts) =
                IF rows[n].flaws = {} THEN rows[n].amount ELSE Reason(rows[n].flaws)
<1>1. PICK t, S, s : t = rows[n].ts /\ S = SignaturesAt(rows, t) /\ s = Signature(rows[n])
  OBVIOUS
<1>2. s \in S
  BY <1>1 DEF SignaturesAt
<1>3. \A x \in S : \E m \in Selected(rows) : rows[m].ts = t /\ x = Signature(rows[m])
  BY <1>1 DEF SignaturesAt
<1>4. \A m \in Selected(rows) : rows[m].ts = t => Signature(rows[m]) \in S
  BY <1>1 DEF SignaturesAt
<1>5. IsFiniteSet(S)
  <2> DEFINE D == {m \in Selected(rows) : rows[m].ts = t}
             f == [m \in D |-> Signature(rows[m])]
  <2>1. D \in SUBSET DOMAIN rows
    BY DEF Selected
  <2>2. IsFiniteSet(D)
    <3> HIDE DEF D
    <3> QED BY <2>1, FS_Subset DEF AreRows
  <2>3. f \in Surjection(D, S)
    BY <1>1 DEF Surjection, SignaturesAt
  <2> HIDE DEF D, f
  <2> QED BY <2>2, <2>3, FS_Surjection
<1>6. StateAt(rows, t) =
        IF Cardinality(S) > 1 THEN "conflicting_duplicate"
        ELSE IF (CHOOSE x \in S : TRUE)[1] = {} THEN (CHOOSE x \in S : TRUE)[2]
             ELSE Reason((CHOOSE x \in S : TRUE)[1])
  BY <1>1 DEF StateAt
<1>7. s[1] = rows[n].flaws /\ s[2] = rows[n].amount
  BY <1>1 DEF Signature
<1>8. ASSUME NEW m \in Selected(rows), rows[m].ts = t, Signature(rows[m]) # s
      PROVE  StateAt(rows, t) = "conflicting_duplicate"
  <2>1. \E x \in S : x # s
    BY <1>4, <1>8
  <2> QED BY <1>2, <1>5, <1>6, <2>1, MoreThanOne
<1>9. ASSUME \A m \in Selected(rows) : rows[m].ts = t => Signature(rows[m]) = s
      PROVE  StateAt(rows, t) = IF rows[n].flaws = {} THEN rows[n].amount ELSE Reason(rows[n].flaws)
  <2>1. \A x \in S : x = s
    BY <1>3, <1>9
  <2>2. Cardinality(S) = 1
    BY <1>2, <1>5, <2>1, MoreThanOne
  <2>3. (CHOOSE x \in S : TRUE) = s
    BY <1>2, <2>1
  <2>4. ~(Cardinality(S) > 1)
    BY <2>2
  <2> QED BY <1>6, <1>7, <2>3, <2>4
<1> QED BY <1>1, <1>8, <1>9

LEMMA SelectedIsChosen ==
  ASSUME NEW rows
  PROVE  Selected(rows) = Chosen(rows, Window) /\ Reports(rows) = Told(rows, Window)
BY DEF Selected, Chosen, Reports, Told

(* Of rows that do not contradict each other, each tells its time's state. *)
LEMMA StateOfConsistentRow ==
  ASSUME NEW rows, AreRows(rows), Consistent(rows, Window), NEW n \in Selected(rows)
  PROVE  StateAt(rows, rows[n].ts) =
           IF rows[n].flaws = {} THEN rows[n].amount ELSE Reason(rows[n].flaws)
<1>1. \A m \in Selected(rows) : rows[m].ts = rows[n].ts => Signature(rows[m]) = Signature(rows[n])
  BY SelectedIsChosen DEF Consistent
<1> QED BY <1>1, StateOfRow

(* A state that is not a conflict is what every row of that time tells. *)
LEMMA StateOfAgreedRow ==
  ASSUME NEW rows, AreRows(rows), NEW n \in Selected(rows),
         StateAt(rows, rows[n].ts) # "conflicting_duplicate"
  PROVE  StateAt(rows, rows[n].ts) =
           IF rows[n].flaws = {} THEN rows[n].amount ELSE Reason(rows[n].flaws)
<1>1. \A m \in Selected(rows) : rows[m].ts = rows[n].ts => Signature(rows[m]) = Signature(rows[n])
  BY StateOfRow
<1> QED BY <1>1, StateOfRow

(* What a row tells is never mistaken. *)
LEMMA RowTells ==
  ASSUME NEW rows, AreRows(rows), NEW n \in Selected(rows)
  PROVE  /\ rows[n].flaws = {} => rows[n].amount \in {"observed_zero", "observed_positive"}
         /\ rows[n].flaws # {} => /\ Reason(rows[n].flaws) \in ReasonNames
                                  /\ Reason(rows[n].flaws) \in Reasons
<1>1. rows[n] \in SourceRows
  BY DEF AreRows, Selected
<1>2. rows[n].flaws = {} => rows[n].amount \in {"observed_zero", "observed_positive"}
  BY <1>1 DEF SourceRows
<1>3. rows[n].flaws # {} => Reason(rows[n].flaws) \in ReasonNames
  BY <1>1, RowFacts, ReasonIsNamed
<1> QED BY <1>1, <1>2, <1>3, RowFacts

LEMMA ConflictsAreInconsistent ==
  ASSUME NEW rows, AreRows(rows)
  PROVE  Conflicting(rows) # {} <=> ~Consistent(rows, Window)
<1>1. ASSUME ~Consistent(rows, Window) PROVE Conflicting(rows) # {}
  <2>1. PICK n \in Selected(rows), m \in Selected(rows) :
          rows[m].ts = rows[n].ts /\ Signature(rows[m]) # Signature(rows[n])
    BY <1>1, SelectedIsChosen DEF Consistent
  <2>2. StateAt(rows, rows[n].ts) = "conflicting_duplicate"
    BY <2>1, StateOfRow
  <2>3. rows[n].ts \in Reports(rows)
    BY DEF Reports
  <2> QED BY <2>2, <2>3 DEF Conflicting
<1>2. ASSUME Consistent(rows, Window) PROVE Conflicting(rows) = {}
  <2>1. SUFFICES ASSUME NEW t \in Conflicting(rows) PROVE FALSE
    OBVIOUS
  <2>2. PICK n \in Selected(rows) : rows[n].ts = t
    BY DEF Conflicting, Reports
  <2>3. StateAt(rows, rows[n].ts) = "conflicting_duplicate"
    BY <2>2 DEF Conflicting
  <2>4. StateAt(rows, rows[n].ts) =
          IF rows[n].flaws = {} THEN rows[n].amount ELSE Reason(rows[n].flaws)
    BY <1>2, StateOfConsistentRow
  <2> QED BY <2>3, <2>4, RowTells DEF ReasonNames
<1> QED BY <1>1, <1>2

LEMMA QuantitativeIsClean ==
  ASSUME NEW rows, AreRows(rows), Consistent(rows, Window)
  PROVE  Quantitative(rows) = Clean(rows, Window)
<1>1. ASSUME NEW t \in Quantitative(rows) PROVE t \in Clean(rows, Window)
  <2>1. PICK n \in Selected(rows) : rows[n].ts = t
    BY DEF Quantitative, Reports
  <2>2. StateAt(rows, t) \in {"observed_zero", "observed_positive"}
    BY DEF Quantitative
  <2>3. rows[n].flaws = {}
    BY <2>1, <2>2, StateOfConsistentRow, RowTells DEF ReasonNames
  <2> QED BY <2>1, <2>3, SelectedIsChosen DEF Clean
<1>2. ASSUME NEW t \in Clean(rows, Window) PROVE t \in Quantitative(rows)
  <2>1. PICK n \in Selected(rows) : rows[n].ts = t /\ rows[n].flaws = {}
    BY SelectedIsChosen DEF Clean
  <2>2. StateAt(rows, t) \in {"observed_zero", "observed_positive"}
    BY <2>1, StateOfConsistentRow, RowTells
  <2> QED BY <2>1, <2>2 DEF Quantitative, Reports
<1> QED BY <1>1, <1>2

LEMMA RejectedIsBad ==
  ASSUME NEW rows, AreRows(rows), Consistent(rows, Window), NEW r \in Reasons
  PROVE  {t \in Reports(rows) : StateAt(rows, t) = r} = Bad(rows, Window, r)
<1>0. r \in ReasonNames
  BY ReasonsAreNamed
<1>1. ASSUME NEW t \in Reports(rows), StateAt(rows, t) = r PROVE t \in Bad(rows, Window, r)
  <2>1. PICK n \in Selected(rows) : rows[n].ts = t
    BY DEF Reports
  <2>2. r = IF rows[n].flaws = {} THEN rows[n].amount ELSE Reason(rows[n].flaws)
    BY <1>1, <2>1, StateOfConsistentRow
  <2>3. rows[n].flaws # {} /\ Reason(rows[n].flaws) = r
    BY <1>0, <2>2, RowTells DEF ReasonNames
  <2> QED BY <2>1, <2>3, SelectedIsChosen DEF Bad
<1>2. ASSUME NEW t \in Bad(rows, Window, r) PROVE t \in Reports(rows) /\ StateAt(rows, t) = r
  <2>1. PICK n \in Selected(rows) : rows[n].ts = t /\ rows[n].flaws # {} /\ Reason(rows[n].flaws) = r
    BY SelectedIsChosen DEF Bad
  <2>2. StateAt(rows, t) = r
    BY <2>1, StateOfConsistentRow
  <2> QED BY <2>1, <2>2 DEF Reports
<1> QED BY <1>1, <1>2

LEMMA PairsAreNoted ==
  ASSUME NEW rows
  PROVE  UNION {{t} \X SignaturesAt(rows, t) : t \in Reports(rows)} = Noted(rows, Window)
<1> DEFINE U == UNION {{t} \X SignaturesAt(rows, t) : t \in Reports(rows)}
<1>1. ASSUME NEW x \in U PROVE x \in Noted(rows, Window)
  <2>1. PICK t \in Reports(rows) : x \in {t} \X SignaturesAt(rows, t)
    OBVIOUS
  <2>2. PICK s \in SignaturesAt(rows, t) : x = <<t, s>>
    BY <2>1
  <2>3. PICK n \in Selected(rows) : rows[n].ts = t /\ s = Signature(rows[n])
    BY DEF SignaturesAt
  <2> QED BY <2>2, <2>3, SelectedIsChosen DEF Noted
<1>2. ASSUME NEW x \in Noted(rows, Window) PROVE x \in U
  <2>1. PICK n \in Selected(rows) : x = <<rows[n].ts, Signature(rows[n])>>
    BY SelectedIsChosen DEF Noted
  <2>2. rows[n].ts \in Reports(rows) /\ Signature(rows[n]) \in SignaturesAt(rows, rows[n].ts)
    BY DEF Reports, SignaturesAt
  <2>3. x \in {rows[n].ts} \X SignaturesAt(rows, rows[n].ts)
    BY <2>1, <2>2
  <2> QED BY <2>2, <2>3
<1> QED BY <1>1, <1>2

(* A batch that agrees with the rows agrees with their description. *)
LEMMA CountsFollow ==
  ASSUME AgreesWith(gathered, AllRows(chunks), Window)
  PROVE  CountsReconcile
<1>1. SUFFICES ASSUME ~gathered.failed, NEW rows, rows = AllRows(chunks)
               PROVE  /\ gathered.source_rows = gathered.received + gathered.outside_window
                      /\ gathered.received = Len(gathered.records) + gathered.rejected + gathered.duplicates
                      /\ Cardinality(Imported(gathered)) = Len(gathered.records)
                      /\ Len(gathered.records) + gathered.rejected = Cardinality(Reports(rows))
                      /\ Imported(gathered) =
                           {rows[n].ts : n \in {k \in Selected(rows) : rows[k].flaws = {}}}
  BY DEF CountsReconcile
<1>2. Imported(gathered) = Clean(rows, Window)
  BY <1>1, Tallied
<1>3. Imported(gathered) = {rows[n].ts : n \in {k \in Selected(rows) : rows[k].flaws = {}}}
  BY <1>2, SelectedIsChosen DEF Clean
<1>4. Reports(rows) = Told(rows, Window)
  BY SelectedIsChosen
<1>5. /\ gathered.source_rows = gathered.received + gathered.outside_window
      /\ gathered.received = Len(gathered.records) + gathered.rejected + gathered.duplicates
      /\ Cardinality(Imported(gathered)) = Len(gathered.records)
      /\ Len(gathered.records) + gathered.rejected = Cardinality(Told(rows, Window))
  BY <1>1, Tallied
<1> QED BY <1>3, <1>4, <1>5

LEMMA QualityFollows ==
  ASSUME AreRows(AllRows(chunks)), AgreesWith(gathered, AllRows(chunks), Window)
  PROVE  QualityAgrees
<1>1. PICK rows : rows = AllRows(chunks)
  OBVIOUS
<1>2. AreRows(rows) /\ AgreesWith(gathered, rows, Window)
  BY <1>1
<1>3. gathered.failed <=> Conflicting(rows) # {}
  <2>1. gathered.failed <=> ~Consistent(rows, Window)
    BY <1>2 DEF AgreesWith
  <2>2. Conflicting(rows) # {} <=> ~Consistent(rows, Window)
    BY <1>2, ConflictsAreInconsistent
  <2> QED BY <2>1, <2>2
<1>4. ASSUME ~gathered.failed
      PROVE  /\ Quantitative(rows) = Imported(gathered)
             /\ \A r \in Reasons :
                  gathered.reasons[r] = Cardinality({t \in Reports(rows) : StateAt(rows, t) = r})
             /\ gathered.duplicates = ExactDuplicates(rows)
  <2>1. /\ Consistent(rows, Window) /\ Imported(gathered) = Clean(rows, Window)
        /\ gathered.received = Cardinality(Chosen(rows, Window))
        /\ gathered.received = gathered.duplicates + Cardinality(Noted(rows, Window))
        /\ \A r \in Reasons : gathered.reasons[r] = Cardinality(Bad(rows, Window, r))
    BY <1>2, <1>4, Tallied
  <2>2. Quantitative(rows) = Imported(gathered)
    BY <1>2, <2>1, QuantitativeIsClean
  <2>3. \A r \in Reasons :
          gathered.reasons[r] = Cardinality({t \in Reports(rows) : StateAt(rows, t) = r})
    <3>1. SUFFICES ASSUME NEW r \in Reasons
                   PROVE  gathered.reasons[r] =
                            Cardinality({t \in Reports(rows) : StateAt(rows, t) = r})
      OBVIOUS
    <3>2. {t \in Reports(rows) : StateAt(rows, t) = r} = Bad(rows, Window, r)
      BY <1>2, <2>1, RejectedIsBad
    <3> QED BY <2>1, <3>2
  <2>4. ExactDuplicates(rows) = Cardinality(Chosen(rows, Window)) - Cardinality(Noted(rows, Window))
    BY PairsAreNoted, SelectedIsChosen DEF ExactDuplicates
  <2>5. PICK d \in Nat : d = gathered.duplicates
    BY <1>2, BatchNumbers DEF AgreesWith
  <2>6. PICK c \in Nat : c = Cardinality(Noted(rows, Window))
    <3>1. IsFiniteSet(Noted(rows, Window))
      BY <1>2, FiniteRows
    <3> QED BY <3>1, FS_CardinalityType
  <2>7. Cardinality(Chosen(rows, Window)) = d + c
    BY <2>1, <2>5, <2>6
  <2>8. ExactDuplicates(rows) = d
    BY <2>4, <2>6, <2>7
  <2>9. gathered.duplicates = ExactDuplicates(rows)
    BY <2>5, <2>8
  <2> QED BY <2>2, <2>3, <2>9
<1>5. ASSUME NEW n \in Selected(rows), Issues(rows[n]) # {}, rows[n].ts \in Quantitative(rows)
      PROVE  FALSE
  <2>1. StateAt(rows, rows[n].ts) \in {"observed_zero", "observed_positive"}
    BY <1>5 DEF Quantitative
  <2>2. rows[n].flaws # {}
    BY <1>5 DEF Issues
  <2>3. StateAt(rows, rows[n].ts) = Reason(rows[n].flaws)
    BY <1>2, <2>1, <2>2, StateOfAgreedRow
  <2> QED BY <1>2, <2>1, <2>2, <2>3, RowTells DEF ReasonNames
<1>6. \A n \in Selected(rows) : Issues(rows[n]) # {} => rows[n].ts \notin Quantitative(rows)
  BY <1>5
<1> QED BY <1>1, <1>3, <1>4, <1>6 DEF QualityAgrees

-----------------------------------------------------------------------------
(* Intervals in their order. *)

-----------------------------------------------------------------------------
(* Time that is supported. *)

(* The times covered by intervals, which are apart and in order. *)
Covers(m) == {x \in Int : \E n \in DOMAIN m : m[n][1] <= x /\ x < m[n][2]}

Spans(m, from, to) ==
  /\ m \in Seq(Int \X Int)
  /\ \A n \in DOMAIN m : m[n][1] < m[n][2] /\ from <= m[n][1] /\ m[n][2] <= to
  /\ \A i, j \in DOMAIN m : i < j => m[i][2] < m[j][1]

LEMMA SpanFacts ==
  ASSUME NEW from \in Int, NEW to \in Int, NEW m, Spans(m, from, to)
  PROVE  /\ m \in Seq(Int \X Int) /\ Len(m) \in Nat /\ DOMAIN m = 1..Len(m)
         /\ \A n \in DOMAIN m : /\ m[n][1] \in Int /\ m[n][2] \in Int /\ m[n] = <<m[n][1], m[n][2]>>
                                /\ m[n][1] < m[n][2] /\ from <= m[n][1] /\ m[n][2] <= to
         /\ \A i, j \in DOMAIN m : i < j => m[i][2] < m[j][1]
<1>1. m \in Seq(Int \X Int)
  BY DEF Spans
<1>2. Len(m) \in Nat /\ DOMAIN m = 1..Len(m) /\ \A n \in DOMAIN m : m[n] \in Int \X Int
  BY <1>1
<1>3. \A n \in DOMAIN m : m[n][1] \in Int /\ m[n][2] \in Int /\ m[n] = <<m[n][1], m[n][2]>>
  BY <1>2
<1> QED BY <1>1, <1>2, <1>3 DEF Spans

(* An interval that begins no earlier than the others is added to the last *)
(* one or after it.                                                        *)
LEMMA ExtendSpans ==
  ASSUME NEW from \in Int, NEW to \in Int, NEW m, Spans(m, from, to),
         NEW left \in Int, NEW right \in Int, left < right, from <= left, right <= to,
         \A n \in DOMAIN m : m[n][1] <= left,
         NEW new, new = Extend(m, left, right)
  PROVE  /\ Spans(new, from, to)
         /\ Covers(new) = Covers(m) \cup (left..(right - 1))
         /\ \A n \in DOMAIN new : new[n][1] <= left
<1>1. /\ m \in Seq(Int \X Int)
      /\ \A n \in DOMAIN m : /\ m[n][1] \in Int /\ m[n][2] \in Int /\ m[n] = <<m[n][1], m[n][2]>>
                             /\ m[n][1] < m[n][2] /\ from <= m[n][1] /\ m[n][2] <= to
      /\ \A i, j \in DOMAIN m : i < j => m[i][2] < m[j][1]
  BY SpanFacts
<1>2. PICK l \in Nat : l = Len(m) /\ DOMAIN m = 1..l
  BY SpanFacts
<1>3. CASE m # <<>> /\ left <= m[l][2]
  <2>1. l \in 1..l /\ l \in DOMAIN m
    BY <1>1, <1>2, <1>3
  <2>2. PICK a \in Int, b \in Int : m[l] = <<a, b>> /\ m[l][1] = a /\ m[l][2] = b
    BY <1>1, <2>1
  <2>3. PICK e \in Int : e = Larger(right, b) /\ right <= e /\ b <= e /\ e <= to /\ (e = right \/ e = b)
    BY <1>1, <2>1, <2>2 DEF Larger
  <2>4. new = [m EXCEPT ![l] = <<a, e>>]
    <3>1. new = [m EXCEPT ![l] = <<m[l][1], Larger(right, m[l][2])>>]
      BY <1>2, <1>3 DEF Extend
    <3> QED BY <2>2, <2>3, <3>1
  <2>5. /\ DOMAIN new = 1..l /\ new[l] = <<a, e>> /\ new[l][1] = a /\ new[l][2] = e
        /\ \A n \in 1..l : n # l => new[n] = m[n]
    BY <1>1, <1>2, <2>1, <2>4
  <2>6. new \in Seq(Int \X Int)
    <3>1. <<a, e>> \in Int \X Int
      OBVIOUS
    <3> QED BY <1>1, <2>1, <2>4, <3>1
  <2>7. a < b /\ from <= a /\ a <= left /\ left <= b
    BY <1>1, <1>3, <2>1, <2>2
  <2>8. \A n \in 1..l : new[n][1] = m[n][1]
    BY <2>2, <2>5
  <2>9. \A n \in 1..l : new[n][1] < new[n][2] /\ from <= new[n][1] /\ new[n][2] <= to
    <3>1. SUFFICES ASSUME NEW n \in 1..l
                   PROVE  new[n][1] < new[n][2] /\ from <= new[n][1] /\ new[n][2] <= to
      OBVIOUS
    <3>2. CASE n # l
      <4>1. new[n] = m[n] /\ n \in DOMAIN m
        BY <1>2, <2>5, <3>2
      <4> QED BY <1>1, <4>1
    <3>3. CASE n = l
      <4>1. a < e
        BY <2>3, <2>7
      <4> QED BY <2>3, <2>5, <2>7, <3>3, <4>1
    <3> QED BY <3>2, <3>3
  <2>10. ASSUME NEW i \in 1..l, NEW j \in 1..l, i < j PROVE new[i][2] < new[j][1]
    <3>1. i # l
      BY <2>10
    <3>2. new[i][2] = m[i][2] /\ new[j][1] = m[j][1]
      BY <2>5, <2>8, <3>1
    <3> QED BY <1>1, <1>2, <2>10, <3>2
  <2>11. Spans(new, from, to)
    BY <2>5, <2>6, <2>9, <2>10 DEF Spans
  <2>12. ASSUME NEW x \in Int
         PROVE  x \in Covers(new) <=> x \in Covers(m) \/ x \in left..(right - 1)
    <3>1. ASSUME x \in Covers(new) PROVE x \in Covers(m) \/ x \in left..(right - 1)
      <4>1. PICK n \in 1..l : new[n][1] <= x /\ x < new[n][2]
        BY <2>5, <3>1 DEF Covers
      <4>2. CASE n # l
        <5>1. m[n][1] <= x /\ x < m[n][2]
          BY <2>5, <4>1, <4>2
        <5> QED BY <1>2, <5>1 DEF Covers
      <4>3. CASE n = l
        <5>1. a <= x /\ x < e
          BY <2>5, <4>1, <4>3
        <5>2. CASE x < b
          BY <1>2, <2>1, <2>2, <5>1, <5>2 DEF Covers
        <5>3. CASE ~(x < b)
          BY <2>3, <2>7, <5>1, <5>3
        <5> QED BY <5>2, <5>3
      <4> QED BY <4>2, <4>3
    <3>2. ASSUME x \in Covers(m) PROVE x \in Covers(new)
      <4>1. PICK n \in 1..l : m[n][1] <= x /\ x < m[n][2]
        BY <1>2, <3>2 DEF Covers
      <4>2. new[n][1] <= x /\ x < new[n][2]
        <5>1. CASE n # l
          BY <2>5, <4>1, <5>1
        <5>2. CASE n = l
          BY <2>2, <2>3, <2>5, <4>1, <5>2
        <5> QED BY <5>1, <5>2
      <4> QED BY <2>5, <4>2 DEF Covers
    <3>3. ASSUME x \in left..(right - 1) PROVE x \in Covers(new)
      <4>1. a <= x /\ x < e
        BY <2>3, <2>7, <3>3
      <4> QED BY <2>1, <2>5, <4>1 DEF Covers
    <3> QED BY <3>1, <3>2, <3>3
  <2>13. Covers(new) = Covers(m) \cup (left..(right - 1))
    <3>1. \A x \in Covers(new) : x \in Int
      BY DEF Covers
    <3>2. \A x \in Covers(m) \cup (left..(right - 1)) : x \in Int
      BY DEF Covers
    <3> QED BY <2>12, <3>1, <3>2
  <2>14. \A n \in DOMAIN new : new[n][1] <= left
    BY <1>2, <2>5, <2>8
  <2> QED BY <2>11, <2>13, <2>14
<1>4. CASE m = <<>> \/ ~(left <= m[l][2])
  <2>1. new = Append(m, <<left, right>>)
    BY <1>2, <1>4 DEF Extend
  <2>2. <<left, right>> \in Int \X Int
    OBVIOUS
  <2>3. new \in Seq(Int \X Int)
    BY <1>1, <2>1, <2>2
  <2>4. PICK k \in Nat : k = l + 1
    BY <1>2
  <2>5. /\ DOMAIN new = 1..k /\ new[k] = <<left, right>> /\ new[k][1] = left /\ new[k][2] = right
        /\ \A n \in 1..l : new[n] = m[n]
    BY <1>1, <1>2, <2>1, <2>4
  <2>6. \A n \in 1..k : n = k \/ n \in 1..l
    BY <2>4
  <2>7. \A n \in 1..l : n \in 1..k /\ n < k
    BY <2>4
  <2>8. ASSUME NEW i \in 1..l PROVE m[i][2] < left
    <3>1. l \in DOMAIN m /\ i \in DOMAIN m /\ m # <<>>
      BY <1>1, <1>2
    <3>2. m[l][2] < left
      BY <1>1, <1>4, <3>1
    <3>3. i = l \/ i < l
      BY <1>2
    <3>4. i < l => m[i][2] < m[l][1] /\ m[l][1] < m[l][2]
      BY <1>1, <3>1
    <3> QED BY <1>1, <3>1, <3>2, <3>3, <3>4
  <2>9. \A n \in 1..k : new[n][1] < new[n][2] /\ from <= new[n][1] /\ new[n][2] <= to
    BY <1>1, <1>2, <2>5, <2>6
  <2>10. ASSUME NEW i \in 1..k, NEW j \in 1..k, i < j PROVE new[i][2] < new[j][1]
    <3>1. i \in 1..l
      BY <2>4, <2>10
    <3>2. CASE j = k
      BY <2>5, <2>8, <3>1, <3>2
    <3>3. CASE j \in 1..l
      BY <1>1, <1>2, <2>5, <2>10, <3>1, <3>3
    <3> QED BY <2>6, <3>2, <3>3
  <2>11. Spans(new, from, to)
    BY <2>3, <2>5, <2>9, <2>10 DEF Spans
  <2>12. ASSUME NEW x \in Int
         PROVE  x \in Covers(new) <=> x \in Covers(m) \/ x \in left..(right - 1)
    <3>1. x \in Covers(new) <=> \E n \in 1..k : new[n][1] <= x /\ x < new[n][2]
      BY <2>5 DEF Covers
    <3>2. x \in Covers(m) <=> \E n \in 1..l : m[n][1] <= x /\ x < m[n][2]
      BY <1>2 DEF Covers
    <3>3. x \in left..(right - 1) <=> left <= x /\ x < right
      OBVIOUS
    <3>4. k \in 1..k
      BY <2>4
    <3> QED BY <2>5, <2>6, <2>7, <3>1, <3>2, <3>3, <3>4
  <2>13. Covers(new) = Covers(m) \cup (left..(right - 1))
    <3>1. \A x \in Covers(new) : x \in Int
      BY DEF Covers
    <3>2. \A x \in Covers(m) \cup (left..(right - 1)) : x \in Int
      BY DEF Covers
    <3> QED BY <2>12, <3>1, <3>2
  <2>14. \A n \in DOMAIN new : new[n][1] <= left
    BY <1>2, <2>5, <2>6
  <2> QED BY <2>11, <2>13, <2>14
<1> QED BY <1>3, <1>4

-----------------------------------------------------------------------------
(* Times in their order. *)

(* The times in their order. *)
Rank(times, t) == Cardinality({u \in times : u <= t})

LEMMA RankFacts ==
  ASSUME NEW times \in SUBSET Nat, IsFiniteSet(times), NEW t \in times
  PROVE  /\ Rank(times, t) \in 1..Cardinality(times)
         /\ \A u \in times : u < t => Rank(times, u) < Rank(times, t)
<1> DEFINE below(x) == {u \in times : u <= x}
<1>1. ASSUME NEW x \in times
      PROVE  /\ IsFiniteSet(below(x)) /\ Rank(times, x) \in Nat
             /\ Rank(times, x) <= Cardinality(times)
  <2>1. below(x) \in SUBSET times
    OBVIOUS
  <2>2. PICK S \in SUBSET times : S = below(x)
    BY <2>1
  <2>3. IsFiniteSet(S) /\ Cardinality(S) <= Cardinality(times)
    BY FS_Subset
  <2>4. Cardinality(S) \in Nat
    BY <2>3, FS_CardinalityType
  <2> QED BY <2>2, <2>3, <2>4 DEF Rank
<1>2. Cardinality(times) \in Nat
  BY FS_CardinalityType
<1>3. Rank(times, t) # 0
  <2>1. PICK S : S = below(t)
    OBVIOUS
  <2>2. t <= t
    OBVIOUS
  <2>3. t \in S
    BY <2>1, <2>2
  <2>4. IsFiniteSet(S)
    BY <1>1, <2>1
  <2>5. Cardinality(S) # 0
    BY <2>3, <2>4, FS_EmptySet
  <2> QED BY <2>1, <2>5 DEF Rank
<1>4. ASSUME NEW u \in times, u < t PROVE Rank(times, u) < Rank(times, t)
  <2>1. PICK S, T : S = below(u) /\ T = below(t)
    OBVIOUS
  <2>2. S \in SUBSET T
    <3>1. \A x \in times : x \in Nat
      OBVIOUS
    <3>2. ASSUME NEW x \in S PROVE x \in T
      <4>1. x \in times /\ x <= u /\ x \in Nat /\ u \in Nat /\ t \in Nat
        BY <2>1, <3>1
      <4>2. x <= t
        BY <1>4, <4>1
      <4> QED BY <2>1, <4>1, <4>2
    <3> QED BY <3>2
  <2>3. t \in T /\ t \notin S
    <3>1. t <= t /\ ~(t <= u)
      BY <1>4
    <3> QED BY <2>1, <3>1
  <2>4. IsFiniteSet(T)
    BY <1>1, <2>1
  <2>5. Cardinality(S) <= Cardinality(T) /\ (Cardinality(T) = Cardinality(S) => T = S)
    <3>1. /\ IsFiniteSet(S) /\ Cardinality(S) <= Cardinality(T)
          /\ Cardinality(T) = Cardinality(S) => T = S
      BY <2>2, <2>4, FS_Subset, Zenon
    <3> QED BY <3>1
  <2>6. Cardinality(S) # Cardinality(T)
    BY <2>3, <2>5
  <2>7. Rank(times, u) = Cardinality(S) /\ Rank(times, t) = Cardinality(T)
    BY <2>1 DEF Rank
  <2>8. PICK i \in Nat, j \in Nat : i = Rank(times, u) /\ j = Rank(times, t)
    BY <1>1
  <2> QED BY <2>5, <2>6, <2>7, <2>8
<1>5. Rank(times, t) \in Nat /\ Rank(times, t) <= Cardinality(times)
  BY <1>1
<1>6. PICK r \in Nat, c \in Nat : r = Rank(times, t) /\ c = Cardinality(times)
  BY <1>2, <1>5
<1>7. r \in 1..c
  BY <1>3, <1>5, <1>6
<1> QED BY <1>4, <1>6, <1>7

LEMMA NthTimes ==
  ASSUME NEW times \in SUBSET Nat, IsFiniteSet(times)
  PROVE  /\ Cardinality(times) \in Nat
         /\ \A k \in 1..Cardinality(times) : NthTime(times, k) \in times
         /\ \A j, k \in 1..Cardinality(times) : j < k => NthTime(times, j) < NthTime(times, k)
         /\ \A t \in times : \E k \in 1..Cardinality(times) : t = NthTime(times, k)
<1>1. PICK c \in Nat : c = Cardinality(times)
  BY FS_CardinalityType
<1> DEFINE f == [t \in times |-> Rank(times, t)]
<1>2. f \in [times -> 1..c] /\ \A t \in times : f[t] = Rank(times, t)
  BY <1>1, RankFacts
<1> HIDE DEF f
<1>3. ASSUME NEW t \in times, NEW u \in times, t # u PROVE f[t] # f[u]
  <2>1. t < u \/ u < t
    BY <1>3
  <2>2. f[t] \in 1..c /\ f[u] \in 1..c
    BY <1>2
  <2>3. f[t] < f[u] \/ f[u] < f[t]
    BY <1>2, <2>1, RankFacts
  <2> QED BY <2>2, <2>3
<1>4. f \in Injection(times, 1..c)
  BY <1>2, <1>3 DEF Injection, IsInjective
<1>5. IsFiniteSet(1..c) /\ Cardinality(1..c) = c
  <2>1. 1 \in Int /\ c \in Int
    OBVIOUS
  <2>2. IsFiniteSet(1..c) /\ Cardinality(1..c) = IF 1 > c THEN 0 ELSE c - 1 + 1
    BY <2>1, FS_Interval
  <2> QED BY <2>2
<1>6. f \in Surjection(times, 1..c)
  <2>1. PICK T : T = 1..c
    OBVIOUS
  <2>2. f \in Injection(times, T) /\ IsFiniteSet(T) /\ Cardinality(times) = Cardinality(T)
    BY <1>1, <1>4, <1>5, <2>1
  <2>3. f \in Surjection(times, T)
    BY <2>2, FS_Injection, Zenon
  <2> QED BY <2>1, <2>3
<1>7. ASSUME NEW k \in 1..c PROVE NthTime(times, k) \in times /\ f[NthTime(times, k)] = k
  <2>1. PICK t \in times : f[t] = k
    BY <1>6 DEF Surjection
  <2>2. Cardinality({u \in times : u <= t}) = k
    BY <1>2, <2>1 DEF Rank
  <2>3. NthTime(times, k) \in times /\ Cardinality({u \in times : u <= NthTime(times, k)}) = k
    BY <2>2 DEF NthTime
  <2> QED BY <1>2, <2>3 DEF Rank
<1>8. ASSUME NEW j \in 1..c, NEW k \in 1..c, j < k PROVE NthTime(times, j) < NthTime(times, k)
  <2>1. PICK t \in times, u \in times : t = NthTime(times, j) /\ u = NthTime(times, k)
    BY <1>7
  <2>2. f[t] = j /\ f[u] = k
    BY <1>7, <2>1
  <2>3. t # u
    BY <1>8, <2>2
  <2>4. ~(u < t)
    <3>1. u < t => f[u] < f[t]
      BY <1>2, RankFacts
    <3> QED BY <1>8, <2>2, <3>1
  <2>5. t \in Nat /\ u \in Nat
    OBVIOUS
  <2> QED BY <2>1, <2>3, <2>4, <2>5
<1>9. ASSUME NEW t \in times PROVE \E k \in 1..c : t = NthTime(times, k)
  <2>1. f[t] \in 1..c
    BY <1>2
  <2>2. PICK k \in 1..c : k = f[t]
    BY <2>1
  <2>3. NthTime(times, k) \in times /\ f[NthTime(times, k)] = f[t]
    BY <1>7, <2>2
  <2>4. NthTime(times, k) = t
    BY <1>3, <2>3
  <2> QED BY <2>4
<1>10. \A k \in 1..c : NthTime(times, k) \in times
  BY <1>7
<1> HIDE DEF f
<1> QED BY <1>1, <1>8, <1>9, <1>10

(* The times of a window for which there is a report. *)
Covered(times, from, to) ==
  {x \in from..(to - 1) : \E t \in times : t - Interval <= x /\ x < t}

(* The interval of a report, clipped, is added to the intervals. *)
Cover(merged, t, from, to) ==
  IF Larger(from, t - Interval) >= Smaller(to, t) THEN merged
  ELSE Extend(merged, Larger(from, t - Interval), Smaller(to, t))

BeginBy(m, left) == \A n \in DOMAIN m : m[n][1] <= left

LEMMA CoverSpans ==
  ASSUME NEW from \in Int, NEW to \in Int, NEW m, Spans(m, from, to), NEW t \in Nat,
         BeginBy(m, Larger(from, t - Interval)),
         NEW new, new = Cover(m, t, from, to)
  PROVE  /\ Spans(new, from, to)
         /\ Covers(new) = Covers(m) \cup Covered({t}, from, to)
         /\ BeginBy(new, Larger(from, t - Interval))
<1> USE DEF BeginBy
<1>1. Interval \in Nat \ {0}
  BY LengthAssumption
<1>2. PICK left \in Int, right \in Int :
        /\ left = Larger(from, t - Interval) /\ right = Smaller(to, t)
        /\ from <= left /\ t - Interval <= left /\ (left = from \/ left = t - Interval)
        /\ right <= to /\ right <= t /\ (right = to \/ right = t)
  BY <1>1 DEF Larger, Smaller
<1>3. Covered({t}, from, to) = left..(right - 1)
  <2>1. ASSUME NEW x \in Int
        PROVE  x \in from..(to - 1) /\ t - Interval <= x /\ x < t <=> x \in left..(right - 1)
    BY <1>1, <1>2
  <2>2. Covered({t}, from, to) = {x \in from..(to - 1) : t - Interval <= x /\ x < t}
    BY DEF Covered
  <2>3. \A x \in left..(right - 1) : x \in Int
    OBVIOUS
  <2>4. \A x \in from..(to - 1) : x \in Int
    OBVIOUS
  <2>5. ASSUME NEW x
        PROVE  x \in Covered({t}, from, to) <=> x \in left..(right - 1)
    <3>1. CASE x \in Int
      BY <2>1, <2>2, <3>1
    <3>2. CASE x \notin Int
      BY <2>2, <2>3, <2>4, <3>2
    <3> QED BY <3>1, <3>2
  <2> QED BY <2>5
<1>4. CASE left >= right
  <2>1. new = m
    BY <1>2, <1>4 DEF Cover
  <2>2. left..(right - 1) = {}
    BY <1>4
  <2> QED BY <1>2, <1>3, <2>1, <2>2
<1>5. CASE ~(left >= right)
  <2>1. new = Extend(m, left, right)
    BY <1>2, <1>5 DEF Cover
  <2>2. left < right
    BY <1>5
  <2>3. \A n \in DOMAIN m : m[n][1] <= left
    BY <1>2
  <2>4. /\ Spans(new, from, to)
        /\ Covers(new) = Covers(m) \cup (left..(right - 1))
        /\ \A n \in DOMAIN new : new[n][1] <= left
    BY <1>2, <2>1, <2>2, <2>3, ExtendSpans
  <2>5. Covers(new) = Covers(m) \cup Covered({t}, from, to)
    BY <1>3, <2>4
  <2>6. \A n \in DOMAIN new : new[n][1] <= Larger(from, t - Interval)
    BY <1>2, <2>4
  <2> QED BY <2>4, <2>5, <2>6
<1> QED BY <1>4, <1>5

-----------------------------------------------------------------------------
(* The support of times. *)

LEMMA CoverType ==
  ASSUME NEW from \in Int, NEW to \in Int, NEW m \in Seq(Int \X Int), NEW t \in Nat
  PROVE  Cover(m, t, from, to) \in Seq(Int \X Int)
<1>1. PICK left \in Int, right \in Int : left = Larger(from, t - Interval) /\ right = Smaller(to, t)
  <2>1. Interval \in Nat
    BY LengthAssumption
  <2>2. Larger(from, t - Interval) \in Int
    BY <2>1 DEF Larger
  <2>3. Smaller(to, t) \in Int
    BY DEF Smaller
  <2> QED BY <2>2, <2>3
<1>2. Cover(m, t, from, to) = IF left >= right THEN m ELSE Extend(m, left, right)
  BY <1>1 DEF Cover
<1>3. Extend(m, left, right) \in Seq(Int \X Int)
  <2>1. CASE m # <<>> /\ left <= m[Len(m)][2]
    <3>1. PICK l \in Nat : l = Len(m) /\ l \in DOMAIN m
      BY <2>1
    <3>2. m[l] \in Int \X Int
      BY <3>1
    <3>3. PICK a \in Int, b \in Int : a = m[l][1] /\ b = m[l][2]
      BY <3>2
    <3>4. <<a, Larger(right, b)>> \in Int \X Int
      BY DEF Larger
    <3>5. Extend(m, left, right) = [m EXCEPT ![l] = <<a, Larger(right, b)>>]
      BY <2>1, <3>1, <3>3 DEF Extend
    <3> QED BY <3>1, <3>4, <3>5
  <2>2. CASE ~(m # <<>> /\ left <= m[Len(m)][2])
    <3>1. <<left, right>> \in Int \X Int
      OBVIOUS
    <3> QED BY <2>2, <3>1 DEF Extend
  <2> QED BY <2>1, <2>2
<1> QED BY <1>2, <1>3

(* f[k] is the union of the intervals of the first k times. *)
SupportAfter(times, from, to, f) ==
  f = [k \in 0..Cardinality(times) |->
         IF k = 0 THEN <<>> ELSE Cover(f[k - 1], NthTime(times, k), from, to)]

(* The support is the union of the intervals of the reports. *)
LEMMA SupportCovers ==
  ASSUME NEW times \in SUBSET Nat, IsFiniteSet(times), NEW from \in Int, NEW to \in Int
  PROVE  /\ Spans(Support(times, from, to), from, to)
         /\ Covers(Support(times, from, to)) = Covered(times, from, to)
<1>1. PICK c \in Nat : c = Cardinality(times)
  BY NthTimes
<1> DEFINE S == Seq(Int \X Int)
           time(k) == NthTime(times, k)
           step == [x \in (1..c) \X S |-> Cover(x[2], time(x[1]), from, to)]
<1>2. /\ \A k \in 1..c : time(k) \in times /\ time(k) \in Nat
      /\ \A j, k \in 1..c : j < k => time(j) < time(k)
      /\ \A t \in times : \E k \in 1..c : t = time(k)
  BY <1>1, NthTimes
<1> HIDE DEF time
<1>3. PICK move : move = step
  OBVIOUS
<1>4. \A k \in 1..c : \A s \in S :
        move[<<k, s>>] = Cover(s, time(k), from, to) /\ move[<<k, s>>] \in S
  BY <1>2, <1>3, CoverType
<1> HIDE DEF step
<1>5. <<>> \in S
  OBVIOUS
<1>6. PICK f : Recursion(f, S, <<>>, c, move)
  <2>1. \A k \in 1..c : \A s \in S : move[<<k, s>>] \in S
    BY <1>4
  <2> HIDE DEF S
  <2> QED BY <1>5, <2>1, RecursionExists
<1> HIDE DEF S
<1>7. f \in [0..c -> S] /\ f[0] = <<>> /\ \A k \in 1..c : f[k] = Cover(f[k - 1], time(k), from, to)
  <2>1. \A k \in 1..c : k - 1 \in 0..c
    OBVIOUS
  <2> QED BY <1>4, <1>6, <2>1 DEF Recursion
<1>8. SupportAfter(times, from, to, f)
  <2>1. \A k \in 0..c : f[k] = IF k = 0 THEN <<>> ELSE Cover(f[k - 1], time(k), from, to)
    <3>1. \A k \in 0..c : k # 0 => k \in 1..c
      OBVIOUS
    <3> QED BY <1>7, <3>1
  <2> QED BY <1>1, <1>7, <2>1 DEF SupportAfter, time
<1> DEFINE after == CHOOSE g : SupportAfter(times, from, to, g)
<1>9. SupportAfter(times, from, to, after)
  BY <1>8
<1>10. Support(times, from, to) = after[c]
  BY <1>1 DEF Support, SupportAfter, Cover
<1> HIDE DEF after
<1>11. after[0] = <<>> /\ \A k \in 1..c : after[k] = Cover(after[k - 1], time(k), from, to)
  <2> DEFINE g == [k \in 0..c |-> IF k = 0 THEN <<>> ELSE Cover(after[k - 1], time(k), from, to)]
  <2>1. after = g
    BY <1>1, <1>9 DEF SupportAfter, time
  <2>2. g[0] = <<>> /\ \A k \in 1..c : g[k] = Cover(after[k - 1], time(k), from, to)
    OBVIOUS
  <2> HIDE DEF g
  <2> QED BY <2>1, <2>2
<1> DEFINE first(k) == {time(j) : j \in 1..k}
           Good(k) == /\ Spans(after[k], from, to)
                      /\ Covers(after[k]) = Covered(first(k), from, to)
                      /\ \A n \in DOMAIN after[k] :
                           k # 0 /\ after[k][n][1] <= Larger(from, time(k) - Interval)
           T == {k \in 0..c : ~Good(k)}
<1>12. T = {}
  <2>1. SUFFICES ASSUME T # {} PROVE FALSE
    OBVIOUS
  <2>2. PICK k \in T : \A j \in T : k <= j
    <3>1. T \subseteq Nat
      OBVIOUS
    <3> HIDE DEF T
    <3> QED BY <2>1, <3>1, SmallestOf
  <2>3. k \in 0..c /\ ~Good(k)
    BY <2>2
  <2>4. CASE k = 0
    <3>1. PICK m : m = after[0]
      OBVIOUS
    <3>2. m \in Seq(Int \X Int) /\ DOMAIN m = {}
      BY <1>11, <3>1
    <3>3. Spans(m, from, to) /\ Covers(m) = {}
      BY <3>2 DEF Spans, Covers
    <3>4. first(0) = {}
      <4>1. 1..0 = {}
        OBVIOUS
      <4> QED BY <4>1
    <3>5. Covered(first(0), from, to) = {}
      BY <3>4 DEF Covered
    <3> QED BY <2>3, <2>4, <3>1, <3>2, <3>3, <3>5
  <2>5. CASE k # 0
    <3>1. k \in 1..c /\ k - 1 \in 0..c /\ ~(k <= k - 1)
      BY <2>3, <2>5
    <3>2. Good(k - 1)
      BY <2>2, <3>1
    <3>3. PICK t \in Nat : t = time(k)
      BY <1>2, <3>1
    <3>4. PICK m, new : m = after[k - 1] /\ new = after[k]
      OBVIOUS
    <3>5. m = after[k - 1] /\ new = after[k] /\ t = time(k) /\ new = Cover(m, t, from, to)
      BY <1>11, <3>1, <3>3, <3>4
    <3>6. Spans(m, from, to)
      BY <3>2, <3>5
    <3>7. BeginBy(m, Larger(from, t - Interval))
      <4>1. SUFFICES ASSUME NEW n \in DOMAIN m PROVE m[n][1] <= Larger(from, t - Interval)
        BY DEF BeginBy
      <4>2. k - 1 # 0 /\ m[n][1] <= Larger(from, time(k - 1) - Interval)
        BY <3>2, <3>5
      <4>3. k - 1 \in 1..c /\ k - 1 < k
        BY <3>1, <4>2
      <4>4. PICK u \in Nat : u = time(k - 1) /\ u < t
        BY <1>2, <3>1, <3>5, <4>3
      <4>5. m[n][1] \in Int
        BY <3>6, SpanFacts
      <4>6. Interval \in Nat
        BY LengthAssumption
      <4>7. m[n][1] <= Larger(from, u - Interval)
        BY <4>2, <4>4
      <4> HIDE DEF first, Good, T
      <4> QED BY <4>4, <4>5, <4>6, <4>7 DEF Larger
    <3>8. /\ Spans(new, from, to)
          /\ Covers(new) = Covers(m) \cup Covered({t}, from, to)
          /\ BeginBy(new, Larger(from, t - Interval))
      <4>1. new = Cover(m, t, from, to)
        BY <3>5
      <4> HIDE DEF first, Good, T
      <4> QED BY <3>6, <3>7, <4>1, CoverSpans
    <3>9. first(k) = first(k - 1) \cup {t}
      <4>1. 1..k = (1..(k - 1)) \cup {k}
        BY <3>1
      <4> QED BY <3>5, <4>1
    <3>10. Covered(first(k), from, to) = Covered(first(k - 1), from, to) \cup Covered({t}, from, to)
      <4>1. PICK F, G : F = first(k - 1) /\ G = first(k) /\ G = F \cup {t}
        BY <3>9
      <4> HIDE DEF first
      <4>2. Covered(G, from, to) = Covered(F, from, to) \cup Covered({t}, from, to)
        BY <4>1 DEF Covered
      <4> QED BY <4>1, <4>2
    <3>11. Covers(new) = Covered(first(k), from, to)
      BY <3>2, <3>5, <3>8, <3>10
    <3>12. Good(k)
      BY <2>5, <3>5, <3>8, <3>11 DEF BeginBy
    <3> QED BY <2>3, <3>12
  <2> QED BY <2>4, <2>5
<1>13. Good(c)
  <2>1. c \in 0..c
    OBVIOUS
  <2> HIDE DEF Good
  <2> QED BY <1>12, <2>1
<1>14. first(c) = times
  BY <1>2
<1> HIDE DEF first
<1> QED BY <1>10, <1>13, <1>14

-----------------------------------------------------------------------------
(* Minutes. *)

(* f[n] is the length of the first n intervals. *)
MinutesUpto(m, f) ==
  f = [n \in 0..Len(m) |-> IF n = 0 THEN 0 ELSE f[n - 1] + m[n][2] - m[n][1]]

(* The length of intervals that are apart is the number of times they cover. *)
LEMMA MinutesCount ==
  ASSUME NEW from \in Int, NEW to \in Int, NEW m, Spans(m, from, to)
  PROVE  /\ IsFiniteSet(Covers(m)) /\ Minutes(m) = Cardinality(Covers(m))
<1>1. /\ \A n \in DOMAIN m : m[n][1] \in Int /\ m[n][2] \in Int /\ m[n][1] < m[n][2]
      /\ \A i, j \in DOMAIN m : i < j => m[i][2] < m[j][1]
  BY SpanFacts
<1>2. PICK l \in Nat : l = Len(m) /\ DOMAIN m = 1..l
  BY SpanFacts
<1> DEFINE step == [x \in (1..l) \X Int |-> x[2] + m[x[1]][2] - m[x[1]][1]]
<1>3. PICK move : move = step
  OBVIOUS
<1>4. \A k \in 1..l : \A s \in Int :
        move[<<k, s>>] = s + m[k][2] - m[k][1] /\ move[<<k, s>>] \in Int
  BY <1>1, <1>2, <1>3
<1> HIDE DEF step
<1>5. PICK f : Recursion(f, Int, 0, l, move)
  <2>1. \A k \in 1..l : \A s \in Int : move[<<k, s>>] \in Int
    BY <1>4
  <2>2. 0 \in Int
    OBVIOUS
  <2> QED BY <2>1, <2>2, RecursionExists
<1>6. f \in [0..l -> Int] /\ f[0] = 0 /\ \A k \in 1..l : f[k] = f[k - 1] + m[k][2] - m[k][1]
  <2>1. \A k \in 1..l : k - 1 \in 0..l
    OBVIOUS
  <2> QED BY <1>4, <1>5, <2>1 DEF Recursion
<1>7. MinutesUpto(m, f)
  <2>1. \A k \in 0..l : f[k] = IF k = 0 THEN 0 ELSE f[k - 1] + m[k][2] - m[k][1]
    <3>1. \A k \in 0..l : k # 0 => k \in 1..l
      OBVIOUS
    <3> QED BY <1>6, <3>1
  <2> QED BY <1>2, <1>6, <2>1 DEF MinutesUpto
<1> DEFINE upto == CHOOSE g : MinutesUpto(m, g)
<1>8. MinutesUpto(m, upto)
  BY <1>7
<1>9. Minutes(m) = upto[l]
  BY <1>2 DEF Minutes, MinutesUpto
<1> HIDE DEF upto
<1>10. upto[0] = 0 /\ \A k \in 1..l : upto[k] = upto[k - 1] + m[k][2] - m[k][1]
  <2> DEFINE g == [k \in 0..l |-> IF k = 0 THEN 0 ELSE upto[k - 1] + m[k][2] - m[k][1]]
  <2>1. upto = g
    BY <1>2, <1>8 DEF MinutesUpto
  <2>2. g[0] = 0 /\ \A k \in 1..l : g[k] = upto[k - 1] + m[k][2] - m[k][1]
    OBVIOUS
  <2> HIDE DEF g
  <2> QED BY <2>1, <2>2
<1> DEFINE part(k) == {x \in Int : \E n \in 1..k : m[n][1] <= x /\ x < m[n][2]}
           Good(k) == IsFiniteSet(part(k)) /\ upto[k] = Cardinality(part(k))
           T == {k \in 0..l : ~Good(k)}
<1>11. T = {}
  <2>1. SUFFICES ASSUME T # {} PROVE FALSE
    OBVIOUS
  <2>2. PICK k \in T : \A j \in T : k <= j
    <3>1. T \subseteq Nat
      OBVIOUS
    <3> HIDE DEF T
    <3> QED BY <2>1, <3>1, SmallestOf
  <2>3. k \in 0..l /\ ~Good(k)
    BY <2>2
  <2>4. CASE k = 0
    <3>1. 1..0 = {}
      OBVIOUS
    <3>2. part(0) = {}
      BY <3>1
    <3>3. Good(0)
      BY <1>10, <3>2, FS_EmptySet
    <3> QED BY <2>3, <2>4, <3>3
  <2>5. CASE k # 0
    <3>1. k \in 1..l /\ k - 1 \in 0..l /\ ~(k <= k - 1)
      BY <2>3, <2>5
    <3>2. Good(k - 1)
      BY <2>2, <3>1
    <3>3. PICK a \in Int, b \in Int : a = m[k][1] /\ b = m[k][2] /\ a < b
      BY <1>1, <1>2, <3>1
    <3>4. PICK P, Q : P = part(k - 1) /\ Q = part(k)
      OBVIOUS
    <3>5. Q = P \cup (a..(b - 1))
      <4>1. \A n : n \in 1..k <=> n \in 1..(k - 1) \/ n = k
        BY <3>1
      <4>2. \A x \in Int : x \in Q <=> x \in P \/ (a <= x /\ x < b)
        BY <3>3, <3>4, <4>1
      <4>3. \A x \in Int : x \in a..(b - 1) <=> a <= x /\ x < b
        OBVIOUS
      <4>4. \A x \in a..(b - 1) : x \in Int
        OBVIOUS
      <4>5. \A x \in P \cup Q : x \in Int
        BY <3>4
      <4> QED BY <4>2, <4>3, <4>4, <4>5
    <3>6. P \cap (a..(b - 1)) = {}
      <4>1. SUFFICES ASSUME NEW x \in P, x \in a..(b - 1) PROVE FALSE
        OBVIOUS
      <4>2. PICK n \in 1..(k - 1) : m[n][1] <= x /\ x < m[n][2] /\ x \in Int
        BY <3>4
      <4>3. n \in DOMAIN m /\ k \in DOMAIN m /\ n < k
        BY <1>2, <3>1
      <4>4. m[n][2] < a /\ m[n][2] \in Int
        BY <1>1, <3>3, <4>3
      <4>5. a <= x
        BY <4>1
      <4> HIDE DEF T
      <4> QED BY <4>2, <4>4, <4>5
    <3>7. IsFiniteSet(P) /\ upto[k - 1] = Cardinality(P)
      BY <3>2, <3>4
    <3>8. IsFiniteSet(a..(b - 1)) /\ Cardinality(a..(b - 1)) = b - a
      <4>1. b - 1 \in Int /\ ~(a > b - 1) /\ b - 1 - a + 1 = b - a
        BY <3>3
      <4>2. IsFiniteSet(a..(b - 1))
            /\ Cardinality(a..(b - 1)) = IF a > b - 1 THEN 0 ELSE b - 1 - a + 1
        BY <4>1, FS_Interval
      <4> QED BY <4>1, <4>2
    <3>9. IsFiniteSet(Q) /\ Cardinality(Q) = Cardinality(P) + (b - a)
      <4>1. PICK R : R = a..(b - 1)
        OBVIOUS
      <4>2. IsFiniteSet(R) /\ Cardinality(R) = b - a /\ P \cap R = {} /\ Q = P \cup R
        BY <3>5, <3>6, <3>8, <4>1
      <4>3. IsFiniteSet(P \cup R)
            /\ Cardinality(P \cup R) = Cardinality(P) + Cardinality(R) - Cardinality(P \cap R)
        BY <3>7, <4>2, FS_Union
      <4>4. Cardinality(P \cap R) = 0
        BY <4>2, FS_EmptySet
      <4>5. PICK p \in Nat : p = Cardinality(P)
        BY <3>7, FS_CardinalityType
      <4>6. Cardinality(Q) = p + (b - a) - 0
        BY <4>2, <4>3, <4>4, <4>5
      <4> QED BY <4>2, <4>3, <4>5, <4>6
    <3>10. upto[k] = Cardinality(P) + (b - a)
      <4>1. upto[k] = upto[k - 1] + b - a
        BY <1>10, <3>1, <3>3
      <4>2. PICK p \in Nat : p = Cardinality(P)
        BY <3>7, FS_CardinalityType
      <4>3. p + b - a = p + (b - a)
        OBVIOUS
      <4> QED BY <3>7, <4>1, <4>2, <4>3
    <3>11. Good(k)
      BY <3>4, <3>9, <3>10
    <3> QED BY <2>3, <3>11
  <2> QED BY <2>4, <2>5
<1>12. IsFiniteSet(part(l)) /\ upto[l] = Cardinality(part(l))
  <2>1. l \in 0..l
    OBVIOUS
  <2>2. l \notin T
    <3> HIDE DEF T
    <3> QED BY <1>11
  <2>3. Good(l)
    <3> HIDE DEF Good
    <3> QED BY <2>1, <2>2
  <2> QED BY <2>3
<1>13. part(l) = Covers(m)
  BY <1>2 DEF Covers
<1> HIDE DEF part
<1> QED BY <1>9, <1>12, <1>13

-----------------------------------------------------------------------------
(* Gaps. *)

(* The two parts of a sequence that was joined. *)
Joined(S, a, b, c) ==
  /\ c \in Seq(S) /\ Len(c) = Len(a) + Len(b)
  /\ \A n \in 1..Len(a) : c[n] = a[n]
  /\ \A n \in 1..Len(b) : c[Len(a) + n] = b[n]

LEMMA JoinedParts ==
  ASSUME NEW S, NEW a \in Seq(S), NEW b \in Seq(S)
  PROVE  Joined(S, a, b, a \o b)
<1>1. PICK i \in Nat, j \in Nat : i = Len(a) /\ j = Len(b)
  OBVIOUS
<1>2. /\ a \o b \in Seq(S) /\ Len(a \o b) = i + j
      /\ \A n \in 1..(i + j) : (a \o b)[n] = IF n <= i THEN a[n] ELSE b[n - i]
  BY <1>1, ConcatProperties
<1>3. \A n \in 1..i : (a \o b)[n] = a[n]
  <2>1. \A n \in 1..i : n \in 1..(i + j) /\ n <= i
    OBVIOUS
  <2> QED BY <1>2, <2>1
<1>4. \A n \in 1..j : (a \o b)[i + n] = b[n]
  <2>1. \A n \in 1..j : i + n \in 1..(i + j) /\ ~(i + n <= i) /\ (i + n) - i = n
    OBVIOUS
  <2> QED BY <1>2, <2>1
<1> QED BY <1>1, <1>2, <1>3, <1>4 DEF Joined

(* The bounds of a window around its intervals. *)
Around(spans, m, from, to, l) ==
  /\ Len(spans) = l /\ spans[1] = <<from, from>> /\ spans[l] = <<to, to>>
  /\ \A n \in 1..l : n # 1 /\ n # l => n - 1 \in DOMAIN m /\ spans[n] = m[n - 1]
  /\ \A n \in DOMAIN m : n + 1 \in 1..l /\ spans[n + 1] = m[n]

LEMMA Bounded ==
  ASSUME NEW from \in Int, NEW to \in Int, from <= to, NEW m, Spans(m, from, to),
         NEW spans, spans = <<<<from, from>>>> \o m \o <<<<to, to>>>>, NEW l \in Nat, l = Len(m) + 2
  PROVE  Around(spans, m, from, to, l)
<1>1. m \in Seq(Int \X Int) /\ <<<<from, from>>>> \in Seq(Int \X Int)
      /\ <<<<to, to>>>> \in Seq(Int \X Int)
  BY SpanFacts
<1>2. PICK first, last : first = <<<<from, from>>>> /\ last = <<<<to, to>>>>
  OBVIOUS
<1>3. /\ first \in Seq(Int \X Int) /\ Len(first) = 1 /\ first[1] = <<from, from>>
      /\ last \in Seq(Int \X Int) /\ Len(last) = 1 /\ last[1] = <<to, to>>
  BY <1>1, <1>2
<1>4. PICK c \in Nat : c = Len(m) /\ DOMAIN m = 1..c /\ l = c + 2
  BY <1>1
<1>5. PICK begun : begun = first \o m
  OBVIOUS
<1>6. /\ begun \in Seq(Int \X Int) /\ Len(begun) = c + 1 /\ begun[1] = <<from, from>>
      /\ \A n \in 1..c : begun[n + 1] = m[n]
  <2>1. Joined(Int \X Int, first, m, begun)
    BY <1>1, <1>3, <1>5, JoinedParts
  <2>2. 1 \in 1..1 /\ \A n \in 1..c : 1 + n = n + 1
    OBVIOUS
  <2>3. begun[1] = first[1]
    BY <1>3, <2>1, <2>2 DEF Joined
  <2>4. \A n \in 1..c : begun[1 + n] = m[n]
    BY <1>3, <1>4, <2>1 DEF Joined
  <2>5. begun \in Seq(Int \X Int) /\ Len(begun) = 1 + c
    BY <1>3, <1>4, <2>1 DEF Joined
  <2> QED BY <1>3, <2>2, <2>3, <2>4, <2>5
<1>7. spans = begun \o last
  BY <1>2, <1>5
<1>8. /\ Len(spans) = l /\ spans[l] = <<to, to>> /\ \A n \in 1..(c + 1) : spans[n] = begun[n]
  <2>5. Joined(Int \X Int, begun, last, spans)
    BY <1>3, <1>6, <1>7, JoinedParts
  <2>1. Len(spans) = (c + 1) + 1
    BY <1>3, <1>6, <2>5 DEF Joined
  <2>2. spans[(c + 1) + 1] = last[1]
    <3>1. 1 \in 1..1
      OBVIOUS
    <3> QED BY <1>3, <1>6, <2>5, <3>1 DEF Joined
  <2>3. \A n \in 1..(c + 1) : spans[n] = begun[n]
    BY <1>3, <1>6, <2>5 DEF Joined
  <2>4. (c + 1) + 1 = l
    BY <1>4
  <2> QED BY <1>3, <2>1, <2>2, <2>3, <2>4
<1>9. \A n \in 1..l : n # 1 /\ n # l => n - 1 \in 1..c /\ spans[n] = m[n - 1]
  <2>1. SUFFICES ASSUME NEW n \in 1..l, n # 1, n # l
                 PROVE  n - 1 \in 1..c /\ spans[n] = m[n - 1]
    OBVIOUS
  <2>2. n - 1 \in 1..c /\ n \in 1..(c + 1) /\ (n - 1) + 1 = n
    BY <1>4, <2>1
  <2>3. spans[n] = begun[n] /\ begun[(n - 1) + 1] = m[n - 1]
    BY <1>6, <1>8, <2>2
  <2> QED BY <2>2, <2>3
<1>10. \A n \in 1..c : n + 1 \in 1..l /\ spans[n + 1] = m[n]
  <2>1. \A n \in 1..c : n + 1 \in 1..l /\ n + 1 \in 1..(c + 1)
    BY <1>4
  <2> QED BY <1>6, <1>8, <2>1
<1>11. spans[1] = <<from, from>>
  <2>1. 1 \in 1..(c + 1)
    BY <1>4
  <2> QED BY <1>6, <1>8, <2>1
<1> QED BY <1>4, <1>8, <1>9, <1>10, <1>11 DEF Around

(* The gaps are what the intervals of a window leave. *)
LEMMA GapsAreTheRest ==
  ASSUME NEW from \in Int, NEW to \in Int, from <= to, NEW m, Spans(m, from, to)
  PROVE  UNION {g[1]..(g[2] - 1) : g \in Gaps(m, from, to)} = (from..(to - 1)) \ Covers(m)
<1>1. PICK l \in Nat : l = Len(m) + 2 /\ l >= 2
  BY SpanFacts
<1>2. PICK spans : spans = <<<<from, from>>>> \o m \o <<<<to, to>>>>
  OBVIOUS
<1>3. /\ Len(spans) = l /\ spans[1] = <<from, from>> /\ spans[l] = <<to, to>>
      /\ \A n \in 1..l : n # 1 /\ n # l => n - 1 \in DOMAIN m /\ spans[n] = m[n - 1]
      /\ \A n \in DOMAIN m : n + 1 \in 1..l /\ spans[n + 1] = m[n]
  <2>1. Around(spans, m, from, to, l)
    BY <1>1, <1>2, Bounded
  <2> QED BY <2>1 DEF Around
<1>4. /\ \A n \in DOMAIN m : /\ m[n][1] \in Int /\ m[n][2] \in Int
                             /\ m[n][1] < m[n][2] /\ from <= m[n][1] /\ m[n][2] <= to
      /\ \A i, j \in DOMAIN m : i < j => m[i][2] < m[j][1]
      /\ \A n \in DOMAIN m : n \in Nat /\ n # 0
  BY SpanFacts
<1>5. \A n \in 1..l : /\ spans[n][1] \in Int /\ spans[n][2] \in Int
                      /\ spans[n][1] <= spans[n][2] /\ from <= spans[n][1] /\ spans[n][2] <= to
  <2>1. SUFFICES ASSUME NEW n \in 1..l
                 PROVE  /\ spans[n][1] \in Int /\ spans[n][2] \in Int
                        /\ spans[n][1] <= spans[n][2] /\ from <= spans[n][1] /\ spans[n][2] <= to
    OBVIOUS
  <2>2. CASE n = 1
    BY <1>3, <2>2
  <2>3. CASE n = l
    BY <1>3, <2>3
  <2>4. CASE n # 1 /\ n # l
    <3>1. n - 1 \in DOMAIN m /\ spans[n] = m[n - 1]
      BY <1>3, <2>4
    <3> QED BY <1>4, <3>1
  <2> QED BY <2>2, <2>3, <2>4
<1>6. ASSUME NEW i \in 1..l, NEW j \in 1..l, i < j PROVE spans[i][2] <= spans[j][1]
  <2>1. CASE i = 1
    BY <1>3, <1>5, <2>1
  <2>2. CASE j = l
    BY <1>3, <1>5, <2>2
  <2>3. CASE i # 1 /\ j # l
    <3>1. i - 1 \in DOMAIN m /\ spans[i] = m[i - 1] /\ j - 1 \in DOMAIN m /\ spans[j] = m[j - 1]
      <4>1. i # l /\ j # 1
        BY <1>1, <1>6
      <4>2. i - 1 \in DOMAIN m /\ spans[i] = m[i - 1]
        BY <1>3, <2>3, <4>1
      <4> QED BY <1>3, <2>3, <4>1, <4>2
    <3>2. i - 1 < j - 1
      BY <1>6
    <3>3. m[i - 1][2] < m[j - 1][1]
      BY <1>4, <3>1, <3>2
    <3> QED BY <1>5, <3>1, <3>3
  <2> QED BY <2>1, <2>2, <2>3
<1>7. Gaps(m, from, to) =
        {<<spans[n][2], spans[n + 1][1]>> : n \in {k \in 1..(l - 1) : spans[k][2] < spans[k + 1][1]}}
  BY <1>2, <1>3 DEF Gaps
<1> DEFINE U == UNION {g[1]..(g[2] - 1) : g \in Gaps(m, from, to)}
<1>8. ASSUME NEW x \in U PROVE x \in (from..(to - 1)) \ Covers(m)
  <2>1. PICK g \in Gaps(m, from, to) : x \in g[1]..(g[2] - 1)
    OBVIOUS
  <2>2. PICK k \in 1..(l - 1) : g = <<spans[k][2], spans[k + 1][1]>>
    BY <1>7
  <2>3. k \in 1..l /\ k + 1 \in 1..l
    BY <1>1
  <2>4. PICK a \in Int, b \in Int :
          /\ a = spans[k][2] /\ b = spans[k + 1][1] /\ from <= a /\ b <= to /\ x \in a..(b - 1)
    <3>1. PICK p \in Int, q \in Int, r \in Int, s \in Int :
            /\ p = spans[k][1] /\ q = spans[k][2] /\ p <= q /\ from <= p
            /\ r = spans[k + 1][1] /\ s = spans[k + 1][2] /\ r <= s /\ s <= to
      BY <1>5, <2>3
    <3>2. from <= q /\ r <= to
      BY <3>1
    <3> QED BY <2>1, <2>2, <3>1, <3>2
  <2>5. x \in Int /\ a <= x /\ x < b
    BY <2>4
  <2>6. x \in from..(to - 1)
    BY <2>4, <2>5
  <2>7. ASSUME x \in Covers(m) PROVE FALSE
    <3>1. PICK n \in DOMAIN m : m[n][1] <= x /\ x < m[n][2]
      BY <2>7 DEF Covers
    <3>2. PICK i \in 1..l : i = n + 1 /\ spans[i] = m[n]
      BY <1>3
    <3>3. PICK c \in Int, d \in Int : c = m[n][1] /\ d = m[n][2] /\ c <= x /\ x < d
      BY <1>4, <3>1
    <3>4. CASE i <= k
      <4>1. d <= a
        <5>1. CASE i = k
          BY <2>4, <3>2, <3>3, <5>1
        <5>2. CASE i < k
          <6>1. spans[i][2] <= spans[k][1] /\ spans[k][1] <= spans[k][2]
            BY <1>5, <1>6, <2>3, <5>2
          <6>2. spans[k][1] \in Int
            BY <1>5, <2>3
          <6> QED BY <2>4, <3>2, <3>3, <6>1, <6>2
        <5> QED BY <3>4, <5>1, <5>2
      <4> QED BY <2>5, <3>3, <4>1
    <3>5. CASE ~(i <= k)
      <4>1. b <= c
        <5>1. CASE i = k + 1
          BY <2>4, <3>2, <3>3, <5>1
        <5>2. CASE k + 1 < i
          <6>1. spans[k + 1][2] <= spans[i][1] /\ spans[k + 1][1] <= spans[k + 1][2]
            BY <1>5, <1>6, <2>3, <5>2
          <6>2. spans[k + 1][2] \in Int
            BY <1>5, <2>3
          <6> QED BY <2>4, <3>2, <3>3, <6>1, <6>2
        <5>3. i = k + 1 \/ k + 1 < i
          BY <3>5
        <5> QED BY <5>1, <5>2, <5>3
      <4> QED BY <2>5, <3>3, <4>1
    <3> QED BY <3>4, <3>5
  <2> QED BY <2>6, <2>7
<1>9. ASSUME NEW x \in (from..(to - 1)) \ Covers(m) PROVE x \in U
  <2>1. x \in Int /\ from <= x /\ x < to /\ x \notin Covers(m)
    OBVIOUS
  <2> DEFINE T == {n \in 1..l : x < spans[n][2]}
  <2>2. l \in T
    <3>1. l \in 1..l
      BY <1>1
    <3> QED BY <1>3, <2>1, <3>1
  <2>3. T \subseteq Nat
    OBVIOUS
  <2>4. PICK j \in T : \A k \in T : j <= k
    <3> HIDE DEF T
    <3> QED BY <2>2, <2>3, SmallestOf
  <2>5. j \in 1..l /\ x < spans[j][2]
    BY <2>4
  <2>6. j # 1
    BY <1>3, <2>1, <2>5
  <2>7. PICK k \in 1..(l - 1) : j = k + 1 /\ k \in 1..l /\ ~(j <= k)
    <3>1. j - 1 \in 1..(l - 1) /\ j = (j - 1) + 1 /\ j - 1 \in 1..l /\ ~(j <= j - 1)
      BY <1>1, <2>5, <2>6
    <3> QED BY <3>1
  <2>8. PICK a \in Int, b \in Int : a = spans[k][2] /\ b = spans[k + 1][1]
    BY <1>5, <2>5, <2>7
  <2>9. a <= x
    <3>1. k \notin T
      BY <2>4, <2>7
    <3> QED BY <2>1, <2>7, <2>8, <3>1
  <2>10. x < b
    <3>1. CASE j = l
      BY <1>3, <2>1, <2>7, <2>8, <3>1
    <3>2. CASE j # l
      <4>1. j - 1 \in DOMAIN m /\ spans[j] = m[j - 1]
        BY <1>3, <2>5, <2>6, <3>2
      <4>2. ~(m[j - 1][1] <= x /\ x < m[j - 1][2])
        BY <2>1, <4>1 DEF Covers
      <4> QED BY <2>1, <2>5, <2>7, <2>8, <4>1, <4>2
    <3> QED BY <3>1, <3>2
  <2>11. <<a, b>> \in Gaps(m, from, to)
    <3>1. a < b
      BY <2>1, <2>9, <2>10
    <3> QED BY <1>7, <2>7, <2>8, <3>1
  <2>12. x \in <<a, b>>[1]..(<<a, b>>[2] - 1)
    BY <2>1, <2>9, <2>10
  <2> QED BY <2>11, <2>12
<1> QED BY <1>8, <1>9

-----------------------------------------------------------------------------
(* Days and freshness. *)

(* Multiples of the length of a day. *)
LEMMA DayMultiples ==
  \A n \in Nat \ {0} : \A p, q \in Int : p < q => p * n + n <= q * n
OBVIOUS

LEMMA DayDivision ==
  \A n \in Nat \ {0} : \A t \in Int :
    /\ t \div n \in Int /\ (t \div n) * n <= t /\ t < (t \div n) * n + n
OBVIOUS

LEMMA DayOrder ==
  \A n \in Nat \ {0} : \A s, t \in Int : s <= t => s \div n <= t \div n
OBVIOUS

(* A day of the window by its number. *)
DayAt(d) == <<Larger(Start, d * Day), Smaller(End, (d + 1) * Day)>>

(* The part of a day that the window has. *)
LEMMA DayBounds ==
  ASSUME Start \in Nat, End \in Nat, Start < End, NEW d \in Int
  PROVE  /\ DayAt(d)[1] \in Int /\ DayAt(d)[2] \in Int
         /\ \A x \in Int : x \in DayAt(d)[1]..(DayAt(d)[2] - 1) <=>
              Start <= x /\ x < End /\ d * Day <= x /\ x < d * Day + Day
<1>1. Day \in Nat \ {0}
  BY LengthAssumption
<1>2. PICK s \in Int, e \in Int : s = Start /\ e = End
  OBVIOUS
<1>3. PICK n \in Nat \ {0} : n = Day
  BY <1>1
<1>4. \A k \in Int : k * n \in Int /\ (k + 1) * n = k * n + n
  OBVIOUS
<1>5. PICK l \in Int : l = d * Day /\ (d + 1) * Day = l + n
  BY <1>3, <1>4
<1>6. PICK f \in Int, t \in Int : /\ f = Larger(s, l) /\ t = Smaller(e, l + n)
                                  /\ f = (IF s > l THEN s ELSE l)
                                  /\ t = (IF e < l + n THEN e ELSE l + n)
  BY DEF Larger, Smaller
<1>7. DayAt(d) = <<f, t>>
  BY <1>2, <1>5, <1>6 DEF DayAt
<1>8. \A x \in Int : x \in f..(t - 1) <=> s <= x /\ x < e /\ l <= x /\ x < l + n
  BY <1>6
<1> QED BY <1>2, <1>3, <1>5, <1>7, <1>8

(* A time of the window is in the day that its quotient numbers, alone. *)
LEMMA OneDay ==
  ASSUME Start \in Nat, End \in Nat, Start < End, NEW t \in Window
  PROVE  \E d \in Days : \A e \in Days : t \in e[1]..(e[2] - 1) <=> e = d
<1>1. t \in Int /\ Start <= t /\ t < End /\ t <= End - 1 /\ End - 1 \in Int
  BY DEF Window
<1>2. PICK n \in Nat \ {0} : n = Day
  BY LengthAssumption
<1>3. PICK q \in Int : q = t \div n /\ q * n <= t /\ t < q * n + n
  BY <1>1, DayDivision
<1>4. Start \div n <= q /\ q <= (End - 1) \div n /\ Start \div n \in Int /\ (End - 1) \div n \in Int
  BY <1>1, <1>3, DayOrder, DayDivision
<1>5. q \in (Start \div Day)..((End - 1) \div Day)
  BY <1>2, <1>4
<1>6. DayAt(q) \in Days
  BY <1>5 DEF Days, DayAt
<1>7. ASSUME NEW e \in Days
      PROVE  t \in e[1]..(e[2] - 1) <=> e = DayAt(q)
  <2>1. PICK d \in (Start \div Day)..((End - 1) \div Day) : e = DayAt(d)
    BY DEF Days, DayAt
  <2>2. d \in Int
    BY <1>2, <1>4, <2>1
  <2>3. t \in e[1]..(e[2] - 1) <=> d * n <= t /\ t < d * n + n
    BY <1>1, <1>2, <2>1, <2>2, DayBounds
  <2>4. ASSUME d * n <= t, t < d * n + n
        PROVE  d = q
    <3>1. PICK a \in Int, b \in Int : a = d * n /\ b = q * n
      BY <2>2
    <3>2. d < q => a + n <= b
      BY <2>2, <3>1, DayMultiples
    <3>3. q < d => b + n <= a
      BY <2>2, <3>1, DayMultiples
    <3>4. ~(a + n <= b) /\ ~(b + n <= a)
      BY <1>1, <1>3, <2>4, <3>1
    <3> QED BY <2>2, <3>2, <3>3, <3>4
  <2>5. t \in DayAt(q)[1]..(DayAt(q)[2] - 1)
    BY <1>1, <1>2, <1>3, DayBounds
  <2> QED BY <2>1, <2>3, <2>4, <2>5
<1> QED BY <1>6, <1>7

(* What a day covers is what the window covers of it. *)
LEMMA DayCovers ==
  ASSUME Start \in Nat, End \in Nat, Start < End, NEW times \in SUBSET Nat, NEW e \in Days
  PROVE  /\ e[1] \in Int /\ e[2] \in Int
         /\ Covered(times, e[1], e[2]) = Covered(times, Start, End) \cap (e[1]..(e[2] - 1))
<1>1. PICK d \in (Start \div Day)..((End - 1) \div Day) : e = DayAt(d)
  BY DEF Days, DayAt
<1>2. d \in Int
  <2>1. Day \in Nat \ {0} /\ Start \in Int /\ End - 1 \in Int
    BY LengthAssumption
  <2>2. Start \div Day \in Int /\ (End - 1) \div Day \in Int
    BY <2>1, DayDivision
  <2> QED BY <2>2
<1>3. e[1] \in Int /\ e[2] \in Int
  BY <1>1, <1>2, DayBounds
<1>4. \A x \in e[1]..(e[2] - 1) : x \in Start..(End - 1)
  <2>1. \A x \in Int : x \in e[1]..(e[2] - 1) => Start <= x /\ x < End
    BY <1>1, <1>2, DayBounds
  <2> QED BY <1>3, <2>1
<1> QED BY <1>3, <1>4 DEF Covered

(* A finite set of times has a last one. *)
LEMMA LatestTime ==
  ASSUME NEW times \in SUBSET Nat, IsFiniteSet(times), times # {}
  PROVE  Max(times) \in times /\ \A t \in times : t <= Max(times)
<1>1. PICK c \in Nat : c = Cardinality(times)
  BY FS_CardinalityType
<1>2. c # 0
  BY <1>1, FS_EmptySet
<1>3. c \in 1..c /\ \A k \in 1..c : k = c \/ k < c
  BY <1>2
<1> DEFINE time(k) == NthTime(times, k)
<1>4. /\ \A k \in 1..c : time(k) \in times
      /\ \A j, k \in 1..c : j < k => time(j) < time(k)
      /\ \A t \in times : \E k \in 1..c : t = time(k)
  BY <1>1, NthTimes
<1> HIDE DEF time
<1>5. PICK l \in times : l = time(c)
  BY <1>3, <1>4
<1>6. \A t \in times : l >= t
  <2>1. ASSUME NEW t \in times PROVE l >= t
    <3>1. PICK k \in 1..c : t = time(k)
      BY <1>4
    <3>2. t = l \/ t < l
      BY <1>3, <1>4, <1>5, <3>1
    <3> QED BY <3>2
  <2> QED BY <2>1
<1>7. Max(times) \in times /\ \A t \in times : Max(times) >= t
  BY <1>6 DEF Max
<1> QED BY <1>7

(* A series is fresh exactly when one of its times is. *)
LEMMA FreshTimes ==
  ASSUME NEW times \in SUBSET Nat, IsFiniteSet(times), End \in Nat
  PROVE  Freshness(times) = "within_threshold_at_window_end" <=> \E t \in times : t >= End - Stale
<1>1. CASE times = {}
  BY <1>1 DEF Freshness
<1>2. CASE times # {}
  <2>1. PICK l \in times : l = Max(times) /\ \A t \in times : t <= l
    BY <1>2, LatestTime
  <2>2. Stale \in Nat
    BY LengthAssumption
  <2>3. ~(End - l > Stale) <=> l >= End - Stale
    BY <2>2
  <2>4. (\E t \in times : t >= End - Stale) <=> l >= End - Stale
    BY <2>1, <2>2
  <2>5. Freshness(times) = "within_threshold_at_window_end" <=> ~(End - l > Stale)
    BY <1>2, <2>1 DEF Freshness
  <2> QED BY <2>3, <2>4, <2>5
<1> QED BY <1>1, <1>2

(* The support of the reports of a window, its gaps and its days. *)
LEMMA SupportFollows ==
  ASSUME AreRows(AllRows(chunks)), Start \in Nat, End \in Nat, Start < End
  PROVE  SupportIsUnion
<1>1. PICK times : times = Quantitative(AllRows(chunks))
  OBVIOUS
<1>2. times \in SUBSET Nat /\ IsFiniteSet(times)
  <2>1. PICK told : told = Told(AllRows(chunks), Window)
    OBVIOUS
  <2>2. IsFiniteSet(told) /\ told \in SUBSET Nat
    BY <2>1, FiniteRows
  <2>3. times \in SUBSET told
    BY <1>1, <2>1 DEF Quantitative, Reports, Selected, Told, Chosen
  <2> QED BY <2>2, <2>3, FS_Subset
<1>3. PICK covered : covered = {t \in Window : \E r \in times : r - Interval <= t /\ t < r}
  OBVIOUS
<1>4. covered = Covered(times, Start, End)
  BY <1>3 DEF Covered, Window
<1>5. PICK support : support = Support(times, Start, End)
  OBVIOUS
<1>6. Spans(support, Start, End) /\ Covers(support) = covered
  BY <1>2, <1>4, <1>5, SupportCovers
<1>7. Minutes(support) = Cardinality(covered)
  BY <1>6, MinutesCount
<1>8. UNION {g[1]..(g[2] - 1) : g \in Gaps(support, Start, End)} = Window \ covered
  BY <1>6, GapsAreTheRest DEF Window
<1>9. ASSUME NEW d \in Days
      PROVE  Minutes(Support(times, d[1], d[2])) = Cardinality(covered \cap (d[1]..(d[2] - 1)))
  <2>1. PICK a \in Int, b \in Int : a = d[1] /\ b = d[2]
    BY <1>2, DayCovers
  <2>2. Covered(times, a, b) = covered \cap (a..(b - 1))
    BY <1>2, <1>4, <2>1, DayCovers
  <2>3. PICK part : part = Support(times, a, b)
    OBVIOUS
  <2>4. Spans(part, a, b) /\ Covers(part) = Covered(times, a, b)
    BY <1>2, <2>3, SupportCovers
  <2>5. Minutes(part) = Cardinality(Covered(times, a, b))
    BY <2>4, MinutesCount
  <2> QED BY <2>1, <2>2, <2>3, <2>5
<1>10. \A t \in Window : \E d \in Days : \A e \in Days : t \in e[1]..(e[2] - 1) <=> e = d
  BY OneDay
<1>11. Freshness(times) = "within_threshold_at_window_end" <=> \E t \in times : t >= End - Stale
  BY <1>2, FreshTimes
<1> QED BY <1>1, <1>3, <1>5, <1>7, <1>8, <1>9, <1>10, <1>11 DEF SupportIsUnion

-----------------------------------------------------------------------------
(* The rows of the files that were taken. *)

(* The batch agrees with the rows of the files it was parsed from. *)
RowsAgree == AgreesWith(gathered, AllRows(chunks), Window)

LEMMA RowsOfFiles ==
  ASSUME CommandTypes
  PROVE  /\ AreRows(AllRows(chunks))
         /\ \A p \in DOMAIN AllRows(chunks) : p[1] \in 1..Len(chunks)
         /\ \A p \in DOMAIN AllRows(chunks) : p = <<p[1], p[2]>> /\ p[2] \in Nat
<1>1. PICK l \in Nat : l = Len(chunks) /\ DOMAIN chunks = 1..l
  BY DEF CommandTypes
<1> DEFINE places(c) == {c} \X DOMAIN chunks[c].rows
<1>2. ASSUME NEW c \in 1..l
      PROVE  /\ chunks[c].rows \in Seq(SourceRows) /\ IsFiniteSet(places(c))
             /\ DOMAIN chunks[c].rows \subseteq Nat
  <2>1. chunks[c] \in Chunks
    BY <1>1 DEF CommandTypes
  <2>2. PICK rows \in Seq(SourceRows) : rows = chunks[c].rows
    BY <2>1 DEF Chunks
  <2>3. PICK n \in Nat : DOMAIN rows = 1..n
    OBVIOUS
  <2>4. IsFiniteSet(1..n)
    BY FS_Interval
  <2>5. IsFiniteSet({c})
    BY FS_Singleton
  <2>6. IsFiniteSet({c} \X (1..n))
    BY <2>4, <2>5, FS_Product
  <2> QED BY <2>2, <2>3, <2>6
<1>3. DOMAIN AllRows(chunks) = UNION {places(c) : c \in 1..l}
  BY <1>1 DEF AllRows
<1>4. IsFiniteSet(DOMAIN AllRows(chunks))
  <2> DEFINE g == [c \in 1..l |-> places(c)]
             P == {places(c) : c \in 1..l}
  <2>1. IsFiniteSet(1..l)
    BY FS_Interval
  <2>2. g \in Surjection(1..l, P)
    BY DEF Surjection
  <2>3. \A S \in P : IsFiniteSet(S)
    BY <1>2
  <2> HIDE DEF g, P
  <2>4. IsFiniteSet(P)
    BY <2>1, <2>2, FS_Surjection
  <2>5. IsFiniteSet(UNION P)
    BY <2>3, <2>4, FS_UNION
  <2> QED BY <1>3, <2>5 DEF P
<1>5. ASSUME NEW p \in DOMAIN AllRows(chunks)
      PROVE  /\ p[1] \in 1..l /\ p = <<p[1], p[2]>> /\ p[2] \in Nat
             /\ AllRows(chunks)[p] \in SourceRows
  <2>1. PICK c \in 1..l : p \in places(c)
    BY <1>3
  <2>2. p[1] = c /\ p = <<p[1], p[2]>> /\ p[2] \in DOMAIN chunks[c].rows
    BY <2>1
  <2>3. AllRows(chunks)[p] = chunks[c].rows[p[2]]
    BY <2>2 DEF AllRows
  <2>4. chunks[c].rows[p[2]] \in SourceRows
    <3>1. PICK rows \in Seq(SourceRows) : rows = chunks[c].rows
      BY <1>2
    <3>2. PICK k \in DOMAIN rows : k = p[2]
      BY <2>2, <3>1
    <3>3. rows[k] \in SourceRows
      OBVIOUS
    <3> QED BY <3>1, <3>2, <3>3
  <2>5. p[2] \in Nat
    BY <1>2, <2>2
  <2>6. p[1] \in 1..l
    BY <2>2
  <2>7. p = <<p[1], p[2]>>
    BY <2>2
  <2>8. AllRows(chunks)[p] \in SourceRows
    BY <2>3, <2>4, Zenon
  <2> QED BY <2>5, <2>6, <2>7, <2>8
<1> QED BY <1>1, <1>4, <1>5 DEF AreRows

(* A further file extends the rows. *)
LEMMA RowsOfFurtherFile ==
  ASSUME NEW cs \in Seq(Chunks), NEW c \in Chunks
  PROVE  AllRows(Append(cs, c)) = Extended(AllRows(cs), Len(cs) + 1, c.rows, Len(c.rows))
<1>1. PICK l \in Nat : l = Len(cs) /\ DOMAIN cs = 1..l
  OBVIOUS
<1>2. PICK m \in Nat : m = Len(c.rows) /\ DOMAIN c.rows = 1..m
  BY DEF Chunks
<1>3. PICK ds : ds = Append(cs, c)
  OBVIOUS
<1>4. /\ DOMAIN ds = 1..(l + 1) /\ ds[l + 1] = c
      /\ \A n \in 1..l : ds[n] = cs[n]
  BY <1>1, <1>3
<1>5. 1..(l + 1) = 1..l \cup {l + 1} /\ l + 1 \notin 1..l
  OBVIOUS
<1> DEFINE old == UNION {{n} \X DOMAIN cs[n].rows : n \in 1..l}
           new == {l + 1} \X (1..m)
<1>6. UNION {{n} \X DOMAIN ds[n].rows : n \in 1..(l + 1)} = old \cup new
  <2>1. {{n} \X DOMAIN ds[n].rows : n \in 1..(l + 1)}
          = {{n} \X DOMAIN cs[n].rows : n \in 1..l} \cup {new}
    BY <1>2, <1>4, <1>5
  <2> QED BY <2>1
<1>7. DOMAIN AllRows(cs) = old /\ DOMAIN AllRows(ds) = old \cup new
  BY <1>1, <1>4, <1>6 DEF AllRows
<1>8. ASSUME NEW p \in old \cup new
      PROVE  AllRows(ds)[p] = IF p \in old THEN AllRows(cs)[p] ELSE c.rows[p[2]]
  <2>1. AllRows(ds)[p] = ds[p[1]].rows[p[2]]
    BY <1>4, <1>6 DEF AllRows
  <2>2. CASE p \in old
    <3>1. p[1] \in 1..l
      BY <2>2
    <3>2. AllRows(cs)[p] = cs[p[1]].rows[p[2]]
      BY <1>1, <2>2 DEF AllRows
    <3> QED BY <1>4, <2>1, <2>2, <3>1, <3>2
  <2>3. CASE p \notin old
    <3>1. p[1] = l + 1
      BY <2>3
    <3> QED BY <1>4, <2>1, <2>3, <3>1
  <2> QED BY <2>2, <2>3
<1> HIDE DEF old, new
<1>9. AllRows(ds) = [p \in old \cup new |-> IF p \in old THEN AllRows(cs)[p] ELSE c.rows[p[2]]]
  <2>1. AllRows(ds) = [p \in DOMAIN AllRows(ds) |-> AllRows(ds)[p]]
    BY DEF AllRows
  <2> QED BY <1>7, <1>8, <2>1
<1> QED BY <1>1, <1>2, <1>3, <1>7, <1>9 DEF Extended, new

(* What is known of a file that is taken. *)
LEMMA TakenFile ==
  ASSUME Parse, gathered \in Batches, body \in Seq(SourceRows)
  PROVE  \/ UNCHANGED <<request, parsed>>
         \/ /\ UNCHANGED request
            /\ chunks' = Append(chunks, [year |-> NextYear, rows |-> body, served |-> served])
            /\ gathered' = ParseChunk(gathered, body, NextYear, Window)
            /\ Len(body) <= MaxRows
            /\ ~gathered'.failed \/ \A n \in 1..Len(body) : ~Unreadable(body[n], NextYear)
<1>1. MaxRows \in Nat /\ Len(body) \in Nat /\ DOMAIN body = 1..Len(body)
  BY LengthAssumption
<1>2. PICK outcome : outcome = ParseChunk(gathered, body, NextYear, Window)
  OBVIOUS
<1>3. Len(body) > MaxRows => outcome.failed
  BY <1>2, RefuseKeepsTypes DEF ParseChunk
<1>4. \/ UNCHANGED <<request, parsed>>
      \/ /\ UNCHANGED request
         /\ chunks' = Append(chunks, [year |-> NextYear, rows |-> body, served |-> served])
         /\ gathered' = outcome
         /\ \/ ~outcome.failed
            \/ ~(Len(body) > MaxRows) /\ \A n \in DOMAIN body : ~Unreadable(body[n], NextYear)
  BY <1>2 DEF Parse, Abort, Goto, parsed
<1> QED BY <1>1, <1>2, <1>3, <1>4

LEMMA EmptyBatchAgrees ==
  ASSUME CommandInit
  PROVE  RowsAgree
<1>1. EmptyBatch \in Batches /\ ~EmptyBatch.failed
  <2>1. {} \in SUBSET (Nat \X Signatures) /\ <<>> \in Seq([ts : Nat, amount : Amounts])
        /\ [r \in Reasons |-> 0] \in [Reasons -> Nat]
    OBVIOUS
  <2> QED BY <2>1 DEF EmptyBatch, Batches
<1>2. DOMAIN AllRows(<<>>) = {}
  BY DEF AllRows
<1>3. PICK all : all = AllRows(<<>>)
  OBVIOUS
<1>4. /\ Chosen(all, Window) = {} /\ Noted(all, Window) = {} /\ Told(all, Window) = {}
      /\ Clean(all, Window) = {} /\ \A r : Bad(all, Window, r) = {}
      /\ Consistent(all, Window)
  <2>1. Chosen(all, Window) = {}
    BY <1>2, <1>3 DEF Chosen
  <2> QED BY <2>1 DEF Noted, Told, Clean, Bad, Consistent
<1>5. Cardinality({}) = 0
  BY FS_EmptySet
<1>6. Imported(EmptyBatch) = {}
  BY DEF Imported, EmptyBatch
<1>7. /\ EmptyBatch.seen = {} /\ EmptyBatch.source_rows = 0 /\ EmptyBatch.received = 0
      /\ EmptyBatch.outside_window = 0 /\ Len(EmptyBatch.records) = 0 /\ EmptyBatch.rejected = 0
      /\ EmptyBatch.duplicates = 0 /\ \A r \in Reasons : EmptyBatch.reasons[r] = 0
  BY DEF EmptyBatch
<1>8. AgreesWith(EmptyBatch, all, Window)
  <2>1. PICK b : b = EmptyBatch
    OBVIOUS
  <2>2. b \in Batches /\ (b.failed <=> ~Consistent(all, Window)) /\ b.seen = Noted(all, Window)
    BY <1>1, <1>4, <1>7, <2>1
  <2>3. b.source_rows = b.received + b.outside_window
        /\ b.received = Len(b.records) + b.rejected + b.duplicates
    BY <1>7, <2>1
  <2>4. b.received = Cardinality(Chosen(all, Window))
        /\ b.received = b.duplicates + Cardinality(Noted(all, Window))
        /\ Len(b.records) + b.rejected = Cardinality(Told(all, Window))
    BY <1>4, <1>5, <1>7, <2>1
  <2>5. Imported(b) = Clean(all, Window) /\ Cardinality(Imported(b)) = Len(b.records)
    BY <1>4, <1>5, <1>6, <1>7, <2>1
  <2>6. \A r \in Reasons : b.reasons[r] = Cardinality(Bad(all, Window, r))
    <3>1. PICK reasons : reasons = b.reasons
      OBVIOUS
    <3>2. \A r \in Reasons : reasons[r] = 0
      BY <1>7, <2>1, <3>1
    <3>3. \A r : Cardinality(Bad(all, Window, r)) = 0
      BY <1>4, <1>5
    <3> QED BY <3>1, <3>2, <3>3
  <2> QED BY <2>1, <2>2, <2>3, <2>4, <2>5, <2>6 DEF AgreesWith
<1> QED BY <1>3, <1>8 DEF CommandInit, RowsAgree

LEMMA RowsSteps ==
  ASSUME CommandTypes, RowsAgree, [CommandNext]_commandVars
  PROVE  RowsAgree'
<1>1. CASE UNCHANGED <<request, parsed>>
  BY <1>1 DEF RowsAgree, parsed, Window, Start, End
<1>2. CASE Fetch
  BY <1>1, <1>2, FetchFrame
<1>3. CASE Conclude
  BY <1>1, <1>3, ConcludeFrame
<1>4. CASE UNCHANGED commandVars
  BY <1>1, <1>4 DEF commandVars
<1>5. CASE Parse
  <2>1. PICK c : c = [year |-> NextYear, rows |-> body, served |-> served]
    OBVIOUS
  <2>2. c \in Chunks /\ c.rows = body /\ chunks \in Seq(Chunks) /\ body \in Seq(SourceRows)
    BY <2>1, RequestFacts DEF CommandTypes, Chunks
  <2>3. gathered \in Batches
    BY DEF RowsAgree, AgreesWith
  <2>4. CASE /\ UNCHANGED request /\ chunks' = Append(chunks, c)
             /\ gathered' = ParseChunk(gathered, body, NextYear, Window)
             /\ Len(body) <= MaxRows
             /\ ~gathered'.failed \/ \A n \in 1..Len(body) : ~Unreadable(body[n], NextYear)
    <3>1. PICK all : all = AllRows(chunks)
      OBVIOUS
    <3>2. PICK outcome : outcome = ParseChunk(gathered, body, NextYear, Window)
      OBVIOUS
    <3>3. PICK l \in Nat : l = Len(chunks)
      BY <2>2
    <3>4. \A n \in Nat : <<l + 1, n>> \notin DOMAIN all
      <4>1. \A p \in DOMAIN all : p[1] \in 1..l
        BY <3>1, <3>3, RowsOfFiles
      <4>2. l + 1 \notin 1..l
        OBVIOUS
      <4> QED BY <4>1, <4>2
    <3>5. AreRows(all) /\ AgreesWith(gathered, all, Window)
      BY <3>1, RowsOfFiles DEF RowsAgree
    <3>6. AgreesWith(outcome, Extended(all, l + 1, body, Len(body)), Window)
      BY <2>2, <2>4, <3>2, <3>4, <3>5, ChunkAgrees
    <3>7. AllRows(chunks') = Extended(all, l + 1, body, Len(body))
      BY <2>2, <2>4, <3>1, <3>3, RowsOfFurtherFile
    <3>8. Window' = Window
      BY <2>4 DEF Window, Start, End
    <3>9. AgreesWith(gathered', AllRows(chunks'), Window')
      BY <2>4, <3>2, <3>6, <3>7, <3>8
    <3> QED BY <3>9 DEF RowsAgree
  <2> QED BY <1>1, <1>5, <2>1, <2>2, <2>3, <2>4, TakenFile
<1> QED BY <1>2, <1>3, <1>4, <1>5, CommandSteps

(* parse_batch and characterize: the import and the description of quality *)
(* read the same rows on their own and agree of every row: the counts add  *)
(* up, a time is imported exactly when it is quantitative, rejected for    *)
(* the reason that is its state, and refused exactly when it conflicts;    *)
(* supported time is the union of the intervals, the gaps are the rest.    *)
THEOREM BothReadersAgree == CommandSpec => []ReadersAgree
<1>1. CommandInit => RowsAgree
  BY EmptyBatchAgrees
<1>2. CommandIInv /\ RowsAgree /\ [CommandNext]_commandVars => RowsAgree'
  BY RowsSteps DEF CommandIInv
<1>3. CommandIInv /\ RowsAgree => ReadersAgree
  <2> SUFFICES ASSUME CommandTypes, RowsAgree PROVE ReadersAgree
    BY DEF CommandIInv
  <2>1. AreRows(AllRows(chunks)) /\ AgreesWith(gathered, AllRows(chunks), Window)
    BY RowsOfFiles DEF RowsAgree
  <2>2. CountsReconcile
    BY <2>1, CountsFollow
  <2>3. QualityAgrees
    BY <2>1, QualityFollows
  <2>4. SupportIsUnion
    BY <2>1, RequestFacts, SupportFollows
  <2> QED BY <2>2, <2>3, <2>4 DEF ReadersAgree
<1> QED BY <1>1, <1>2, <1>3, CommandInvariance, PTL DEF CommandSpec

(* _persist and validate_noaa_ghcnh.run: whatever the files and however    *)
(* they arrived, what an import has stored are records of exactly the      *)
(* times that a quality report of the same files calls quantitative, one   *)
(* for each, and none of them is in conflict.                              *)
THEOREM StoredIsDescribed ==
  CommandSpec => [](stored # <<>> =>
    /\ Imported(stored[1]) = Quantitative(AllRows(chunks))
    /\ Len(stored[1].records) = Cardinality(Quantitative(AllRows(chunks)))
    /\ Conflicting(AllRows(chunks)) = {})
<1> DEFINE Described ==
      stored # <<>> => /\ Imported(stored[1]) = Quantitative(AllRows(chunks))
                       /\ Len(stored[1].records) = Cardinality(Quantitative(AllRows(chunks)))
                       /\ Conflicting(AllRows(chunks)) = {}
<1>1. CommandIInv /\ ReadersAgree => Described
  <2> SUFFICES ASSUME CommandIInv, ReadersAgree, stored # <<>>
               PROVE  /\ Imported(stored[1]) = Quantitative(AllRows(chunks))
                      /\ Len(stored[1].records) = Cardinality(Quantitative(AllRows(chunks)))
                      /\ Conflicting(AllRows(chunks)) = {}
    OBVIOUS
  <2>1. stored[1] = gathered /\ Missing = {} /\ ~gathered.failed
    BY DEF CommandIInv, OutcomeAgrees, BatchAgrees
  <2>2. chunks # <<>>
    <3>1. FirstYear \in Years
      BY RequestFacts DEF CommandIInv
    <3>2. DOMAIN chunks # {}
      BY <2>1, <3>1 DEF Missing
    <3> QED BY <3>2
  <2>3. Conflicting(AllRows(chunks)) = {} /\ Imported(gathered) = Quantitative(AllRows(chunks))
    BY <2>1, <2>2 DEF ReadersAgree, QualityAgrees
  <2>4. Cardinality(Imported(gathered)) = Len(gathered.records)
    BY <2>1, <2>2 DEF ReadersAgree, CountsReconcile
  <2> QED BY <2>1, <2>3, <2>4
<1> HIDE DEF Described
<1>2. CommandSpec => []Described
  BY <1>1, CommandInvariance, BothReadersAgree, PTL
<1> QED BY <1>2 DEF Described
=============================================================================
