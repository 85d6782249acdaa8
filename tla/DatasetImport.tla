---------------------------- MODULE DatasetImport ----------------------------
(***************************************************************************)
(* Commands that import external telemetry, each in one transaction under  *)
(* READ COMMITTED: persist_batch for NOAA GHCNh, and the file and HTTP     *)
(* imports, which share their code.  Rows are inserted by statements of    *)
(* several rows with ON CONFLICT DO NOTHING.                               *)
(*                                                                         *)
(* Three kinds of locks meet.  An inserted row makes every other insert of *)
(* its slot wait.  A NOAA import holds its asset FOR UPDATE.  And the      *)
(* foreign key of an observation locks its asset FOR KEY SHARE at the end  *)
(* of the statement, which excludes FOR UPDATE in both directions.         *)
(***************************************************************************)
EXTENDS Naturals, Sequences, FiniteSets

CONSTANTS
  Noaa, Others, Slots, NoaaBatches, OtherBatches, NoRow,  \* as in AtomicImport
  Values,
  Assets,
  AssetOf,   \* AssetOf[s]: the asset of a slot
  Chunk,     \* the number of rows of one INSERT
  NoValue,   \* a slot a transaction has not filled
  NoAsset,   \* an import that has not begun
  NoImport   \* an asset nobody holds FOR UPDATE

Imports == Noaa \cup Others
Records == [slot : Slots, value : Values]

ASSUME ImportAssumption ==
  /\ Noaa \cap Others = {}
  /\ NoImport \notin Imports
  /\ NoValue \notin Values
  /\ NoAsset \notin Assets
  /\ AssetOf \in [Slots -> Assets]
  /\ Chunk \in Nat \ {0}

(* The records of a NOAA batch are of distinct times. *)
ASSUME BatchAssumption ==
  /\ NoaaBatches \subseteq Seq(Records)
  /\ OtherBatches \subseteq Seq(Records) \ {<<>>}
  /\ \A b \in NoaaBatches : \A n, k \in DOMAIN b : b[n].slot = b[k].slot => n = k

VARIABLES
  store, audit,  \* committed, as in AtomicImport
  pc,        \* pc[i]: where the transaction of i is
  asset,     \* asset[i]: the asset a NOAA import was started for
  batch,     \* batch[i]: the records of i
  next,      \* next[i]: the record to be inserted next
  draft,     \* draft[i][s]: the value i has inserted for s and not committed
  inserted,  \* inserted[i]: rows its INSERTs have returned
  update,    \* update[a]: the import that holds asset a FOR UPDATE
  share      \* share[i]: assets i holds FOR KEY SHARE

committed == <<store, audit>>
progress == <<pc, asset, batch, next, draft, inserted>>
locks == <<update, share>>
vars == <<committed, progress, locks>>

Atomic == INSTANCE AtomicImport

Row == [import : Imports, value : Values]

ASSUME RowAssumption == NoRow \notin Row

NoDraft == [s \in Slots |-> NoValue]
Open == {"locking", "inserting", "referencing", "comparing", "finishing"}
Drafted(i) == {s \in Slots : draft[i][s] # NoValue}

(* Only an open transaction has rows or locks; two never fill one slot.    *)
TypeOK ==
  /\ store \in [Slots -> Row \cup {NoRow}]
  /\ audit \in [Imports -> [status : {"absent", "validated", "ingested"}, inserted : Nat]]
  /\ pc \in [Imports -> {"idle", "ended"} \cup Open]
  /\ asset \in [Noaa -> Assets \cup {NoAsset}]
  /\ batch \in [Imports -> Seq(Records)]
  /\ next \in [Imports -> Nat \ {0}]
  /\ draft \in [Imports -> [Slots -> Values \cup {NoValue}]]
  /\ inserted \in [Imports -> Nat]
  /\ update \in [Assets -> Noaa \cup {NoImport}]
  /\ share \in [Imports -> SUBSET Assets]
  /\ \A i \in Imports : pc[i] \notin Open => Drafted(i) = {} /\ share[i] = {}
  /\ \A i, k \in Imports : i # k => Drafted(i) \cap Drafted(k) = {}
  /\ \A a \in Assets : update[a] # NoImport => pc[update[a]] \in Open

Init ==
  /\ Atomic!Init
  /\ pc = [i \in Imports |-> "idle"]
  /\ asset = [i \in Noaa |-> NoAsset]
  /\ batch = [i \in Imports |-> <<>>]
  /\ next = [i \in Imports |-> 1]
  /\ draft = [i \in Imports |-> NoDraft]
  /\ inserted = [i \in Imports |-> 0]
  /\ update = [a \in Assets |-> NoImport]
  /\ share = [i \in Imports |-> {}]

-----------------------------------------------------------------------------
(* The begin of an import. *)

Begin(i, b, first) ==
  /\ pc[i] = "idle"
  /\ pc' = [pc EXCEPT ![i] = first]
  /\ batch' = [batch EXCEPT ![i] = b]
  /\ UNCHANGED <<committed, next, draft, inserted, locks>>

(* A request names an asset, and its records are of that asset. *)
BeginNoaa(i, a, b) ==
  /\ \A n \in DOMAIN b : AssetOf[b[n].slot] = a
  /\ asset' = [asset EXCEPT ![i] = a]
  /\ Begin(i, b, "locking")

BeginOther(i, b) == Begin(i, b, "inserting") /\ UNCHANGED asset

(* A dry run, or a batch without accepted records: only the audit row is   *)
(* stored.  A dry run of the NOAA command does not touch the database.     *)
Preview(i) ==
  /\ pc[i] = "idle"
  /\ pc' = [pc EXCEPT ![i] = "ended"]
  /\ audit' = [audit EXCEPT ![i] = Atomic!Validated]
  /\ UNCHANGED <<store, asset, batch, next, draft, inserted, locks>>

(* Where the loop over the statements goes on. *)
Onwards(i) == IF next[i] > Len(batch[i]) THEN "finishing" ELSE "inserting"

(* Mutant of LockAsset: SELECT without FOR UPDATE. *)
LockNothing(i) ==
  /\ pc[i] = "locking"
  /\ pc' = [pc EXCEPT ![i] = Onwards(i)]
  /\ UNCHANGED <<committed, asset, batch, next, draft, inserted, locks>>

LockAsset(i) ==
  /\ pc[i] = "locking"
  /\ update[asset[i]] = NoImport
  /\ \A k \in Imports \ {i} : asset[i] \notin share[k]
  /\ update' = [update EXCEPT ![asset[i]] = i]
  /\ pc' = [pc EXCEPT ![i] = Onwards(i)]
  /\ UNCHANGED <<committed, asset, batch, next, draft, inserted, share>>

-----------------------------------------------------------------------------
(* One INSERT statement: its rows, then the foreign keys of the rows.      *)

EndsStatement(i, n) == n % Chunk = 0 \/ n = Len(batch[i])

(* Mutant of Insert: rows that were there already are counted. *)
InsertCountsAll(i) ==
  LET r == batch[i][next[i]]
  IN  /\ pc[i] = "inserting"
      /\ \A k \in Imports \ {i} : r.slot \notin Drafted(k)
      /\ draft' = IF store[r.slot] = NoRow /\ r.slot \notin Drafted(i)
                  THEN [draft EXCEPT ![i][r.slot] = r.value] ELSE draft
      /\ inserted' = [inserted EXCEPT ![i] = @ + 1]
      /\ next' = [next EXCEPT ![i] = @ + 1]
      /\ pc' = [pc EXCEPT ![i] = IF EndsStatement(i, next[i]) THEN "referencing" ELSE @]
      /\ UNCHANGED <<committed, asset, batch, locks>>

(* A slot another transaction has filled is waited for. *)
Insert(i) ==
  LET r == batch[i][next[i]]
      isNew == store[r.slot] = NoRow /\ r.slot \notin Drafted(i)
  IN  /\ pc[i] = "inserting"
      /\ \A k \in Imports \ {i} : r.slot \notin Drafted(k)
      /\ draft' = IF isNew THEN [draft EXCEPT ![i][r.slot] = r.value] ELSE draft
      /\ inserted' = [inserted EXCEPT ![i] = IF isNew THEN @ + 1 ELSE @]
      /\ next' = [next EXCEPT ![i] = @ + 1]
      /\ pc' = [pc EXCEPT ![i] = IF EndsStatement(i, next[i]) THEN "referencing" ELSE @]
      /\ UNCHANGED <<committed, asset, batch, locks>>

(* Assets of inserted rows that are not yet locked FOR KEY SHARE. *)
Unreferenced(i) == {AssetOf[s] : s \in Drafted(i)} \ share[i]

Reference(i, a) ==
  /\ pc[i] = "referencing"
  /\ a \in Unreferenced(i)
  /\ update[a] \in {NoImport, i}
  /\ share' = [share EXCEPT ![i] = @ \cup {a}]
  /\ UNCHANGED <<committed, progress, update>>

EndStatement(i) ==
  /\ pc[i] = "referencing"
  /\ Unreferenced(i) = {}
  /\ pc' = [pc EXCEPT ![i] = IF i \in Noaa THEN "comparing" ELSE Onwards(i)]
  /\ UNCHANGED <<committed, asset, batch, next, draft, inserted, locks>>

-----------------------------------------------------------------------------
(* The conflict check of persist_batch, after every statement. *)

InStatement(i) ==
  {n \in DOMAIN batch[i] : n < next[i] /\ (n - 1) \div Chunk = (next[i] - 2) \div Chunk}

Agrees(i, r) == r.slot \in Drafted(i) \/ Atomic!SameObservation(store[r.slot], r)

(* Mutant of Compare: only the last statement is compared. *)
CompareAtEnd(i) ==
  /\ pc[i] = "comparing"
  /\ next[i] > Len(batch[i]) => \A n \in InStatement(i) : Agrees(i, batch[i][n])
  /\ pc' = [pc EXCEPT ![i] = Onwards(i)]
  /\ UNCHANGED <<committed, asset, batch, next, draft, inserted, locks>>

Compare(i) ==
  /\ pc[i] = "comparing"
  /\ \A n \in InStatement(i) : Agrees(i, batch[i][n])
  /\ pc' = [pc EXCEPT ![i] = Onwards(i)]
  /\ UNCHANGED <<committed, asset, batch, next, draft, inserted, locks>>

-----------------------------------------------------------------------------
(* The end of an import. *)

Leave(i) ==
  /\ pc' = [pc EXCEPT ![i] = "ended"]
  /\ draft' = [draft EXCEPT ![i] = NoDraft]
  /\ update' = [a \in Assets |-> IF update[a] = i THEN NoImport ELSE update[a]]
  /\ share' = [share EXCEPT ![i] = {}]
  /\ UNCHANGED <<asset, batch, next, inserted>>

Commit(i) ==
  /\ pc[i] = "finishing"
  /\ store' = [s \in Slots |-> IF s \in Drafted(i) THEN [import |-> i, value |-> draft[i][s]]
                               ELSE store[s]]
  /\ audit' = [audit EXCEPT ![i] = Atomic!Ingested(inserted[i])]
  /\ Leave(i)

Rollback(i) == Leave(i) /\ UNCHANGED committed

(* Mutant of Differ: the conflict is reported and nothing is rolled back. *)
DifferAndStay(i) ==
  /\ pc[i] = "comparing"
  /\ \E n \in InStatement(i) : ~Agrees(i, batch[i][n])
  /\ UNCHANGED vars

(* The stored observation differs. *)
Differ(i) ==
  /\ pc[i] = "comparing"
  /\ \E n \in InStatement(i) : ~Agrees(i, batch[i][n])
  /\ Rollback(i)

(* Any other end: the asset is not mapped to the station, lock_timeout or  *)
(* statement_timeout, a lost connection, a killed command.                 *)
Fail(i) == pc[i] \in Open /\ Rollback(i)

WaitsFor(i, k) ==
  /\ i # k
  /\ \/ pc[i] = "locking" /\ (update[asset[i]] = k \/ asset[i] \in share[k])
     \/ pc[i] = "inserting" /\ batch[i][next[i]].slot \in Drafted(k)
     \/ pc[i] = "referencing" /\ \E a \in Unreferenced(i) : update[a] = k

Circle(S) == S # {} /\ \A i \in S : \E k \in S : WaitsFor(i, k)

(* The server fails a transaction of a circle of waits. *)
BreakDeadlock(i) == (\E S \in SUBSET Imports : i \in S /\ Circle(S)) /\ Rollback(i)

-----------------------------------------------------------------------------
Step(i) ==
  \/ LockAsset(i) \/ Insert(i) \/ EndStatement(i) \/ Compare(i) \/ Differ(i) \/ Commit(i)
  \/ \E a \in Assets : Reference(i, a)

Next ==
  \/ \E i \in Noaa, a \in Assets, b \in NoaaBatches : BeginNoaa(i, a, b)
  \/ \E i \in Others : Preview(i) \/ \E b \in OtherBatches : BeginOther(i, b)
  \/ \E i \in Imports : Step(i) \/ Fail(i) \/ BreakDeadlock(i)

Spec == Init /\ [][Next]_vars

(* A command that was started goes on, and the server finds deadlocks. *)
Fairness == \A i \in Imports : WF_vars(Step(i)) /\ WF_vars(BreakDeadlock(i))

FairSpec == Spec /\ Fairness

-----------------------------------------------------------------------------
(* Properties *)

(* The audit row of an import counts the observations that carry its id,   *)
(* and an import without an audit row, or a preview, left none, although   *)
(* its statements skip rows that others insert at the same time.           *)
InsertedIsExact ==
  \A i \in Imports :
    audit[i].inserted = Cardinality({s \in Slots : store[s] # NoRow /\ store[s].import = i})

(* A NOAA import that is reported as ingested left every record of its     *)
(* batch stored as it came from NOAA: none was silently skipped in favour  *)
(* of a revised or foreign value.                                          *)
NoaaIsStored ==
  \A i \in Noaa : audit[i].status = "ingested" =>
    \A n \in DOMAIN batch[i] : Atomic!SameObservation(store[batch[i][n].slot], batch[i][n])

(* What an audit row tells is stored: its count, and for NOAA every record.*)
AuditsAreTrue == InsertedIsExact /\ NoaaIsStored

(* "Concurrent runs serialize on the asset": NOAA imports never wait for   *)
(* each other in a circle, whatever their stations and their order.        *)
DeadlocksNeedOthers == \A S \in SUBSET Noaa : ~Circle(S)

(* Every import that was started comes to an end, without the timeouts.    *)
ImportsEnd == \A i \in Imports : pc[i] \in Open ~> pc[i] = "ended"

(* Imports at the same time take effect one after the other, as a whole or *)
(* not at all, with the counts of AtomicImport.                            *)
ImplementsAtomicImport == Atomic!Spec

-----------------------------------------------------------------------------
(* The inductive invariant behind the safety properties above. *)

(* An import that is not over has no audit row; its position in its batch. *)
CommandAgrees(i) ==
  /\ pc[i] # "ended" => audit[i] = Atomic!NoAudit
  /\ pc[i] \in {"idle", "locking"} =>
       Drafted(i) = {} /\ share[i] = {} /\ next[i] = 1 /\ inserted[i] = 0
  /\ pc[i] \in Open => batch[i] \in IF i \in Noaa THEN NoaaBatches ELSE OtherBatches
  /\ pc[i] \in {"locking", "comparing"} => i \in Noaa
  /\ pc[i] = "inserting" => next[i] <= Len(batch[i])
  /\ pc[i] = "finishing" => next[i] > Len(batch[i])

(* What i has drafted is not stored; it is the first record for its slot   *)
(* that i has come to; and what i has passed is stored or drafted.         *)
DraftAgrees(i) ==
  /\ IsFiniteSet(Drafted(i))
  /\ pc[i] \in Open => inserted[i] = Cardinality(Drafted(i))
  /\ \A s \in Drafted(i) :
       /\ store[s] = NoRow
       /\ \E n \in DOMAIN batch[i] :
            /\ n < next[i] /\ batch[i][n].slot = s /\ batch[i][n].value = draft[i][s]
            /\ \A k \in 1..(n - 1) : batch[i][k].slot # s
  /\ \A n \in DOMAIN batch[i] :
       pc[i] \in Open /\ n < next[i] =>
         batch[i][n].slot \in Drafted(i) \/ store[batch[i][n].slot] # NoRow

(* The observations that i has brought are those its audit row counts. *)
Brought(i) == {s \in Slots : store[s] # NoRow /\ store[s].import = i}

AuditCounts(i) == IsFiniteSet(Brought(i)) /\ audit[i].inserted = Cardinality(Brought(i))

(* A NOAA import holds the one asset its records are of, from before its   *)
(* first INSERT to its end.                                                *)
HoldsAsset(i) ==
  /\ pc[i] \in Open =>
       asset[i] \in Assets /\ \A n \in DOMAIN batch[i] : AssetOf[batch[i][n].slot] = asset[i]
  /\ pc[i] \in Open \ {"locking"} => update[asset[i]] = i
  /\ \A a \in Assets : update[a] = i => a = asset[i] /\ pc[i] \in Open \ {"locking"}

(* What a NOAA import has passed agrees with what it brings, except in the *)
(* statement that is still to be compared.                                 *)
PassedAgree(i) ==
  \A n \in DOMAIN batch[i] :
    pc[i] \in Open /\ n < next[i] =>
      \/ Agrees(i, batch[i][n])
      \/ /\ pc[i] \in {"inserting", "referencing", "comparing"}
         /\ (n - 1) \div Chunk = (next[i] - 2) \div Chunk
         /\ pc[i] = "inserting" => ~EndsStatement(i, next[i] - 1)

IngestedIsStored(i) ==
  audit[i].status = "ingested" =>
    \A n \in DOMAIN batch[i] : Atomic!SameObservation(store[batch[i][n].slot], batch[i][n])

ImportIInv(i) ==
  /\ CommandAgrees(i) /\ DraftAgrees(i) /\ AuditCounts(i)
  /\ i \in Noaa => HoldsAsset(i) /\ PassedAgree(i) /\ IngestedIsStored(i)

IInv == TypeOK /\ \A i \in Imports : ImportIInv(i)
=============================================================================
