------------------------------- MODULE Stacks -------------------------------
(* The scripts that build something disposable, one of them at a time. *)
EXTENDS SmokeStack, RecoveryDrill, CaseStudy

vars == <<stackVars, smoke, drill, caseVars>>

Init ==
  /\ \/ \E s \in {"smoke", "drill"} : StackInit(s, "preflight") /\ CaseInit("idle")
     \/ StackInit("case", "idle") /\ CaseInit("preflight")
  /\ SmokeInit /\ DrillInit

(* The steps of the script itself. *)
ScriptStep ==
  \/ (SmokeIssue \/ SmokePass \/ SmokeBreak) /\ UNCHANGED <<drill, caseVars>>
  \/ (DrillIssue \/ DrillPass \/ DrillBreak) /\ UNCHANGED <<smoke, caseVars>>
  \/ (Preflight \/ Finally \/ Unwind) /\ UNCHANGED <<smoke, drill, caseVars>>
  \/ CaseNext /\ UNCHANGED <<stackVars, smoke, drill>>

(* What the containers do meanwhile. *)
Services ==
  \/ (WorkerWorks \/ SchedulerWorks) /\ UNCHANGED <<drill, caseVars>>
  \/ /\ WorkerClaims \/ ServerNotices \/ WorkerDrains \/ BackoffPasses
     /\ UNCHANGED <<smoke, caseVars>>
  \/ \E s \in alive : (Become(s) \/ Die(s)) /\ UNCHANGED <<smoke, drill, caseVars>>

Next == ScriptStep \/ Services

(* Every command and every wait has its limit, after which it breaks. *)
Spec == Init /\ [][Next]_vars /\ WF_vars(ScriptStep)

-----------------------------------------------------------------------------
(* What a script claims when it succeeds was shown in this run, what is    *)
(* restored is what was backed up, and what is told of a cleanup is so.    *)
VerdictIsEarned == StackVerdict /\ SmokeVerdict /\ RestoreIsBackup /\ CaseVerdict

(* No script removes what it found. *)
OthersAreUntouched == [][OthersStay]_vars

(* Every script ends, whatever its containers do or fail to do. *)
ScriptsEnd == <>(pc = "ended" \/ stage = "ended")

-----------------------------------------------------------------------------
(* The inductive invariant behind both. *)
IInv == StackIInv /\ StackVerdict /\ SmokeIInv /\ DrillIInv /\ CaseIInv
=============================================================================
