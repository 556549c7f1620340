------------------------------ MODULE TurnTypes ------------------------------
(***************************************************************************)
(* Proofs about Turn, for any declarations, files, services and delays.    *)
(***************************************************************************)
EXTENDS Turn, TLAPS

USE FileAssumption, ServiceAssumption, DeclAssumption, BackoffAssumption, CauseAssumption

-----------------------------------------------------------------------------
(***************************************************************************)
(* Types.                                                                  *)
(***************************************************************************)
\* The steps a comparison asks for are steps.
LEMMA StepsType ==
    ASSUME TypeOK, NEW d \in Decl, NEW W \in SUBSET File, NEW u \in Unknowns
    PROVE  Steps(d, W, u) \subseteq Step
<1>1. ReloadSteps(d, W) \subseteq Step
  BY DEF ReloadSteps, Step, Owable, Reloads, Daemon, Reload, ReloadAfter, ReaderOf
<1>2. ServiceSteps(d, W, u.units) \subseteq Step
  BY DEF ServiceSteps, Step, ServiceVerb, ToStop, Fresh, Stopped, PutBack, Rewritten, Declared
<1>3. {<<"trigger", f>> : f \in Writes(d, W) \cap LinkFile \cap present} \subseteq Step
  BY DEF Step, Owable
<1>4. {<<"remove", f>> : f \in Reclaims(d, W) \cap UnitFile} \subseteq Step
  BY DEF Step
<1>5. {st \in {<<"nft", None>>} : Apply(d, u.nft)} \subseteq Step
  BY DEF Step
<1>6. {st \in {<<"seed", uplink>>} : Seeds(Apply(d, u.nft), u.nft)} \subseteq Step
  BY DEF Step, TypeOK
<1>7. {st \in {<<"sysctl", Forward[d]>>} : forwarding # Forward[d]} \subseteq Step
  BY DEF Step
<1>8. {st \in {<<"dns", uplink>>} : RecordDue} \subseteq Step
  BY DEF Step, TypeOK, RecordDue
<1> QED
  BY <1>1, <1>2, <1>3, <1>4, <1>5, <1>6, <1>7, <1>8 DEF Steps

\* What is read of the steps left owed are steps that may be owed.
LEMMA CarriedType ==
    ASSUME TypeOK, NEW u \in Unknowns, NEW own
    PROVE  /\ Carried(u.owed, own) \subseteq Owable
           /\ Owable \subseteq Step
<1>1. u.owed \subseteq Owable
  BY DEF Unknowns, TypeOK
<1> QED
  BY <1>1 DEF Carried, Step

\* The backoff's key of a step is a step.
LEMMA KeyType == \A st \in Step : KeyOf(st) \in Step
  BY DEF KeyOf, Step, Owable, Reloads, Daemon, Reload

\* Counting attempts keeps every count within the levels, and gives each command a turn
\* keeps a count of at least one.
LEMMA TriesType ==
    ASSUME NEW steps, NEW kept, NEW tries \in [Step -> 0..Levels]
    PROVE  /\ Tries(steps, kept, tries) \in [Step -> 0..Levels]
           /\ \A key \in Step : key \in Keys(kept) => Tries(steps, kept, tries)[key] \in 1..Levels
  BY DEF Tries

\* A turn that has just been planned is well typed.
LEMMA PlannedType ==
    ASSUME TypeOK,
           NEW k \in {"submit", "trial", "revert", "loop"}, NEW d \in Decl,
           NEW tries \in [Step -> 0..Levels], NEW left \in [Step -> Nat],
           Planned(k, d, tries, left),
           trial' \in Decl \cup {None}, retryRevision' \in Decl \cup {None}
    PROVE  TypeOK'
<1>1. PICK u \in Unknowns : Plan(k, d, u, tries, left)
  BY DEF Planned
<1> DEFINE W == u.withheld \cap {f \in File : Want[d][f] # None}
           own == Steps(d, W, u)
           carried == Carried(u.owed, own)
           steps == own \cup carried
           kept == Kept(steps, left)
<1>2. W \subseteq File
  BY DEF Unknowns
<1>3. own \subseteq Step
  BY <1>2, StepsType
<1>4. carried \subseteq Owable /\ Owable \subseteq Step
  BY CarriedType
<1>5. steps \subseteq Step /\ kept \subseteq steps
  BY <1>3, <1>4 DEF Kept
<1>6. plan' \in PlanType
  <2>1. plan' = [write   |-> Writes(d, W),
                 reclaim |-> IF Attended(k) THEN Reclaims(d, W) \ UnitFile ELSE {},
                 apply   |-> Apply(d, u.nft),
                 owed    |-> steps \cap Owable,
                 carried |-> carried,
                 waiting |-> W # {} \/ (Records /\ uplink = None)]
    BY <1>1 DEF Plan
  <2>2. Writes(d, W) \subseteq File /\ Reclaims(d, W) \subseteq File
    BY DEF Writes, Reclaims
  <2>3. Apply(d, u.nft) \in BOOLEAN
    BY DEF Apply
  <2> QED
    BY <2>1, <2>2, <2>3, <1>4 DEF PlanType
<1>7. attempts' \in [Step -> 0..Levels]
  <2>1. attempts' = IF Attended(k) THEN tries ELSE Tries(steps, kept, tries)
    BY <1>1 DEF Plan
  <2> QED
    BY <2>1, TriesType
<1>8. wait' \in [Step -> Nat]
  <2>1. CASE Attended(k)
    BY <2>1, <1>1 DEF Plan
  <2>2. CASE ~Attended(k)
    <3>1. /\ attempts' = Tries(steps, kept, tries)
          /\ wait' = [key \in Step |-> IF key \in Keys(kept) THEN Delay[attempts'[key]]
                                       ELSE IF attempts'[key] = 0 THEN 0 ELSE left[key]]
      BY <2>2, <1>1 DEF Plan
    <3>2. \A key \in Step : key \in Keys(kept) => attempts'[key] \in 1..Levels
      BY <3>1, TriesType
    <3>3. \A n \in 1..Levels : Delay[n] \in Nat
      BY DEF BackoffAssumption
    <3> QED
      BY <3>1, <3>2, <3>3
  <2> QED
    BY <2>1, <2>2
<1>9. /\ kind' = k /\ target' = d /\ pc' = "stage" /\ ran' = {} /\ failed' = "no"
      /\ touched' = FALSE /\ lost' \in BOOLEAN /\ failing' \in BOOLEAN
      /\ todo' \subseteq Step
      /\ UNCHANGED <<hostVars, stateVars, written>>
  BY <1>1, <1>5 DEF Plan, TypeOK
<1> QED
  BY <1>6, <1>7, <1>8, <1>9 DEF TypeOK, hostVars, stateVars, lineVars, linkVars

\* The actions that ask for a turn.
LEMMA AskedType ==
    ASSUME TypeOK, Asked
    PROVE  TypeOK'
<1>0. NoRetries \in [Step -> 0..Levels] /\ NoRetries \in [Step -> Nat]
  BY DEF NoRetries
<1>1. ASSUME NEW d \in Decl, Submit(d) PROVE TypeOK'
  <2>1. CASE Planned("submit", d, NoRetries, NoRetries) /\ retryRevision' = d
    BY <1>0, <1>1, <2>1, PlannedType DEF Submit
  <2>2. CASE NotPlanned
    BY <1>1, <2>2 DEF Submit, NotPlanned, TypeOK, hostVars, stateVars, retryVars, turnVars, lineVars, linkVars
  <2> QED
    BY <1>1, <2>1, <2>2 DEF Submit
<1>2. ASSUME NEW d \in Decl, SubmitTrial(d) PROVE TypeOK'
  <2>1. CASE Planned("trial", d, attempts, wait) /\ UNCHANGED retryRevision
    BY <1>2, <2>1, PlannedType DEF SubmitTrial, TypeOK
  <2>2. CASE NotPlanned
    BY <1>2, <2>2 DEF SubmitTrial, NotPlanned, TypeOK, hostVars, stateVars, retryVars, turnVars, lineVars, linkVars
  <2> QED
    BY <1>2, <2>1, <2>2 DEF SubmitTrial
<1>3. ASSUME Confirm PROVE TypeOK'
  BY <1>3 DEF Confirm, TypeOK, hostVars, retryVars, turnVars, lineVars, linkVars
<1>4. ASSUME Revert PROVE TypeOK'
  <2>1. CASE record # None /\ Planned("revert", record, attempts, wait) /\ UNCHANGED retryRevision
    BY <1>4, <2>1, PlannedType DEF Revert, TypeOK
  <2>2. CASE NotPlanned
    BY <1>4, <2>2 DEF Revert, NotPlanned, TypeOK, hostVars, stateVars, retryVars, turnVars, lineVars, linkVars
  <2> QED
    BY <1>4, <2>1, <2>2 DEF Revert
<1>5. ASSUME NEW t \in 0..Delay[Levels], Loop(t) PROVE TypeOK'
  <2> DEFINE d == IF trial # None THEN trial ELSE record
             fresh == trial = None /\ retryRevision # record
             left == [key \in Step |-> IF wait[key] > t THEN wait[key] - t ELSE 0]
             tries == IF fresh THEN NoRetries ELSE attempts
             held == IF fresh THEN NoRetries ELSE left
  <2>1. d \in Decl /\ trial' = trial
    BY <1>5 DEF Loop, TypeOK
  <2>2. tries \in [Step -> 0..Levels]
    BY <1>0 DEF TypeOK
  <2>3. left \in [Step -> Nat]
    <3>1. t \in Nat
      BY <1>5
    <3> QED
      BY <3>1 DEF TypeOK
  <2>4. held \in [Step -> Nat]
    BY <1>0, <2>3
  <2>5. Planned("loop", d, tries, held)
    BY <1>5 DEF Loop
  <2>6. trial' \in Decl \cup {None} /\ retryRevision' \in Decl \cup {None}
    BY <1>5, <2>1 DEF Loop, TypeOK
  <2> QED
    BY <2>1, <2>2, <2>4, <2>5, <2>6, PlannedType
<1> QED
  BY <1>1, <1>2, <1>3, <1>4, <1>5 DEF Asked

\* What a service reads when it starts is something it may have read.
LEMMA ReadsType == ASSUME TypeOK, NEW s \in Service PROVE Reads(s) \in Snapshot
<1>1. Inputs[s] \in SUBSET File
  BY DEF ServiceAssumption, ReadFile
<1>2. Reads(s) \in [Inputs[s] -> Content]
  BY <1>1 DEF Reads, TypeOK
<1> QED
  BY <1>1, <1>2 DEF Snapshot

\* The steps of a turn.
LEMMA RunType ==
    ASSUME TypeOK, Run
    PROVE  TypeOK'
<1> USE DEF hostVars, stateVars, memory, retryVars, turnVars, lineVars, linkVars
<1>1. ASSUME StageFiles PROVE TypeOK'
  <2>1. file' \in [File -> Content]
    BY <1>1 DEF StageFiles, Staged, ToStage, TypeOK, Content, PlanType
  <2>2. plan' \in PlanType
    BY <1>1 DEF StageFiles, TypeOK, PlanType
  <2> QED
    BY <1>1, <2>1, <2>2 DEF StageFiles, TypeOK
<1>2. ASSUME StageFails PROVE TypeOK'
  <2>1. file' \in [File -> Content]
    BY <1>2 DEF StageFails, Staged, ToStage, TypeOK, Content, PlanType
  <2> QED
    BY <1>2, <2>1 DEF StageFails, TypeOK
<1>3. ASSUME Accept PROVE TypeOK'
  BY <1>3 DEF Accept, TypeOK
<1>4. ASSUME AcceptFails PROVE TypeOK'
  BY <1>4 DEF AcceptFails, TypeOK

<1>5. ASSUME RunNft PROVE TypeOK'
  <2>1. table' \in Content
    BY <1>5 DEF RunNft, Ran, TypeOK, Content
  <2>2. todo' \subseteq Step /\ ran' \subseteq Step
    BY <1>5 DEF RunNft, Ran, Due, TypeOK
  <2> QED
    BY <1>5, <2>1, <2>2 DEF RunNft, Ran, TypeOK
<1>6. ASSUME NEW st \in {"seed"} \X (Address \cup {None}), RunSeed(st) PROVE TypeOK'
  BY <1>6 DEF RunSeed, Ran, Due, TypeOK
<1>7. ASSUME NEW st \in {"sysctl"} \X BOOLEAN, RunSysctl(st) PROVE TypeOK'
  <2>1. forwarding' \in BOOLEAN
    BY <1>7 DEF RunSysctl
  <2> QED
    BY <1>7, <2>1 DEF RunSysctl, Ran, Due, TypeOK
<1>8. ASSUME NEW st \in {"dns"} \X Address, RunDNS(st) PROVE TypeOK'
  BY <1>8 DEF RunDNS, Ran, Due, TypeOK
<1>9. ASSUME NEW st \in {"dns"} \X Address, DNSFails(st) PROVE TypeOK'
  BY <1>9 DEF DNSFails, Due, TypeOK
<1>10. ASSUME NEW st \in {"trigger"} \X LinkFile, RunTrigger(st) PROVE TypeOK'
  <2>1. tuned' \in [LinkFile -> Content]
    BY <1>10 DEF RunTrigger, TypeOK, ReadFile
  <2> QED
    BY <1>10, <2>1 DEF RunTrigger, Ran, Due, TypeOK
<1>11. ASSUME NEW st \in Reloads, RunReload(st) PROVE TypeOK'
  <2>1. loaded' \in [ReadFile -> Content]
    BY <1>11 DEF RunReload, TypeOK, ReadFile, FileAssumption
  <2> QED
    BY <1>11, <2>1 DEF RunReload, Ran, Due, TypeOK
<1>12. ASSUME NEW st \in ServiceVerb \X Service, RunService(st) PROVE TypeOK'
  <2>1. st[2] \in Service /\ Reads(st[2]) \in Snapshot
    BY ReadsType
  <2>2. proc' \in [Service -> {None} \cup Snapshot] /\ enabled' \subseteq Service
    BY <1>12, <2>1 DEF RunService, TypeOK
  <2> QED
    BY <1>12, <2>2 DEF RunService, Ran, Due, TypeOK
<1>13. ASSUME NEW st \in {"remove"} \X UnitFile, RunRemove(st) PROVE TypeOK'
  <2>1. file' \in [File -> Content]
    BY <1>13 DEF RunRemove, TypeOK, Content
  <2> QED
    BY <1>13, <2>1 DEF RunRemove, Ran, Due, TypeOK
<1>14. ASSUME NEW st \in Step, StepFails(st) PROVE TypeOK'
  <2>1. proc' \in [Service -> {None} \cup Snapshot] /\ enabled' \subseteq Service
    <3>1. enabled' \subseteq Service
      BY <1>14 DEF StepFails, TypeOK
    <3>2. proc' = proc \/ \E s \in Service : proc' = [proc EXCEPT ![s] = None]
      BY <1>14 DEF StepFails
    <3> QED
      BY <3>1, <3>2 DEF TypeOK
  <2> QED
    BY <1>14, <2>1 DEF StepFails, TypeOK
<1>15. ASSUME RecordRuleset PROVE TypeOK'
  BY <1>15 DEF RecordRuleset, TypeOK, Content
<1>16. ASSUME SettleOwed PROVE TypeOK'
  <2>1. plan.owed \subseteq Owable
    BY DEF TypeOK, PlanType
  <2>2. owed' \subseteq Owable /\ lost' \in BOOLEAN
    BY <1>16, <2>1 DEF SettleOwed, TypeOK
  <2> QED
    BY <1>16, <2>2 DEF SettleOwed, TypeOK
<1>17. ASSUME ReportTurn PROVE TypeOK'
  BY <1>17 DEF ReportTurn, NoTurn, NoPlan, PlanType, TypeOK
<1> QED
  BY <1>1, <1>2, <1>3, <1>4, <1>5, <1>6, <1>7, <1>8, <1>9, <1>10, <1>11, <1>12, <1>13,
     <1>14, <1>15, <1>16, <1>17 DEF Run, Commit

\* What happens beside a turn.
LEMMA EnvironmentType ==
    ASSUME TypeOK, Environment
    PROVE  TypeOK'
<1> USE DEF hostVars, stateVars, memory, retryVars, turnVars, lineVars, linkVars
<1>1. NoRetries \in [Step -> 0..Levels] /\ NoRetries \in [Step -> Nat] /\ NoPlan \in PlanType
  BY DEF NoRetries, NoPlan, PlanType
<1>2. ASSUME Crash PROVE TypeOK'
  BY <1>1, <1>2 DEF Crash, NoTurn, TypeOK
<1>3. ASSUME Reboot PROVE TypeOK'
  <2>1. loaded' \in [ReadFile -> Content] /\ tuned' \in [LinkFile -> Content]
    BY <1>3 DEF Reboot, TypeOK, Content, ReadFile, FileAssumption
  <2>2. proc' \in [Service -> {None} \cup Snapshot]
    BY <1>3, ReadsType DEF Reboot
  <2> QED
    BY <1>1, <1>3, <2>1, <2>2 DEF Reboot, NoTurn, TypeOK, Content
<1>4. ASSUME Flush PROVE TypeOK'
  BY <1>4 DEF Flush, TypeOK, Content
<1>5. ASSUME HookRuns PROVE TypeOK'
  BY <1>5 DEF HookRuns, TypeOK
<1>6. ASSUME NEW s \in Service, ProcessDies(s) PROVE TypeOK'
  <2>1. proc' \in [Service -> {None} \cup Snapshot]
    <3>1. Reads(s) \in Snapshot
      BY ReadsType
    <3>2. proc' \in {[proc EXCEPT ![s] = None], [proc EXCEPT ![s] = Reads(s)]}
      BY <1>6 DEF ProcessDies
    <3>3. \A x \in {None} \cup Snapshot : [proc EXCEPT ![s] = x] \in [Service -> {None} \cup Snapshot]
      BY DEF TypeOK
    <3> QED
      BY <3>1, <3>2, <3>3
  <2> QED
    BY <1>6, <2>1 DEF ProcessDies, TypeOK
<1>7. ASSUME NEW a \in Address, Line(a) PROVE TypeOK'
  BY <1>7 DEF Line, TypeOK
<1>8. ASSUME uplink # None, Line(None) PROVE TypeOK'
  BY <1>8 DEF Line, TypeOK
<1>9. ASSUME NEW f \in LinkFile, LinkAppears(f) PROVE TypeOK'
  <2>1. loaded' \in [ReadFile -> Content]
    BY <1>9 DEF LinkAppears, TypeOK, FileAssumption
  <2>2. tuned' \in [LinkFile -> Content]
    BY <1>9, <2>1 DEF LinkAppears, TypeOK, ReadFile
  <2> QED
    BY <1>9, <2>1, <2>2 DEF LinkAppears, TypeOK
<1>10. ASSUME NEW f \in LinkFile, LinkGone(f) PROVE TypeOK'
  BY <1>10 DEF LinkGone, TypeOK, Content
<1> QED
  BY <1>2, <1>3, <1>4, <1>5, <1>6, <1>7, <1>8, <1>9, <1>10 DEF Environment

\* Every initial state is well typed.
LEMMA InitType == Init => TypeOK
<1> SUFFICES ASSUME Init PROVE TypeOK
  OBVIOUS
<1>1. NoRetries \in [Step -> 0..Levels] /\ NoRetries \in [Step -> Nat] /\ NoPlan \in PlanType
  BY DEF NoRetries, NoPlan, PlanType
<1>2. /\ file \in [File -> Content] /\ loaded \in [ReadFile -> Content]
      /\ tuned \in [LinkFile -> Content] /\ proc \in [Service -> {None} \cup Snapshot]
  BY DEF Init, Content
<1> QED
  BY <1>1, <1>2 DEF Init, TypeOK, Content

\* Every step, and a stutter, keeps the state well typed.
LEMMA StepType == TypeOK /\ [Next]_vars => TypeOK'
<1>1. ASSUME TypeOK, UNCHANGED vars PROVE TypeOK'
  BY <1>1 DEF TypeOK, vars, hostVars, stateVars, memory, retryVars, turnVars, lineVars, linkVars
<1> QED
  BY <1>1, AskedType, RunType, EnvironmentType DEF Next

\* Every variable has the values the code can give it, and a turn that is under way has a
\* declaration to go toward, for any set of declarations, files and services.
THEOREM TypeCorrect == Spec => []TypeOK
  BY InitType, StepType, PTL DEF Spec
=============================================================================
