----------------------------- MODULE TurnProofs -----------------------------
(***************************************************************************)
(* What holds of every turn, for any declarations, files, services and     *)
(* delays.  None of the properties is inductive as it stands: each section *)
(* names what a turn that is under way has already committed itself to.    *)
(***************************************************************************)
EXTENDS TurnTypes

-----------------------------------------------------------------------------
(***************************************************************************)
(* No reload is forgotten.                                                 *)
(***************************************************************************)
\* What a turn has still to do to a file a daemon reads is already in what it owes: the
\* reload of each file it will stage, and the reload after each unit it will take away.
Announced ==
    /\ pc = "stage" => /\ ran = {}
                       /\ \A f \in ToStage \cap ReadFile : Reload(ReaderOf(f)) \in plan.owed
    /\ \A f \in UnitFile : <<"remove", f>> \in todo => ReloadAfter \in plan.owed \ ran

\* The reload after the units are gone waits for every one of them.
LEMMA ReloadAfterWaits ==
    ASSUME NEW f \in UnitFile, <<"remove", f>> \in todo
    PROVE  ~Due(ReloadAfter)
<1>1. Stage(<<"remove", f>>) = 6 /\ Stage(ReloadAfter) = 7
  BY DEF Stage, ReloadAfter, ServiceVerb
<1> QED
  BY <1>1 DEF Due, Before

\* A step that leaves the files and what was read of them alone, and what is owed at least
\* as large, forgets nothing.
LEMMA StillOwed ==
    ASSUME NothingForgotten, UNCHANGED <<file, loaded>>, lost => lost',
           ~lost' => \A st \in Reloads : st \in Debt => st \in Debt'
    PROVE  NothingForgotten'
<1>1. \A f \in ReadFile : Reload(ReaderOf(f)) \in Reloads
  BY DEF Reload, ReaderOf, Reloads, Daemon
<1>2. ReloadAfter \in Reloads
  BY DEF Reloads
<1> QED
  BY <1>1, <1>2 DEF NothingForgotten

\* A plan owes what it read as owed, and announces what it will do.
LEMMA PlannedOwes ==
    ASSUME TypeOK, NothingForgotten, pc = "idle",
           NEW k \in {"submit", "trial", "revert", "loop"}, NEW d \in Decl,
           NEW tries, NEW left, Planned(k, d, tries, left)
    PROVE  NothingForgotten' /\ Announced'
<1>1. PICK u \in Unknowns : Plan(k, d, u, tries, left)
  BY DEF Planned
<1> DEFINE W == u.withheld \cap {f \in File : Want[d][f] # None}
           own == Steps(d, W, u)
           carried == Carried(u.owed, own)
           steps == own \cup carried
           kept == Kept(steps, left)
<1>2. carried \subseteq Owable /\ Reloads \subseteq Owable
  BY CarriedType DEF Owable
<1>3. /\ plan'.owed = steps \cap Owable
      /\ plan'.write = Writes(d, W)
      /\ plan'.reclaim = IF Attended(k) THEN Reclaims(d, W) \ UnitFile ELSE {}
      /\ ran' = {} /\ pc' = "stage" /\ todo' \subseteq steps
      /\ UNCHANGED <<file, loaded>>
      /\ lost' = (lost \/ u.owed # owed)
  BY <1>1 DEF Plan, Kept, hostVars
<1>4. NothingForgotten'
  <2>1. \A st \in Reloads : st \in u.owed => st \in steps
    BY DEF Carried, Reloads, Reload, ReloadAfter
  <2>2. Debt' = steps \cap Owable
    BY <1>3 DEF Debt
  <2>3. Debt = owed
    BY DEF Debt
  <2>4. ~lost' => \A st \in Reloads : st \in Debt => st \in Debt'
    BY <1>2, <1>3, <2>1, <2>2, <2>3
  <2> QED
    BY <1>3, <2>4, StillOwed
<1>5. \A f \in ReadFile : f \in Writes(d, W) \cup (Reclaims(d, W) \ UnitFile) => Reload(ReaderOf(f)) \in ReloadSteps(d, W)
  BY FileAssumption DEF ReloadSteps, ReadFile, ReaderOf
<1>6. ASSUME NEW f \in UnitFile, <<"remove", f>> \in steps PROVE ReloadAfter \in ReloadSteps(d, W)
  <2>1. <<"remove", f>> \notin Owable
    BY DEF Owable, Reloads, Reload, ReloadAfter
  <2>2. <<"remove", f>> \in own
    BY <1>2, <1>6, <2>1
  <2>3. f \in Reclaims(d, W) \cap UnitFile
    BY <2>2 DEF Steps, ReloadSteps, ServiceSteps, Reload, ReloadAfter
  <2> QED
    BY <2>3 DEF ReloadSteps
<1>7. ReloadSteps(d, W) \subseteq steps \cap Owable
  BY DEF Steps, ReloadSteps, Owable, Reloads, Reload, ReloadAfter, Daemon, ReaderOf
<1>8. Announced'
  BY <1>3, <1>5, <1>6, <1>7 DEF Announced, ToStage
<1> QED
  BY <1>4, <1>8

\* A command that is no reload takes nothing out of what is owed.
LEMMA OtherStepOwes ==
    ASSUME TypeOK, NothingForgotten, Announced, NEW st \in Step, Ran(st), st \notin Reloads,
           UNCHANGED <<file, loaded>>
    PROVE  NothingForgotten' /\ Announced'
<1>1. /\ pc = "commit" /\ pc' = "commit" /\ plan' = plan /\ ran' = ran \cup {st}
      /\ todo' = todo \ {st} /\ lost' = lost
  BY DEF Ran
<1>2. \A r \in Reloads : r \in Debt => r \in Debt'
  BY <1>1 DEF Debt
<1>3. NothingForgotten'
  BY <1>1, <1>2, StillOwed
<1>4. ReloadAfter \in Reloads
  BY DEF Reloads
<1> QED
  BY <1>1, <1>3, <1>4 DEF Announced

\* The steps of a turn keep what is owed.
LEMMA RunOwes ==
    ASSUME TypeOK, NothingForgotten, Announced, Run
    PROVE  NothingForgotten' /\ Announced'
<1> USE DEF hostVars, stateVars, memory, turnVars
<1>1. ASSUME StageFiles PROVE NothingForgotten' /\ Announced'
  <2>1. /\ pc = "stage" /\ pc' \in {"accept", "commit"} /\ ran' = ran /\ todo' = todo
        /\ plan'.owed = plan.owed /\ lost' = lost /\ loaded' = loaded
        /\ file' = Staged(ToStage)
    BY <1>1 DEF StageFiles, TypeOK, PlanType
  <2>2. Debt' = Debt /\ Debt = plan.owed
    BY <2>1 DEF Debt, Announced
  <2>3. \A f \in ReadFile : f \in ToStage \/ file'[f] = file[f]
    BY <2>1, FileAssumption DEF Staged, ReadFile
  <2>4. NothingForgotten'
    BY <2>1, <2>2, <2>3 DEF NothingForgotten, Announced
  <2> QED
    BY <2>1, <2>4 DEF Announced
<1>2. ASSUME StageFails PROVE NothingForgotten' /\ Announced'
  <2>1. /\ pc = "stage" /\ pc' = "settle" /\ ran' = ran /\ todo' = {}
        /\ plan' = plan /\ lost' = lost /\ loaded' = loaded
    BY <1>2 DEF StageFails
  <2>2. PICK cut \in SUBSET ToStage : file' = Staged(cut)
    BY <1>2 DEF StageFails
  <2>3. Debt' = Debt /\ Debt = plan.owed
    BY <2>1 DEF Debt, Announced
  <2>4. \A f \in ReadFile : f \in ToStage \/ file'[f] = file[f]
    BY <2>2, FileAssumption DEF Staged, ReadFile
  <2>5. NothingForgotten'
    BY <2>1, <2>3, <2>4 DEF NothingForgotten, Announced
  <2> QED
    BY <2>1, <2>5 DEF Announced
<1>3. ASSUME Accept \/ AcceptFails PROVE NothingForgotten' /\ Announced'
  <2>1. /\ Debt' = Debt /\ lost' = lost /\ UNCHANGED <<file, loaded, plan, ran>>
        /\ todo' \subseteq todo /\ pc' # "stage"
    BY <1>3 DEF Accept, AcceptFails, Debt
  <2>2. NothingForgotten'
    BY <2>1, StillOwed
  <2> QED
    BY <2>1, <2>2 DEF Announced
<1>4. ASSUME RunNft PROVE NothingForgotten' /\ Announced'
  <2>1. <<"nft", None>> \in Step /\ <<"nft", None>> \notin Reloads
    BY DEF Step, Reloads, Reload, ReloadAfter
  <2> QED
    BY <1>4, <2>1, OtherStepOwes DEF RunNft
<1>5. ASSUME NEW st \in {"seed"} \X (Address \cup {None}), RunSeed(st) PROVE NothingForgotten' /\ Announced'
  BY <1>5, OtherStepOwes DEF RunSeed, Step, Reloads, Reload, ReloadAfter
<1>6. ASSUME NEW st \in {"sysctl"} \X BOOLEAN, RunSysctl(st) PROVE NothingForgotten' /\ Announced'
  BY <1>6, OtherStepOwes DEF RunSysctl, Step, Reloads, Reload, ReloadAfter
<1>7. ASSUME NEW st \in {"dns"} \X Address, RunDNS(st) PROVE NothingForgotten' /\ Announced'
  BY <1>7, OtherStepOwes DEF RunDNS, Step, Reloads, Reload, ReloadAfter
<1>8. ASSUME NEW st \in {"dns"} \X Address, DNSFails(st) PROVE NothingForgotten' /\ Announced'
  <2>1. /\ Debt' = Debt /\ lost' = lost /\ UNCHANGED <<file, loaded, plan, ran>>
        /\ todo' \subseteq todo /\ pc' # "stage"
    BY <1>8 DEF DNSFails, Debt
  <2>2. NothingForgotten'
    BY <2>1, StillOwed
  <2> QED
    BY <2>1, <2>2 DEF Announced
<1>9. ASSUME NEW st \in {"trigger"} \X LinkFile, RunTrigger(st) PROVE NothingForgotten' /\ Announced'
  BY <1>9, OtherStepOwes DEF RunTrigger, Step, Owable, Reloads, Reload, ReloadAfter
<1>10. ASSUME NEW st \in ServiceVerb \X Service, RunService(st) PROVE NothingForgotten' /\ Announced'
  BY <1>10, OtherStepOwes DEF RunService, ServiceVerb, Step, Reloads, Reload, ReloadAfter
<1>11. ASSUME NEW st \in Reloads, RunReload(st) PROVE NothingForgotten' /\ Announced'
  <2>1. /\ pc = "commit" /\ pc' = "commit" /\ plan' = plan /\ ran' = ran \cup {st} /\ Due(st)
        /\ todo' = todo \ {st} /\ lost' = lost /\ file' = file
        /\ loaded' = [f \in ReadFile |-> IF ReaderOf(f) = st[2] THEN file[f] ELSE loaded[f]]
    BY <1>11 DEF RunReload, Ran
  <2>2. ASSUME NEW f \in ReadFile, ReaderOf(f) # st[2]
        PROVE  Reload(ReaderOf(f)) # st /\ (f \in UnitFile => ReloadAfter # st)
    BY <2>2, FileAssumption DEF Reload, ReloadAfter, ReaderOf
  <2>3. Debt = plan.owed \ ran /\ Debt' = Debt \ {st}
    BY <2>1 DEF Debt
  <2>4. NothingForgotten'
    BY <2>1, <2>2, <2>3 DEF NothingForgotten
  <2>5. \A f \in UnitFile : <<"remove", f>> \in todo => st # ReloadAfter
    BY <2>1, ReloadAfterWaits
  <2> QED
    BY <2>1, <2>4, <2>5 DEF Announced
<1>12. ASSUME NEW st \in {"remove"} \X UnitFile, RunRemove(st) PROVE NothingForgotten' /\ Announced'
  <2>1. st = <<"remove", st[2]>> /\ st[2] \in UnitFile
    OBVIOUS
  <2>2. /\ pc = "commit" /\ pc' = "commit" /\ plan' = plan /\ ran' = ran \cup {st} /\ Due(st)
        /\ todo' = todo \ {st} /\ lost' = lost /\ loaded' = loaded
        /\ file' = [file EXCEPT ![st[2]] = None]
    BY <1>12 DEF RunRemove, Ran
  <2>3. st \notin Reloads /\ ReloadAfter \in Reloads /\ \A f \in ReadFile : Reload(ReaderOf(f)) \in Reloads
    BY <2>1 DEF Reloads, Reload, ReloadAfter, Daemon, ReaderOf
  <2>4. ReloadAfter \in Debt'
    BY <2>1, <2>2, <2>3 DEF Announced, Due, Debt
  <2>5. \A r \in Reloads : r \in Debt => r \in Debt'
    BY <2>2, <2>3 DEF Debt
  <2>6. \A f \in ReadFile : f = st[2] \/ file'[f] = file[f]
    BY <2>2, FileAssumption DEF TypeOK, ReadFile
  <2>7. NothingForgotten'
    BY <2>1, <2>2, <2>3, <2>4, <2>5, <2>6 DEF NothingForgotten
  <2> QED
    BY <2>2, <2>3, <2>7 DEF Announced
<1>13. ASSUME NEW st \in Step, StepFails(st) PROVE NothingForgotten' /\ Announced'
  <2>1. /\ Debt' = Debt /\ lost' = lost /\ UNCHANGED <<file, loaded>>
        /\ todo' = {} /\ pc' = "settle"
    BY <1>13 DEF StepFails, Debt
  <2>2. NothingForgotten'
    BY <2>1, StillOwed
  <2> QED
    BY <2>1, <2>2 DEF Announced
<1>14. ASSUME RecordRuleset PROVE NothingForgotten' /\ Announced'
  <2>1. /\ Debt' = Debt /\ lost' = lost /\ UNCHANGED <<file, loaded>>
        /\ todo' = {} /\ pc' = "settle"
    BY <1>14 DEF RecordRuleset, Debt
  <2>2. NothingForgotten'
    BY <2>1, StillOwed
  <2> QED
    BY <2>1, <2>2 DEF Announced
<1>15. ASSUME SettleOwed PROVE NothingForgotten' /\ Announced'
  <2>1. /\ pc = "settle" /\ pc' = "report" /\ UNCHANGED <<file, loaded, plan, ran, todo>>
        /\ (owed' = plan.owed \ ran /\ lost' = lost) \/ lost' = TRUE
    BY <1>15 DEF SettleOwed
  <2>2. ~lost' => Debt' = Debt
    BY <2>1 DEF Debt
  <2>3. NothingForgotten'
    BY <2>1, <2>2, StillOwed
  <2> QED
    BY <2>1, <2>3 DEF Announced
<1>16. ASSUME ReportTurn PROVE NothingForgotten' /\ Announced'
  <2>1. /\ Debt' = Debt /\ lost' = lost /\ UNCHANGED <<file, loaded>>
        /\ todo' = {} /\ pc' = "idle"
    BY <1>16 DEF ReportTurn, NoTurn, Debt
  <2>2. NothingForgotten'
    BY <2>1, StillOwed
  <2> QED
    BY <2>1, <2>2 DEF Announced
<1> QED
  BY <1>1, <1>2, <1>3, <1>4, <1>5, <1>6, <1>7, <1>8, <1>9, <1>10, <1>11, <1>12, <1>13,
     <1>14, <1>15, <1>16 DEF Run, Commit

\* What asks for a turn, and what happens beside one, forgets nothing either.
LEMMA AskedOwes ==
    ASSUME TypeOK, NothingForgotten, Announced, Asked
    PROVE  NothingForgotten' /\ Announced'
<1> USE DEF hostVars, stateVars, turnVars
<1>1. ASSUME UNCHANGED <<file, loaded, owed, pc, plan, ran, todo, lost>>
      PROVE  NothingForgotten' /\ Announced'
  <2>1. Debt' = Debt
    BY <1>1 DEF Debt
  <2>2. NothingForgotten'
    BY <1>1, <2>1, StillOwed
  <2> QED
    BY <1>1, <2>2 DEF Announced, ToStage
<1>2. ASSUME NEW d \in Decl, Submit(d) PROVE NothingForgotten' /\ Announced'
  BY <1>1, <1>2, PlannedOwes DEF Submit, NotPlanned
<1>3. ASSUME NEW d \in Decl, SubmitTrial(d) PROVE NothingForgotten' /\ Announced'
  BY <1>1, <1>3, PlannedOwes DEF SubmitTrial, NotPlanned
<1>4. ASSUME Confirm PROVE NothingForgotten' /\ Announced'
  BY <1>1, <1>4 DEF Confirm
<1>5. ASSUME Revert PROVE NothingForgotten' /\ Announced'
  <2>1. record # None => record \in Decl
    BY DEF TypeOK
  <2> QED
    BY <1>1, <1>5, <2>1, PlannedOwes DEF Revert, NotPlanned
<1>6. ASSUME NEW t \in 0..Delay[Levels], Loop(t) PROVE NothingForgotten' /\ Announced'
  <2> DEFINE d == IF trial # None THEN trial ELSE record
  <2>1. d \in Decl /\ pc = "idle"
    BY <1>6 DEF Loop, TypeOK
  <2>2. PICK tries, left : Planned("loop", d, tries, left)
    BY <1>6 DEF Loop
  <2> QED
    BY <2>1, <2>2, PlannedOwes
<1> QED
  BY <1>2, <1>3, <1>4, <1>5, <1>6 DEF Asked

\* What happens beside a turn forgets nothing: a crash says so in lost, a boot reads every file.
LEMMA EnvironmentOwes ==
    ASSUME TypeOK, NothingForgotten, Announced, Environment
    PROVE  NothingForgotten' /\ Announced'
<1> USE DEF hostVars, stateVars, turnVars, lineVars, linkVars
<1>1. ASSUME Crash PROVE NothingForgotten' /\ Announced'
  <2>1. /\ pc' = "idle" /\ todo' = {} /\ UNCHANGED <<file, loaded, owed>>
        /\ lost' = (lost \/ pc \notin {"idle", "report"})
    BY <1>1 DEF Crash, NoTurn
  <2>2. ~lost' => Debt' = Debt
    BY <2>1 DEF Debt
  <2>3. NothingForgotten'
    BY <2>1, <2>2, StillOwed
  <2> QED
    BY <2>1, <2>3 DEF Announced
<1>2. ASSUME Reboot PROVE NothingForgotten' /\ Announced'
  <2>1. /\ pc' = "idle" /\ todo' = {} /\ file' = file
        /\ loaded' = [f \in ReadFile |-> file[f]]
    BY <1>2 DEF Reboot, NoTurn
  <2>2. NothingForgotten'
    BY <2>1 DEF NothingForgotten
  <2> QED
    BY <2>1, <2>2 DEF Announced
<1>3. ASSUME UNCHANGED <<file, loaded, owed, pc, plan, ran, todo, lost>>
      PROVE  NothingForgotten' /\ Announced'
  <2>1. Debt' = Debt
    BY <1>3 DEF Debt
  <2>2. NothingForgotten'
    BY <1>3, <2>1, StillOwed
  <2> QED
    BY <1>3, <2>2 DEF Announced, ToStage
<1>4. ASSUME NEW f \in LinkFile, LinkAppears(f) PROVE NothingForgotten' /\ Announced'
  <2>1. /\ UNCHANGED <<file, owed, pc, plan, ran, todo, lost>>
        /\ loaded' = loaded \/ loaded' = [loaded EXCEPT ![f] = file[f]]
    BY <1>4 DEF LinkAppears
  <2>2. \A g \in ReadFile : loaded'[g] = loaded[g] \/ loaded'[g] = file[g]
    BY <2>1 DEF TypeOK
  <2>3. Debt' = Debt
    BY <2>1 DEF Debt
  <2>4. NothingForgotten'
    BY <2>1, <2>2, <2>3 DEF NothingForgotten
  <2> QED
    BY <2>1, <2>4 DEF Announced, ToStage
<1>5. ASSUME NEW f \in LinkFile, LinkGone(f) PROVE NothingForgotten' /\ Announced'
  BY <1>3, <1>5 DEF LinkGone
<1>6. ASSUME Flush \/ HookRuns PROVE NothingForgotten' /\ Announced'
  BY <1>3, <1>6 DEF Flush, HookRuns
<1>7. ASSUME NEW s \in Service, ProcessDies(s) PROVE NothingForgotten' /\ Announced'
  BY <1>3, <1>7 DEF ProcessDies
<1>8. ASSUME NEW a \in Address \cup {None}, Line(a) PROVE NothingForgotten' /\ Announced'
  BY <1>3, <1>8 DEF Line
<1> QED
  BY <1>1, <1>2, <1>4, <1>5, <1>6, <1>7, <1>8 DEF Environment

\* owed.go: unless a turn died or could not write down what it owed, every file a daemon has
\* not read as it is now has its reload on the way, whatever failed, was held back by the
\* backoff or was carried from an earlier turn.
THEOREM NoReloadForgotten == Spec => []NothingForgotten
<1> DEFINE IInv == TypeOK /\ NothingForgotten /\ Announced
<1>1. Init => IInv
  <2>1. Init => TypeOK
    BY InitType
  <2>2. Init => NothingForgotten /\ Announced
    BY FileAssumption DEF Init, NothingForgotten, Announced, ReadFile
  <2> QED
    BY <2>1, <2>2
<1>2. IInv /\ [Next]_vars => IInv'
  <2>1. ASSUME IInv, UNCHANGED vars PROVE NothingForgotten' /\ Announced'
    BY <2>1 DEF NothingForgotten, Announced, ToStage, Debt, vars, hostVars, stateVars, turnVars
  <2>2. ASSUME IInv, Next PROVE NothingForgotten' /\ Announced'
    BY <2>2, AskedOwes, RunOwes, EnvironmentOwes DEF Next
  <2> QED
    BY <2>1, <2>2, StepType
<1>3. IInv => NothingForgotten
  OBVIOUS
<1> QED
  BY <1>1, <1>2, <1>3, PTL DEF Spec
-----------------------------------------------------------------------------
(***************************************************************************)
(* Commands run toward the specification, and the record keeps its         *)
(* promise.                                                                *)
(***************************************************************************)
\* What a turn of each kind is directed at.  A submission has ended any trial before it
\* began; nothing moves the record or the trial while another kind of turn runs.
Directed ==
    /\ pc = "idle" <=> kind = "none"
    /\ pc = "accept" => kind = "submit" /\ ToStage = {} /\ ran = {}
    /\ pc = "stage" => ran = {}
    /\ kind = "submit" => trial = None
    /\ kind = "submit" /\ pc = "commit" => target = record
    /\ kind = "trial" => target = trial
    /\ kind = "revert" => target = record
    /\ kind = "loop" => target \in {record, trial}

\* A plan made toward the trial or the record is directed at it.
LEMMA PlannedDirected ==
    ASSUME TypeOK, NEW k \in {"submit", "trial", "revert", "loop"}, NEW d \in Decl, NEW tries, NEW left,
           Planned(k, d, tries, left),
           k = "submit" => trial' = None, k = "trial" => trial' = d, k = "revert" => record = d,
           k = "loop" => d \in {record, trial'}
    PROVE  Directed' /\ record' = record
  BY DEF Planned, Plan, Directed, stateVars

\* Every step keeps the turn directed at what it was asked to converge on.
LEMMA StepDirected ==
    ASSUME TypeOK, Directed, Next
    PROVE  Directed'
<1> USE DEF hostVars, stateVars, memory, retryVars, turnVars, lineVars, linkVars
<1>1. ASSUME UNCHANGED <<pc, kind, target, plan, ran, trial, record>> PROVE Directed'
  BY <1>1 DEF Directed, ToStage
<1>2. ASSUME NEW d \in Decl, Submit(d) PROVE Directed'
  <2>1. CASE Planned("submit", d, NoRetries, NoRetries)
    BY <1>2, <2>1, PlannedDirected DEF Submit
  <2>2. CASE NotPlanned
    BY <1>2, <2>2 DEF Submit, NotPlanned, Directed, ToStage
  <2> QED
    BY <1>2, <2>1, <2>2 DEF Submit
<1>3. ASSUME NEW d \in Decl, SubmitTrial(d) PROVE Directed'
  <2>1. CASE Planned("trial", d, attempts, wait)
    BY <1>3, <2>1, PlannedDirected DEF SubmitTrial
  <2>2. CASE NotPlanned
    BY <1>3, <2>2 DEF SubmitTrial, NotPlanned, Directed, ToStage
  <2> QED
    BY <1>3, <2>1, <2>2 DEF SubmitTrial
<1>4. ASSUME Confirm PROVE Directed'
  BY <1>4 DEF Confirm, Directed, ToStage
<1>5. ASSUME Revert PROVE Directed'
  <2>1. CASE record # None /\ Planned("revert", record, attempts, wait)
    <3>1. record \in Decl
      BY <2>1 DEF TypeOK
    <3> QED
      BY <1>5, <2>1, <3>1, PlannedDirected DEF Revert
  <2>2. CASE NotPlanned
    BY <1>5, <2>2 DEF Revert, NotPlanned, Directed, ToStage
  <2> QED
    BY <1>5, <2>1, <2>2 DEF Revert
<1>6. ASSUME NEW t \in 0..Delay[Levels], Loop(t) PROVE Directed'
  <2> DEFINE d == IF trial # None THEN trial ELSE record
  <2>1. d \in Decl /\ trial' = trial
    BY <1>6 DEF Loop, TypeOK
  <2>2. PICK tries, left : Planned("loop", d, tries, left)
    BY <1>6 DEF Loop
  <2> QED
    BY <2>1, <2>2, PlannedDirected
<1>7. ASSUME StageFiles PROVE Directed'
  <2>1. ToStage' = {}
    BY <1>7 DEF StageFiles, ToStage, TypeOK, PlanType
  <2>2. kind = "submit" => pc' = "accept"
    BY <1>7 DEF StageFiles
  <2> QED
    BY <1>7, <2>1, <2>2 DEF StageFiles, Directed
<1>8. ASSUME StageFails PROVE Directed'
  BY <1>8 DEF StageFails, Directed
<1>9. ASSUME Accept \/ AcceptFails PROVE Directed'
  BY <1>9 DEF Accept, AcceptFails, Directed
<1>10. ASSUME NEW st, Ran(st) PROVE Directed'
  BY <1>10 DEF Ran, Directed
<1>11. ASSUME NEW st, StepFails(st) PROVE Directed'
  BY <1>11 DEF StepFails, Directed
<1>12. ASSUME NEW st, DNSFails(st) PROVE Directed'
  BY <1>12 DEF DNSFails, Directed
<1>13. ASSUME RecordRuleset \/ SettleOwed PROVE Directed'
  BY <1>13 DEF RecordRuleset, SettleOwed, Directed
<1>14. ASSUME NoTurn PROVE Directed'
  BY <1>14 DEF NoTurn, Directed
<1>15. ASSUME Asked PROVE Directed'
  BY <1>2, <1>3, <1>4, <1>5, <1>6, <1>15 DEF Asked
<1>16. ASSUME Run PROVE Directed'
  <2>1. ASSUME Commit PROVE Directed'
    BY <1>10, <1>11, <1>12, <1>13, <2>1
       DEF Commit, RunNft, RunSeed, RunSysctl, RunDNS, RunTrigger, RunReload, RunService, RunRemove
  <2> QED
    BY <1>7, <1>8, <1>9, <1>13, <1>14, <1>16, <2>1 DEF Run, ReportTurn
<1>17. ASSUME Environment PROVE Directed'
  BY <1>1, <1>14, <1>17
     DEF Environment, Crash, Reboot, Flush, HookRuns, ProcessDies, Line, LinkAppears, LinkGone
<1> QED
  BY <1>15, <1>16, <1>17 DEF Next

\* Directed holds in every reachable state.
LEMMA DirectedAlways == Spec => [](TypeOK /\ Directed)
<1>1. Init => TypeOK /\ Directed
  <2>1. Init => Directed
    BY DEF Init, Directed
  <2> QED
    BY <2>1, InitType
<1>2. TypeOK /\ Directed /\ [Next]_vars => TypeOK' /\ Directed'
  <2>1. ASSUME Directed, UNCHANGED vars PROVE Directed'
    BY <2>1 DEF Directed, ToStage, vars, stateVars, memory, turnVars
  <2> QED
    BY <2>1, StepType, StepDirected
<1> QED
  BY <1>1, <1>2, PTL DEF Spec

\* turn.go: no command is ever run toward anything but the accepted declaration or the live
\* trial.
THEOREM TowardSpec == Spec => []CommandsTowardSpec
<1>1. TypeOK /\ Directed => CommandsTowardSpec
  BY DeclAssumption DEF TypeOK, Directed, CommandsTowardSpec
<1> QED
  BY <1>1, DirectedAlways, PTL

\* What a step does to the record and the trial.
LEMMA WhatMoves ==
    ASSUME TypeOK, Next, ~UNCHANGED <<record, trial>>
    PROVE  \/ Accept
           \/ Confirm
           \/ pc = "idle" /\ trial' \in Decl /\ record' = record
           \/ trial' = None /\ record' = record
<1> USE DEF stateVars, memory
<1>1. ASSUME NEW k, NEW d, NEW tries, NEW left, Planned(k, d, tries, left) PROVE record' = record
  BY <1>1 DEF Planned, Plan
<1>2. ASSUME NotPlanned PROVE record' = record
  BY <1>2 DEF NotPlanned
<1>3. ASSUME NEW st, Ran(st) \/ StepFails(st) \/ DNSFails(st) PROVE UNCHANGED <<record, trial>>
  BY <1>3 DEF Ran, StepFails, DNSFails
<1>4. CASE Asked
  BY <1>1, <1>2, <1>4 DEF Asked, Submit, SubmitTrial, Revert, Loop
<1>5. CASE Run
  <2>1. CASE Commit
    BY <1>3, <2>1 DEF Commit, RunNft, RunSeed, RunSysctl, RunDNS, RunTrigger, RunReload, RunService,
                      RunRemove, RecordRuleset
  <2> QED
    BY <1>5, <2>1 DEF Run, StageFiles, StageFails, AcceptFails, SettleOwed, ReportTurn
<1>6. CASE Environment
  BY <1>6 DEF Environment, Crash, Reboot, Flush, HookRuns, ProcessDies, Line, LinkAppears, LinkGone
<1> QED
  BY <1>4, <1>5, <1>6 DEF Next

\* ADR 0016, ADR 0017: the engine implements the promise made of the accepted declaration: a
\* submission is recorded only with no trial left, a trial comes and goes without moving the
\* record, and only a confirmation turns the one into the other.
THEOREM PromiseKept == Spec => KeepsPromise
<1>1. Init => Promise!Init
  BY DEF Init, Promise!Init
<1>2. TypeOK /\ Directed /\ [Next]_vars => [Promise!Next]_(Promise!vars)
  <2> SUFFICES ASSUME TypeOK, Directed, [Next]_vars, ~UNCHANGED <<record, trial>> PROVE Promise!Next
    BY DEF Promise!vars
  <2>1. Next
    BY DEF vars, stateVars, memory
  <2>2. CASE Accept
    BY <2>2 DEF Accept, Directed, TypeOK, memory, Promise!Next, Promise!Accept
  <2>3. CASE Confirm
    BY <2>3 DEF Confirm, Promise!Next, Promise!Confirm
  <2>4. CASE trial' \in Decl /\ record' = record
    BY <2>4 DEF Promise!Next, Promise!Try
  <2>5. CASE trial' = None /\ record' = record
    BY <2>5 DEF Promise!Next, Promise!Drop
  <2> QED
    BY <2>1, <2>2, <2>3, <2>4, <2>5, WhatMoves
<1> QED
  BY <1>1, <1>2, DirectedAlways, PTL DEF Spec, KeepsPromise, Promise!Spec

\* turn.go: the record moves only to a submission whose files are all staged, before its first
\* command, or to the trial an operator confirms.
THEOREM RecordOnRequest == Spec => AcceptedOnlyOnRequest
<1>1. TypeOK /\ Directed /\ [Next]_vars =>
        [record' # record => \/ kind = "submit" /\ ToStage = {} /\ ran = {} /\ record' = target
                             \/ pc = "idle" /\ record' = trial]_vars
  <2> SUFFICES ASSUME TypeOK, Directed, Next, record' # record
               PROVE  \/ kind = "submit" /\ ToStage = {} /\ ran = {} /\ record' = target
                      \/ pc = "idle" /\ record' = trial
    OBVIOUS
  <2>1. Accept \/ Confirm
    BY WhatMoves
  <2> QED
    BY <2>1 DEF Accept, Confirm, Directed
<1> QED
  BY <1>1, DirectedAlways, PTL DEF Spec, AcceptedOnlyOnRequest
-----------------------------------------------------------------------------
(***************************************************************************)
(* A turn nobody asked for takes nothing down.                             *)
(***************************************************************************)
\* An unattended turn has nothing to do that stops a process or takes a file away.
Gentle ==
    kind = "loop" => /\ \A st \in todo : ~Forbidden(st)
                     /\ plan.reclaim = {}
                     /\ \A f \in plan.write : Want[target][f] # None

\* An unattended plan holds no forbidden step and reclaims no file.
LEMMA PlannedGentle ==
    ASSUME NEW k, NEW d, NEW tries, NEW left, Planned(k, d, tries, left)
    PROVE  Gentle'
<1> SUFFICES ASSUME k = "loop" PROVE Gentle'
  BY DEF Planned, Plan, Gentle
<1>1. PICK u \in Unknowns : Plan("loop", d, u, tries, left)
  BY DEF Planned
<1> DEFINE W == u.withheld \cap {f \in File : Want[d][f] # None}
<1>2. target' = d /\ plan'.reclaim = {} /\ plan'.write = Writes(d, W)
  BY <1>1 DEF Plan, Attended
<1>3. \A st \in todo' : ~Forbidden(st)
  BY <1>1 DEF Plan, Attended, Kept
<1> QED
  BY <1>2, <1>3 DEF Gentle, Writes

\* Every step keeps an unattended turn free of forbidden steps.
LEMMA StepGentle ==
    ASSUME TypeOK, Gentle, Next
    PROVE  Gentle'
<1> USE DEF turnVars
<1>1. ASSUME UNCHANGED <<kind, target>>, plan' = plan \/ StageFiles, todo' \subseteq todo PROVE Gentle'
  BY <1>1 DEF Gentle, StageFiles, TypeOK, PlanType
<1>2. ASSUME NoTurn PROVE Gentle'
  BY <1>2 DEF NoTurn, Gentle
<1>3. ASSUME NEW st, Ran(st) \/ StepFails(st) \/ DNSFails(st) PROVE Gentle'
  BY <1>1, <1>3 DEF Ran, StepFails, DNSFails
<1>4. CASE Asked
  BY <1>1, <1>4, PlannedGentle DEF Asked, Submit, SubmitTrial, Revert, Loop, Confirm, NotPlanned
<1>5. CASE Run
  <2>1. CASE Commit
    BY <1>1, <1>3, <2>1 DEF Commit, RunNft, RunSeed, RunSysctl, RunDNS, RunTrigger, RunReload, RunService,
                            RunRemove, RecordRuleset
  <2>2. CASE StageFiles
    BY <1>1, <2>2 DEF StageFiles
  <2> QED
    BY <1>1, <1>2, <1>5, <2>1, <2>2 DEF Run, StageFails, Accept, AcceptFails, SettleOwed, ReportTurn
<1>6. CASE Environment
  BY <1>1, <1>2, <1>6
     DEF Environment, Crash, Reboot, Flush, HookRuns, ProcessDies, Line, LinkAppears, LinkGone
<1> QED
  BY <1>4, <1>5, <1>6 DEF Next

\* unattendedPlan: for any declaration and any host, a turn nobody asked for never stops or
\* restarts a process that runs and never takes a file away.
THEOREM LoopIsGentle == Spec => UnattendedTakesNothingDown
<1> DEFINE Keeps == /\ \A s \in Service : proc[s] # None => proc'[s] = proc[s]
                    /\ \A f \in File : file[f] # None => file'[f] # None
<1>1. Init => TypeOK /\ Gentle
  <2>1. Init => Gentle
    BY DEF Init, Gentle
  <2> QED
    BY <2>1, InitType
<1>2. TypeOK /\ Gentle /\ [Next]_vars => TypeOK' /\ Gentle'
  <2>1. ASSUME Gentle, UNCHANGED vars PROVE Gentle'
    BY <2>1 DEF Gentle, vars, turnVars
  <2> QED
    BY <2>1, StepType, StepGentle
<1>3. ASSUME TypeOK, Gentle, kind = "loop", Run PROVE Keeps
  <2> USE DEF hostVars
  <2>1. ASSUME UNCHANGED <<proc, file>> PROVE Keeps
    BY <2>1
  <2>2. ASSUME NEW cut \in SUBSET ToStage, file' = Staged(cut), proc' = proc PROVE Keeps
    <3>1. ToStage = plan.write
      BY <1>3 DEF Gentle, ToStage
    <3>2. \A f \in cut : Want[target][f] # None
      BY <1>3, <2>2, <3>1 DEF Gentle
    <3> QED
      BY <2>2, <3>2 DEF Staged
  <2>3. CASE StageFiles
    BY <2>2, <2>3 DEF StageFiles
  <2>4. CASE StageFails
    BY <2>2, <2>4 DEF StageFails
  <2>5. ASSUME NEW st \in ServiceVerb \X Service, RunService(st) PROVE Keeps
    <3>1. st \in todo /\ st[1] # "restart" /\ st[1] # "disable"
      BY <1>3, <2>5 DEF RunService, Ran, Due, Gentle, Forbidden
    <3>2. st[2] \in Service /\ proc \in [Service -> {None} \cup Snapshot] /\ file' = file
      BY <1>3, <2>5 DEF RunService, TypeOK
    <3>3. proc' = [proc EXCEPT ![st[2]] = IF st[1] \in {"start", "enableNow"} /\ proc[st[2]] = None
                                          THEN Reads(st[2]) ELSE @]
      BY <2>5, <3>1 DEF RunService
    <3> QED
      BY <3>2, <3>3
  <2>6. ASSUME NEW st \in {"remove"} \X UnitFile, RunRemove(st) PROVE Keeps
    BY <1>3, <2>6 DEF RunRemove, Ran, Due, Gentle, Forbidden
  <2>7. ASSUME NEW st \in Step, StepFails(st) PROVE Keeps
    <3>1. st \in todo /\ ~Forbidden(st)
      BY <1>3, <2>7 DEF StepFails, Due, Gentle
    <3>2. \A s \in Service : st # <<"restart", s>>
      BY <3>1 DEF Forbidden
    <3> QED
      BY <2>1, <2>7, <3>2 DEF StepFails
  <2>8. CASE Commit
    BY <2>1, <2>5, <2>6, <2>7, <2>8
       DEF Commit, RunNft, RunSeed, RunSysctl, RunDNS, DNSFails, RunTrigger, RunReload, RecordRuleset
  <2> QED
    BY <1>3, <2>1, <2>3, <2>4, <2>8 DEF Run, Accept, AcceptFails, SettleOwed, ReportTurn
<1>4. TypeOK /\ Gentle /\ [Next]_vars => [kind = "loop" /\ TakesDown => ~Run]_vars
  BY <1>3 DEF TakesDown
<1> QED
  BY <1>1, <1>2, <1>4, PTL DEF Spec, UnattendedTakesNothingDown
-----------------------------------------------------------------------------
(***************************************************************************)
(* The filter comes before what it filters.                                *)
(***************************************************************************)
\* A submitted turn that found no table has still to install one.
Sheltered ==
    ~touched /\ ~ProbeFaults /\ Attended(kind) /\ pc \in {"stage", "accept", "commit"} /\ table = None
        => <<"nft", None>> \in todo

\* While the table is still to be installed, no step of a later phase is due.
LEMMA NftFirst ==
    ASSUME NEW st \in Step, <<"nft", None>> \in todo, Due(st)
    PROVE  st[1] \in {"nft", "seed"}
<1>1. Stage(<<"nft", None>>) = 1
  BY DEF Stage, ServiceVerb
<1>2. ~(1 < Stage(st))
  BY <1>1 DEF Due, Before
<1>3. ASSUME st[1] \notin {"nft", "seed"} PROVE 1 < Stage(st)
  <2>1. CASE st[1] = "sysctl" BY <2>1 DEF Stage, ServiceVerb
  <2>2. CASE st[1] = "trigger" BY <2>2 DEF Stage, ServiceVerb
  <2>3. CASE st[1] = "reload" BY <2>3 DEF Stage, ServiceVerb
  <2>4. CASE st[1] \in ServiceVerb BY <2>4 DEF Stage, ServiceVerb
  <2>5. CASE st[1] = "remove" BY <2>5 DEF Stage, ServiceVerb
  <2>6. CASE st[1] = "reloadAfter" BY <2>6 DEF Stage, ServiceVerb
  <2>7. CASE st[1] = "dns" BY <2>7 DEF Stage, ServiceVerb
  <2>8. st[1] \in {"sysctl", "trigger", "reload", "remove", "reloadAfter", "dns"} \cup ServiceVerb
    BY <1>3 DEF Step, Owable, Reloads, Reload, ReloadAfter
  <2> QED
    BY <2>1, <2>2, <2>3, <2>4, <2>5, <2>6, <2>7, <2>8
<1> QED
  BY <1>2, <1>3

\* A submitted plan made with no table in the kernel installs one.
LEMMA PlannedSheltered ==
    ASSUME NEW k, NEW d, NEW tries, NEW left, Planned(k, d, tries, left)
    PROVE  Sheltered'
<1> SUFFICES ASSUME ~ProbeFaults, Attended(k), table' = None PROVE <<"nft", None>> \in todo'
  BY DEF Planned, Plan, Sheltered
<1>1. PICK u \in Unknowns : Plan(k, d, u, tries, left)
  BY DEF Planned
<1>2. u.nft = TRUE /\ table = None
  BY <1>1, CauseAssumption DEF Unknowns, Plan, hostVars
<1>3. Apply(d, u.nft)
  BY <1>2 DEF Apply
<1> QED
  BY <1>1, <1>3 DEF Plan, Steps

\* Every step keeps the table in place or its installation ahead.
LEMMA StepSheltered ==
    ASSUME TypeOK, Sheltered, Next
    PROVE  Sheltered'
<1> USE DEF hostVars, turnVars, lineVars, linkVars
<1>1. ASSUME UNCHANGED <<touched, kind, table>>, pc \in {"stage", "accept", "commit"},
             todo' = todo \/ pc' = "settle"
      PROVE  Sheltered'
  BY <1>1 DEF Sheltered
<1>2. ASSUME pc' \in {"idle", "settle", "report"} PROVE Sheltered'
  BY <1>2 DEF Sheltered
<1>3. ASSUME UNCHANGED <<touched, kind, table, pc, todo>> PROVE Sheltered'
  BY <1>3 DEF Sheltered
<1>4. ASSUME NEW st, st # <<"nft", None>>, Ran(st) \/ DNSFails(st), table' = table PROVE Sheltered'
  BY <1>4 DEF Sheltered, Ran, DNSFails
<1>5. ASSUME touched' PROVE Sheltered'
  BY <1>5 DEF Sheltered
<1>6. CASE Asked
  BY <1>3, <1>6, PlannedSheltered DEF Asked, Submit, SubmitTrial, Revert, Loop, Confirm, NotPlanned
<1>7. CASE Run
  <2>1. CASE RunNft
    <3>1. table' \in Version
      BY <2>1, DeclAssumption DEF RunNft, Ran, TypeOK
    <3> QED
      BY <3>1, DeclAssumption DEF Sheltered
  <2>2. CASE \E st \in Step : StepFails(st)
    BY <1>2, <2>2 DEF StepFails
  <2>3. CASE Commit /\ ~RunNft /\ ~\E st \in Step : StepFails(st)
    <3>1. ASSUME NEW st \in Reloads \cup (ServiceVerb \X Service) PROVE st # <<"nft", None>>
      BY <3>1 DEF Reloads, Reload, ReloadAfter, ServiceVerb
    <3>2. ASSUME NEW st \in Reloads, RunReload(st) PROVE Sheltered'
      BY <1>4, <3>1, <3>2 DEF RunReload
    <3>3. ASSUME NEW st \in ServiceVerb \X Service, RunService(st) PROVE Sheltered'
      BY <1>4, <3>1, <3>3 DEF RunService
    <3>4. CASE RecordRuleset
      BY <1>2, <3>4 DEF RecordRuleset
    <3>5. ASSUME NEW st, st[1] \in {"seed", "sysctl", "dns", "trigger", "remove"},
                 \/ RunSeed(st) \/ RunSysctl(st) \/ RunDNS(st) \/ DNSFails(st)
                 \/ RunTrigger(st) \/ RunRemove(st)
          PROVE  Sheltered'
      <4>1. st # <<"nft", None>> /\ table' = table /\ (Ran(st) \/ DNSFails(st))
        BY <3>5 DEF RunSeed, RunSysctl, RunDNS, DNSFails, RunTrigger, RunRemove
      <4> QED
        BY <1>4, <4>1
    <3> QED
      BY <2>3, <3>2, <3>3, <3>4, <3>5 DEF Commit
  <2> QED
    BY <1>1, <1>2, <1>7, <2>1, <2>2, <2>3
       DEF Run, StageFiles, StageFails, Accept, AcceptFails, SettleOwed, ReportTurn, NoTurn
<1>8. CASE Environment
  BY <1>2, <1>3, <1>5, <1>8
     DEF Environment, Crash, Reboot, NoTurn, Flush, HookRuns, ProcessDies, Line, LinkAppears, LinkGone
<1> QED
  BY <1>6, <1>7, <1>8 DEF Next

\* ADR 0004, ADR 0016: wherever a failure stops a turn an operator asked for, it has neither
\* turned forwarding on nor started a process with no table in the kernel, unless the table
\* was taken away after the plan was made.
THEOREM FilterFirst == Spec => FilterBeforeOpening
<1>1. Init => TypeOK /\ Sheltered
  <2>1. Init => Sheltered
    BY DEF Init, Sheltered
  <2> QED
    BY <2>1, InitType
<1>2. TypeOK /\ Sheltered /\ [Next]_vars => TypeOK' /\ Sheltered'
  <2>1. ASSUME Sheltered, UNCHANGED vars PROVE Sheltered'
    BY <2>1 DEF Sheltered, vars, hostVars, turnVars
  <2> QED
    BY <2>1, StepType, StepSheltered
<1>3. ASSUME TypeOK, Sheltered, Run, Attended(kind), Opens, ~touched, ~ProbeFaults PROVE table # None
  <2> USE DEF hostVars
  <2>1. ASSUME NEW st \in Step, StepFails(st) PROVE ~Opens
    BY <1>3, <2>1 DEF StepFails, Opens, TypeOK
  <2>2. ASSUME UNCHANGED <<forwarding, proc>> PROVE ~Opens
    BY <2>2 DEF Opens
  <2>3. CASE \E st \in {"sysctl"} \X BOOLEAN : RunSysctl(st)
    <3>1. PICK st \in {"sysctl"} \X BOOLEAN : Ran(st)
      BY <2>3 DEF RunSysctl
    <3>2. st \in Step /\ st[1] = "sysctl" /\ Due(st) /\ pc = "commit"
      BY <3>1 DEF Step, Ran
    <3> QED
      BY <1>3, <3>2, NftFirst DEF Sheltered
  <2>4. CASE \E st \in ServiceVerb \X Service : RunService(st)
    <3>1. PICK st \in ServiceVerb \X Service : Ran(st)
      BY <2>4 DEF RunService
    <3>2. st \in Step /\ st[1] \in ServiceVerb /\ Due(st) /\ pc = "commit"
      BY <3>1 DEF Step, Ran
    <3>3. "nft" \notin ServiceVerb /\ "seed" \notin ServiceVerb
      BY DEF ServiceVerb
    <3> QED
      BY <1>3, <3>2, <3>3, NftFirst DEF Sheltered
  <2>5. CASE Commit
    BY <1>3, <2>1, <2>2, <2>3, <2>4, <2>5
       DEF Commit, RunNft, RunSeed, RunDNS, DNSFails, RunTrigger, RunReload, RunRemove, RecordRuleset
  <2> QED
    BY <1>3, <2>2, <2>5 DEF Run, StageFiles, StageFails, Accept, AcceptFails, SettleOwed, ReportTurn
<1>4. TypeOK /\ Sheltered /\ [Next]_vars =>
        [Opens /\ ~touched /\ ~ProbeFaults /\ Attended(kind) /\ Run => table # None]_vars
  BY <1>3
<1> QED
  BY <1>1, <1>2, <1>4, PTL DEF Spec, FilterBeforeOpening
-----------------------------------------------------------------------------
(***************************************************************************)
(* A link gets its event after udev has read its file.                     *)
(***************************************************************************)
\* A submitted turn does everything that is owed, and an event of its own comes with a
\* reload of its own.
Complete ==
    Attended(kind) /\ pc \in {"stage", "accept", "commit"} =>
        /\ plan.owed \ ran \subseteq todo
        /\ \A f \in LinkFile : <<"trigger", f>> \in todo =>
               <<"trigger", f>> \in plan.carried \/ Reload("udev") \notin plan.carried

\* While udev's reload is still to run, no event is due.
LEMMA ReloadFirst ==
    ASSUME NEW f \in LinkFile, Reload("udev") \in todo,
           <<"trigger", f>> \in plan.carried \/ Reload("udev") \notin plan.carried
    PROVE  ~Due(<<"trigger", f>>)
<1>1. Stage(<<"trigger", f>>) = 3 /\ Stage(Reload("udev")) = 3
  BY DEF Stage, Reload, ServiceVerb
<1>2. Within(Reload("udev")) = 1 + (IF Reload("udev") \in plan.carried THEN 3 ELSE 0)
  BY <1>1 DEF Within, Reload
<1>3. Within(<<"trigger", f>>) = 2 + (IF <<"trigger", f>> \in plan.carried THEN 3 ELSE 0)
  BY <1>1 DEF Within, Reload
<1> QED
  BY <1>1, <1>2, <1>3 DEF Due, Before

\* A submitted plan holds every reload and event it owes.
LEMMA PlannedComplete ==
    ASSUME NEW k, NEW d, NEW tries, NEW left, Planned(k, d, tries, left)
    PROVE  Complete'
<1> SUFFICES ASSUME Attended(k) PROVE Complete'
  BY DEF Planned, Plan, Complete
<1>1. PICK u \in Unknowns : Plan(k, d, u, tries, left)
  BY DEF Planned
<1> DEFINE W == u.withheld \cap {f \in File : Want[d][f] # None}
           own == Steps(d, W, u)
           carried == Carried(u.owed, own)
<1>2. todo' = own \cup carried /\ ran' = {} /\ plan'.owed = (own \cup carried) \cap Owable /\ plan'.carried = carried
  BY <1>1 DEF Plan
<1>3. ASSUME NEW f \in LinkFile, <<"trigger", f>> \in own PROVE Reload("udev") \in own
  <2>1. f \in Writes(d, W) \cap LinkFile
    BY <1>3 DEF Steps, ReloadSteps, ServiceSteps, Reload, ReloadAfter
  <2>2. ReaderOf(f) = "udev"
    BY FileAssumption DEF ReaderOf
  <2>3. Reload("udev") \in ReloadSteps(d, W)
    BY <2>1, <2>2 DEF ReloadSteps
  <2> QED
    BY <2>3 DEF Steps
<1>4. carried \cap own = {}
  BY DEF Carried
<1> QED
  BY <1>2, <1>3, <1>4 DEF Complete

\* Every step keeps what is owed in the turn that is to do it.
LEMMA StepComplete ==
    ASSUME TypeOK, Complete, Next
    PROVE  Complete'
<1> USE DEF turnVars
<1>1. ASSUME UNCHANGED <<kind, ran, todo>>, pc \in {"stage", "accept", "commit"},
             plan'.owed = plan.owed, plan'.carried = plan.carried
      PROVE  Complete'
  BY <1>1 DEF Complete
<1>2. ASSUME pc' \in {"idle", "settle", "report"} PROVE Complete'
  BY <1>2 DEF Complete
<1>3. ASSUME UNCHANGED <<kind, ran, todo, pc, plan>> PROVE Complete'
  BY <1>3 DEF Complete
<1>4. ASSUME NEW st, Ran(st) PROVE Complete'
  BY <1>4 DEF Complete, Ran
<1>5. ASSUME NEW st \in {"dns"} \X Address, DNSFails(st) PROVE Complete'
  <2>1. st \notin Owable
    BY DEF Owable, Reloads, Reload, ReloadAfter
  <2>2. plan.owed \subseteq Owable
    BY DEF TypeOK, PlanType
  <2> QED
    BY <1>5, <2>1, <2>2 DEF DNSFails, Complete
<1>6. CASE Asked
  BY <1>3, <1>6, PlannedComplete DEF Asked, Submit, SubmitTrial, Revert, Loop, Confirm, NotPlanned
<1>7. CASE Commit
  BY <1>2, <1>4, <1>5, <1>7
     DEF Commit, RunNft, RunSeed, RunSysctl, RunDNS, RunTrigger, RunReload, RunService, RunRemove,
         StepFails, RecordRuleset
<1>8. CASE StageFiles
  BY <1>1, <1>8 DEF StageFiles, TypeOK, PlanType
<1>9. CASE Run /\ ~Commit /\ ~StageFiles
  BY <1>1, <1>2, <1>9 DEF Run, StageFails, Accept, AcceptFails, SettleOwed, ReportTurn, NoTurn
<1>10. CASE Environment
  BY <1>2, <1>3, <1>10
     DEF Environment, Crash, Reboot, NoTurn, Flush, HookRuns, ProcessDies, Line, LinkAppears, LinkGone
<1> QED
  BY <1>6, <1>7, <1>8, <1>9, <1>10 DEF Next, Run

\* plan.go, udevSteps: in a turn an operator asked for a link is only ever set to what its
\* .link file says, whichever turns left the reload and the event owed, as long as none of
\* them died or could not write that down.
THEOREM LinkSetFromItsFile == Spec => EventAfterReload
<1>1. Init => TypeOK /\ Complete
  <2>1. Init => Complete
    BY DEF Init, Complete
  <2> QED
    BY <2>1, InitType
<1>2. TypeOK /\ Complete /\ [Next]_vars => TypeOK' /\ Complete'
  <2>1. ASSUME Complete, UNCHANGED vars PROVE Complete'
    BY <2>1 DEF Complete, vars, turnVars
  <2> QED
    BY <2>1, StepType, StepComplete
<1>3. ASSUME TypeOK, NothingForgotten, Complete, Run, Attended(kind), ~lost,
             NEW f \in LinkFile, <<"trigger", f>> \in ran' \ ran
      PROVE  tuned'[f] = file[f]
  <2> DEFINE event == <<"trigger", f>>
  <2>1. ASSUME NEW st, Ran(st) PROVE st = event
    BY <1>3, <2>1 DEF Ran
  <2>2. \E st \in {"trigger"} \X LinkFile : RunTrigger(st)
    <3>1. ASSUME NEW st \in Reloads \cup (ServiceVerb \X Service) PROVE st # event
      BY <3>1 DEF Reloads, Reload, ReloadAfter, ServiceVerb
    <3>2. Commit
      BY <1>3 DEF Run, StageFiles, StageFails, Accept, AcceptFails, SettleOwed, ReportTurn, NoTurn
    <3> QED
      BY <1>3, <2>1, <3>1, <3>2
         DEF Commit, RunNft, RunSeed, RunSysctl, RunDNS, DNSFails, RunReload, RunService, RunRemove,
             StepFails, RecordRuleset
  <2>3. RunTrigger(event) /\ pc = "commit" /\ Due(event)
    BY <2>1, <2>2 DEF RunTrigger, Ran
  <2>4. event \in todo
    BY <2>3 DEF Due
  <2>5. Reload("udev") \notin todo
    BY <2>3, <2>4, <1>3, ReloadFirst DEF Complete
  <2>6. Reload("udev") \notin Debt
    BY <2>3, <2>5, <1>3 DEF Complete, Debt
  <2>7. ReaderOf(f) = "udev" /\ f \notin UnitFile /\ f \in ReadFile
    BY FileAssumption DEF ReaderOf, ReadFile
  <2>8. loaded[f] = file[f]
    BY <1>3, <2>6, <2>7 DEF NothingForgotten
  <2> QED
    BY <1>3, <2>3, <2>8 DEF RunTrigger, TypeOK
<1>4. TypeOK /\ NothingForgotten /\ Complete /\ [Next]_vars =>
        [Attended(kind) /\ ~lost /\ Run =>
             \A f \in LinkFile : <<"trigger", f>> \in ran' \ ran => tuned'[f] = file[f]]_vars
  BY <1>3
<1> QED
  BY <1>1, <1>2, <1>4, NoReloadForgotten, PTL DEF Spec, EventAfterReload
-----------------------------------------------------------------------------
(***************************************************************************)
(* A submitted turn leaves nothing for the next one.                       *)
(***************************************************************************)
\* A turn an operator asked for that will report converged if nothing more goes wrong, on
\* a host nothing else has changed since its plan was made.
OnCourse == pc # "idle" /\ Attended(kind) /\ StateOf = "converged" /\ ~touched /\ ~ProbeFaults

\* A file is as the declaration wants it, or staging or a step of the turn will make it so.
FilesAhead ==
    /\ \A f \in File : \/ file[f] = Want[target][f]
                       \/ pc = "stage" /\ f \in ToStage
                       \/ <<"remove", f>> \in todo
    /\ \A f \in File : <<"remove", f>> \in todo => Want[target][f] = None

\* The kernel has a table, or the turn will install it.
TableAhead == table # None \/ <<"nft", None>> \in todo

\* The set holds the uplink's address, or it will once the table is in and the set seeded.
SetAhead ==
    /\ \/ <<"seed", uplink>> \in todo
       \/ <<"nft", None>> \in todo /\ uplink = None
       \/ <<"nft", None>> \notin todo /\ sets = {uplink} \ {None}
    /\ \A a \in Address \cup {None} : <<"seed", a>> \in todo => a = uplink

\* The forwarding switch is where the declaration wants it, or the turn will put it there.
SwitchAhead ==
    /\ forwarding = Forward[target] \/ <<"sysctl", Forward[target]>> \in todo
    /\ \A b \in BOOLEAN : <<"sysctl", b>> \in todo => b = Forward[target]

\* A declared service runs, or the turn will start it; the turn stops none of them.
ServicesAhead ==
    \A s \in Declared(target) :
        /\ proc[s] # None \/ <<"enableNow", s>> \in todo \/ <<"start", s>> \in todo
        /\ <<"disable", s>> \notin todo

\* The record holds the uplink's address, or the turn will write it.
RecordAhead ==
    /\ RecordDue => <<"dns", uplink>> \in todo
    /\ \A a \in Address : <<"dns", a>> \in todo => a = uplink

\* What a converging turn has not done yet, it still has to do.
Ahead ==
    OnCourse => /\ FilesAhead /\ TableAhead /\ SetAhead
                /\ SwitchAhead /\ ServicesAhead /\ RecordAhead
                /\ pc \in {"settle", "report"} => todo = {}

\* What a step does not touch, and is not itself, is as far ahead after it as before.
LEMMA RanAhead ==
    ASSUME NEW st, Ran(st), FilesAhead, TableAhead, SetAhead, SwitchAhead, ServicesAhead, RecordAhead,
           uplink' = uplink
    PROVE  /\ file' = file /\ st[1] # "remove" => FilesAhead'
           /\ table' = table /\ st[1] # "nft" => TableAhead'
           /\ sets' = sets /\ st[1] \notin {"nft", "seed"} => SetAhead'
           /\ forwarding' = forwarding /\ st[1] # "sysctl" => SwitchAhead'
           /\ proc' = proc /\ st[1] \notin ServiceVerb => ServicesAhead'
           /\ written' = written /\ st[1] # "dns" => RecordAhead'
<1>1. /\ todo' = todo \ {st} /\ target' = target /\ pc = "commit" /\ pc' = "commit"
      /\ plan' = plan
  BY DEF Ran
<1>3. file' = file /\ st[1] # "remove" => FilesAhead'
  BY <1>1 DEF FilesAhead
<1>4. table' = table /\ st[1] # "nft" => TableAhead'
  BY <1>1 DEF TableAhead
<1>5. sets' = sets /\ st[1] \notin {"nft", "seed"} => SetAhead'
  BY <1>1 DEF SetAhead
<1>6. forwarding' = forwarding /\ st[1] # "sysctl" => SwitchAhead'
  BY <1>1 DEF SwitchAhead
<1>7. proc' = proc /\ st[1] \notin ServiceVerb => ServicesAhead'
  <2>1. SUFFICES ASSUME proc' = proc, st[1] \notin ServiceVerb PROVE ServicesAhead'
    OBVIOUS
  <2>2. \A s : st # <<"enableNow", s>> /\ st # <<"start", s>> /\ st # <<"disable", s>>
    BY <2>1 DEF ServiceVerb
  <2>3. Declared(target') = Declared(target)
    BY <1>1
  <2> QED
    BY <1>1, <2>1, <2>2, <2>3 DEF ServicesAhead
<1>8. written' = written /\ st[1] # "dns" => RecordAhead'
  BY <1>1 DEF RecordAhead, RecordDue
<1> QED
  BY <1>3, <1>4, <1>5, <1>6, <1>7, <1>8

\* A submitted plan that can converge asks for everything the host is short of.
LEMMA PlannedAhead ==
    ASSUME TypeOK, NEW k, NEW d \in Decl, NEW tries, NEW left, Planned(k, d, tries, left)
    PROVE  Ahead'
<1> SUFFICES ASSUME OnCourse' PROVE Ahead'
  BY DEF Ahead
<1>1. PICK u \in Unknowns : Plan(k, d, u, tries, left)
  BY DEF Planned
<1> DEFINE W == u.withheld \cap {f \in File : Want[d][f] # None}
           own == Steps(d, W, u)
           carried == Carried(u.owed, own)
<1>2. /\ kind' = k /\ target' = d /\ pc' = "stage" /\ touched' = FALSE
      /\ UNCHANGED <<file, proc, table, forwarding, sets, uplink, written>>
  BY <1>1 DEF Plan, hostVars, lineVars
<1>3. Attended(k) /\ ~ProbeFaults /\ ~plan'.waiting
  BY <1>2 DEF OnCourse, StateOf
<1>4. plan' = [write   |-> Writes(d, W),
               reclaim |-> Reclaims(d, W) \ UnitFile,
               apply   |-> Apply(d, u.nft),
               owed    |-> (own \cup carried) \cap Owable,
               carried |-> carried,
               waiting |-> W # {} \/ (Records /\ uplink = None)]
  BY <1>1, <1>3 DEF Plan
<1>5. W = {} /\ u.nft = TRUE /\ u.units = TRUE
  BY <1>3, <1>4, CauseAssumption DEF Unknowns
<1>6. todo' = own \cup carried
  BY <1>1, <1>3 DEF Plan
<1>7. carried \subseteq Owable
  BY CarriedType
<1>8. \A x : /\ <<"remove", x>> \notin Owable /\ <<"seed", x>> \notin Owable /\ <<"dns", x>> \notin Owable
             /\ <<"sysctl", x>> \notin Owable /\ <<"disable", x>> \notin Owable
  BY DEF Owable, Reloads, Reload, ReloadAfter
<1>9. FilesAhead'
  <2>1. \A f \in File : \/ file[f] = Want[d][f]
                        \/ f \in Writes(d, {})
                        \/ f \in Reclaims(d, {})
    BY DEF Writes, Reclaims
  <2>2. \A f \in Reclaims(d, {}) \cap UnitFile : <<"remove", f>> \in own
    BY <1>5 DEF Steps
  <2>3. \A f : <<"remove", f>> \in own => f \in Reclaims(d, {})
    BY <1>5 DEF Steps, ReloadSteps, ServiceSteps, Reload, ReloadAfter
  <2> QED
    BY <1>2, <1>4, <1>5, <1>6, <1>7, <1>8, <2>1, <2>2, <2>3 DEF FilesAhead, ToStage, Reclaims
<1>10. TableAhead'
  BY <1>2, <1>5, <1>6 DEF TableAhead, Steps, Apply
<1>11. SetAhead'
  <2>1. \A a : <<"seed", a>> \in own => a = uplink
    BY DEF Steps, ReloadSteps, ServiceSteps, Reload, ReloadAfter
  <2>2. Seeds(Apply(d, TRUE), TRUE) => <<"seed", uplink>> \in own
    BY <1>5 DEF Steps
  <2>3. <<"nft", None>> \in own <=> Apply(d, TRUE)
    BY <1>5 DEF Steps, ReloadSteps, ServiceSteps, Reload, ReloadAfter
  <2>4. <<"nft", None>> \notin Owable
    BY DEF Owable, Reloads, Reload, ReloadAfter
  <2>5. Seeds(Apply(d, TRUE), TRUE) <=> (IF Apply(d, TRUE) THEN {} ELSE sets) # {uplink} \ {None}
    BY DEF Seeds
  <2>6. CASE Apply(d, TRUE)
    BY <1>2, <1>6, <1>7, <1>8, <2>1, <2>2, <2>3, <2>5, <2>6 DEF SetAhead
  <2>7. CASE ~Apply(d, TRUE)
    BY <1>2, <1>6, <1>7, <1>8, <2>1, <2>2, <2>3, <2>4, <2>5, <2>7 DEF SetAhead
  <2> QED
    BY <2>6, <2>7
<1>12. SwitchAhead'
  <2>1. \A b : <<"sysctl", b>> \in own => b = Forward[d]
    BY DEF Steps, ReloadSteps, ServiceSteps, Reload, ReloadAfter
  <2>2. forwarding # Forward[d] => <<"sysctl", Forward[d]>> \in own
    BY DEF Steps
  <2> QED
    BY <1>2, <1>6, <1>7, <1>8, <2>1, <2>2 DEF SwitchAhead
<1>13. ServicesAhead'
  <2>1. \A s \in Fresh(d) : <<"enableNow", s>> \in own
    BY DEF Steps, ServiceSteps
  <2>2. \A s \in Declared(d) \ Fresh(d) : proc[s] = None => <<"start", s>> \in own
    BY <1>5 DEF Steps, ServiceSteps, Stopped
  <2>3. \A s : <<"disable", s>> \in own => s \notin Declared(d)
    BY DEF Steps, ReloadSteps, ServiceSteps, Reload, ReloadAfter, ToStop
  <2> QED
    BY <1>2, <1>6, <1>7, <1>8, <2>1, <2>2, <2>3 DEF ServicesAhead, Declared
<1>14. RecordAhead'
  <2>1. \A a : <<"dns", a>> \in own => a = uplink
    BY DEF Steps, ReloadSteps, ServiceSteps, Reload, ReloadAfter
  <2>2. RecordDue => <<"dns", uplink>> \in own
    BY DEF Steps
  <2> QED
    BY <1>2, <1>6, <1>7, <1>8, <2>1, <2>2 DEF RecordAhead, RecordDue
<1> QED
  BY <1>2, <1>9, <1>10, <1>11, <1>12, <1>13, <1>14 DEF Ahead

\* Replacing the table empties its set, and the seeding that follows is still to come.
LEMMA NftAhead ==
    ASSUME TypeOK, FilesAhead, TableAhead, SetAhead, SwitchAhead, ServicesAhead, RecordAhead, RunNft
    PROVE  FilesAhead' /\ TableAhead' /\ SetAhead' /\ SwitchAhead' /\ ServicesAhead' /\ RecordAhead'
<1> DEFINE nft == <<"nft", None>>
<1>1. /\ Ran(nft) /\ table' \in Version /\ sets' = {} /\ todo' = todo \ {nft}
      /\ UNCHANGED <<file, proc, forwarding, uplink, written>> /\ nft \in todo
  BY DeclAssumption DEF RunNft, Ran, Due, TypeOK, lineVars
<1>2. nft[1] = "nft" /\ "nft" \notin ServiceVerb
  BY DEF ServiceVerb
<1>3. TableAhead'
  BY <1>1, DeclAssumption DEF TableAhead
<1>4. SetAhead'
  BY <1>1 DEF SetAhead
<1> QED
  BY <1>1, <1>2, <1>3, <1>4, RanAhead

\* The set is seeded once the table is in, with the address the uplink still has.
LEMMA SeedAhead ==
    ASSUME TypeOK, FilesAhead, TableAhead, SetAhead, SwitchAhead, ServicesAhead, RecordAhead,
           NEW st \in {"seed"} \X (Address \cup {None}), RunSeed(st)
    PROVE  FilesAhead' /\ TableAhead' /\ SetAhead' /\ SwitchAhead' /\ ServicesAhead' /\ RecordAhead'
<1>1. /\ Ran(st) /\ Due(st) /\ sets' = {st[2]} \ {None} /\ todo' = todo \ {st}
      /\ UNCHANGED <<file, proc, table, forwarding, uplink, written>> /\ st \in todo
      /\ st = <<"seed", st[2]>> /\ st[2] \in Address \cup {None}
  BY DEF RunSeed, Ran, Due, lineVars
<1>2. st[1] = "seed" /\ "seed" \notin ServiceVerb
  BY DEF ServiceVerb
<1>3. <<"nft", None>> \notin todo
  <2>1. Stage(<<"nft", None>>) = 1 /\ Stage(st) = 1
    <3>1. Stage(<<"nft", None>>) = 1
      BY DEF Stage, ServiceVerb
    <3>2. Stage(st) = 1
      BY <1>2 DEF Stage, ServiceVerb
    <3> QED
      BY <3>1, <3>2
  <2>2. Within(<<"nft", None>>) = 0 /\ Within(st) = 1
    BY <1>2, <2>1 DEF Within
  <2> QED
    BY <1>1, <2>1, <2>2 DEF Due, Before
<1>4. st[2] = uplink
  BY <1>1 DEF SetAhead
<1>5. SetAhead'
  BY <1>1, <1>3, <1>4 DEF SetAhead
<1> QED
  BY <1>1, <1>2, <1>5, RanAhead

\* A service step starts what it is for, and stops nothing that is declared.
LEMMA ServiceAhead ==
    ASSUME TypeOK, FilesAhead, TableAhead, SetAhead, SwitchAhead, ServicesAhead, RecordAhead,
           NEW st \in ServiceVerb \X Service, RunService(st)
    PROVE  FilesAhead' /\ TableAhead' /\ SetAhead' /\ SwitchAhead' /\ ServicesAhead' /\ RecordAhead'
<1> DEFINE starts == st[1] = "restart" \/ (st[1] \in {"start", "enableNow"} /\ proc[st[2]] = None)
<1>1. /\ Ran(st) /\ st \in todo /\ todo' = todo \ {st} /\ target' = target
      /\ UNCHANGED <<file, table, forwarding, sets, uplink, written>>
      /\ st = <<st[1], st[2]>> /\ st[2] \in Service /\ st[1] \in ServiceVerb
  BY DEF RunService, Ran, Due, lineVars
<1>2. st[1] \notin {"remove", "nft", "seed", "sysctl", "dns"}
  BY <1>1 DEF ServiceVerb
<1>3. proc' = [proc EXCEPT ![st[2]] = IF starts THEN Reads(st[2]) ELSE IF st[1] = "disable" THEN None ELSE @]
  BY DEF RunService
<1>4. Reads(st[2]) # None
  <2>1. Inputs[st[2]] \in SUBSET File
    BY <1>1, ServiceAssumption
  <2>2. Reads(st[2]) \in [Inputs[st[2]] -> Version \cup {None}]
    BY <2>1 DEF Reads, TypeOK, Content
  <2> QED
    BY <2>1, <2>2, DeclAssumption
<1>5. ASSUME NEW s \in Declared(target)
      PROVE  /\ proc'[s] # None \/ <<"enableNow", s>> \in todo' \/ <<"start", s>> \in todo'
             /\ <<"disable", s>> \notin todo'
  <2>1. /\ proc[s] # None \/ <<"enableNow", s>> \in todo \/ <<"start", s>> \in todo
        /\ <<"disable", s>> \notin todo /\ s \in Service
    BY <1>5 DEF ServicesAhead, Declared
  <2>2. CASE s # st[2]
    <3>1. proc'[s] = proc[s]
      BY <1>3, <2>1, <2>2 DEF TypeOK
    <3> QED
      BY <1>1, <2>1, <2>2, <3>1
  <2>3. CASE s = st[2]
    <3>1. st[1] # "disable"
      BY <1>1, <2>1, <2>3
    <3>2. proc'[s] = IF starts THEN Reads(s) ELSE proc[s]
      BY <1>3, <2>1, <2>3, <3>1 DEF TypeOK
    <3>3. proc'[s] # None \/ (st[1] \notin {"enableNow", "start"} /\ proc[s] = None)
      BY <1>4, <2>3, <3>2
    <3> QED
      BY <1>1, <2>1, <2>3, <3>3
  <2> QED
    BY <2>2, <2>3
<1>6. ServicesAhead'
  BY <1>1, <1>5 DEF ServicesAhead, Declared
<1> QED
  BY <1>1, <1>2, <1>6, RanAhead

\* A step that ran leaves the turn as far ahead as before.
LEMMA CommitAhead ==
    ASSUME TypeOK, FilesAhead, TableAhead, SetAhead, SwitchAhead, ServicesAhead, RecordAhead,
           Commit, OnCourse'
    PROVE  Ahead'
<1> DEFINE All == FilesAhead /\ TableAhead /\ SetAhead /\ SwitchAhead /\ ServicesAhead /\ RecordAhead
<1> USE DEF hostVars, lineVars, linkVars
<1>1. ASSUME NEW st, Ran(st), All' PROVE Ahead'
  BY <1>1 DEF Ran, Ahead
<1>2. CASE RunNft
  BY <1>1, <1>2, NftAhead DEF RunNft
<1>3. ASSUME NEW st \in {"seed"} \X (Address \cup {None}), RunSeed(st) PROVE Ahead'
  BY <1>1, <1>3, SeedAhead DEF RunSeed
<1>4. ASSUME NEW st \in {"sysctl"} \X BOOLEAN, RunSysctl(st) PROVE Ahead'
  <2>1. /\ Ran(st) /\ st \in todo /\ todo' = todo \ {st} /\ target' = target /\ forwarding' = st[2]
        /\ UNCHANGED <<file, proc, table, sets, uplink, written>>
        /\ st = <<"sysctl", st[2]>> /\ st[2] \in BOOLEAN
    BY <1>4 DEF RunSysctl, Ran, Due
  <2>2. st[1] = "sysctl" /\ "sysctl" \notin ServiceVerb
    BY <2>1 DEF ServiceVerb
  <2>3. st[2] = Forward[target]
    BY <2>1 DEF SwitchAhead
  <2>4. SwitchAhead'
    BY <2>1, <2>3 DEF SwitchAhead
  <2> QED
    BY <1>1, <2>1, <2>2, <2>4, RanAhead
<1>5. ASSUME NEW st \in {"dns"} \X Address, RunDNS(st) PROVE Ahead'
  <2>1. /\ Ran(st) /\ st \in todo /\ todo' = todo \ {st} /\ written' = st[2]
        /\ UNCHANGED <<file, proc, table, forwarding, sets, uplink>>
        /\ st = <<"dns", st[2]>> /\ st[2] \in Address
    BY <1>5 DEF RunDNS, Ran, Due
  <2>2. st[1] = "dns" /\ "dns" \notin ServiceVerb
    BY <2>1 DEF ServiceVerb
  <2>3. st[2] = uplink
    BY <2>1 DEF RecordAhead
  <2>4. RecordAhead'
    BY <2>1, <2>3 DEF RecordAhead, RecordDue
  <2> QED
    BY <1>1, <2>1, <2>2, <2>4, RanAhead
<1>6. ASSUME NEW st \in {"dns"} \X Address, DNSFails(st) PROVE Ahead'
  BY <1>6 DEF DNSFails, OnCourse, StateOf
<1>7. ASSUME NEW st, RunTrigger(st) \/ RunReload(st), st \in Owable PROVE Ahead'
  <2>1. Ran(st) /\ UNCHANGED <<file, proc, table, forwarding, sets, uplink, written>>
    BY <1>7 DEF RunTrigger, RunReload
  <2>2. st[1] \notin {"remove", "nft", "seed", "sysctl", "dns"} \cup ServiceVerb
    BY <1>7 DEF Owable, Reloads, Reload, ReloadAfter, ServiceVerb
  <2> QED
    BY <1>1, <2>1, <2>2, RanAhead
<1>8. ASSUME NEW st \in ServiceVerb \X Service, RunService(st) PROVE Ahead'
  BY <1>1, <1>8, ServiceAhead DEF RunService
<1>9. ASSUME NEW st \in {"remove"} \X UnitFile, RunRemove(st) PROVE Ahead'
  <2>1. /\ Ran(st) /\ st \in todo /\ todo' = todo \ {st} /\ file' = [file EXCEPT ![st[2]] = None]
        /\ UNCHANGED <<proc, table, forwarding, sets, uplink, written, target>> /\ pc = "commit"
        /\ st = <<"remove", st[2]>> /\ st[2] \in File
    BY <1>9, FileAssumption DEF RunRemove, Ran, Due
  <2>2. st[1] = "remove" /\ "remove" \notin ServiceVerb
    BY <2>1 DEF ServiceVerb
  <2>3. Want[target][st[2]] = None
    BY <2>1 DEF FilesAhead
  <2>4. FilesAhead'
    BY <2>1, <2>3 DEF FilesAhead, TypeOK
  <2> QED
    BY <1>1, <2>1, <2>2, <2>4, RanAhead
<1>10. ASSUME NEW st \in Step, StepFails(st) PROVE Ahead'
  BY <1>10 DEF StepFails, OnCourse, StateOf
<1>11. CASE RecordRuleset
  BY <1>11 DEF RecordRuleset, memory, Ahead, FilesAhead, TableAhead, SetAhead, SwitchAhead, ServicesAhead,
               RecordAhead, RecordDue, Declared
<1> QED
  BY <1>2, <1>3, <1>4, <1>5, <1>6, <1>7, <1>8, <1>9, <1>10, <1>11 DEF Commit, Owable

\* Every step leaves a turn on its course with the rest of its work still ahead.
LEMMA StepAhead ==
    ASSUME TypeOK, Ahead, Next
    PROVE  Ahead'
<1> USE DEF hostVars, stateVars, memory, turnVars, lineVars, linkVars
<1>1. ASSUME pc' = "idle" \/ touched' \/ failed' # "no" PROVE Ahead'
  BY <1>1 DEF Ahead, OnCourse, StateOf
<1>2. ASSUME UNCHANGED <<file, proc, table, forwarding, sets, uplink, written>>,
             UNCHANGED <<pc, kind, target, plan, todo, failing, failed, touched>>
      PROVE  Ahead'
  BY <1>2 DEF Ahead, OnCourse, StateOf, FilesAhead, ToStage, TableAhead, SetAhead, SwitchAhead,
              ServicesAhead, RecordAhead, RecordDue, Declared
<1>3. ASSUME UNCHANGED <<proc, table, forwarding, sets, uplink, written>>,
             UNCHANGED <<kind, target, todo, failing, failed, touched>>,
             pc # "idle", plan'.waiting = plan.waiting,
             FilesAhead => FilesAhead', pc' \in {"settle", "report"} => todo = {}
      PROVE  Ahead'
  BY <1>3 DEF Ahead, OnCourse, StateOf, TableAhead, SetAhead, SwitchAhead,
              ServicesAhead, RecordAhead, RecordDue, Declared
<1>4. CASE Asked
  <2>1. ASSUME NEW k, NEW d \in Decl, NEW tries, NEW left, Planned(k, d, tries, left) PROVE Ahead'
    BY <2>1, PlannedAhead
  <2>2. CASE NotPlanned \/ Confirm
    BY <1>2, <2>2 DEF NotPlanned, Confirm
  <2>3. record # None => record \in Decl
    BY DEF TypeOK
  <2>4. trial # None => trial \in Decl
    BY DEF TypeOK
  <2> QED
    BY <1>4, <2>1, <2>2, <2>3, <2>4 DEF Asked, Submit, SubmitTrial, Revert, Loop
<1>5. CASE Commit
  <2>1. pc = "commit"
    BY <1>5 DEF Commit, RunNft, RunSeed, RunSysctl, RunDNS, DNSFails, RunTrigger, RunReload, RunService,
                RunRemove, StepFails, RecordRuleset, Ran
  <2>2. pc' \in {"commit", "settle"} /\ (OnCourse' => OnCourse)
    BY <1>5, <2>1 DEF Commit, RunNft, RunSeed, RunSysctl, RunDNS, DNSFails, RunTrigger, RunReload,
                      RunService, RunRemove, StepFails, RecordRuleset, Ran, OnCourse, StateOf
  <2> QED
    BY <1>5, <2>2, CommitAhead DEF Ahead
<1>6. CASE StageFiles
  <2>1. /\ plan'.waiting = plan.waiting /\ pc = "stage" /\ pc' \in {"accept", "commit"}
        /\ file' = Staged(ToStage)
    BY <1>6 DEF StageFiles, TypeOK, PlanType
  <2>2. FilesAhead => FilesAhead'
    BY <1>6, <2>1 DEF StageFiles, FilesAhead, Staged
  <2> QED
    BY <1>3, <1>6, <2>1, <2>2 DEF StageFiles
<1>7. CASE StageFails \/ AcceptFails \/ ReportTurn
  BY <1>1, <1>7 DEF StageFails, AcceptFails, ReportTurn, NoTurn
<1>8. CASE Accept
  <2>1. FilesAhead => FilesAhead'
    BY <1>8 DEF Accept, FilesAhead
  <2> QED
    BY <1>3, <1>8, <2>1 DEF Accept
<1>9. CASE SettleOwed
  <2>1. FilesAhead => FilesAhead'
    BY <1>9 DEF SettleOwed, FilesAhead
  <2>2. OnCourse' => todo = {}
    BY <1>9 DEF SettleOwed, Ahead, OnCourse, StateOf
  <2>3. ASSUME ~OnCourse' PROVE Ahead'
    BY <2>3 DEF Ahead
  <2> QED
    BY <1>3, <1>9, <2>1, <2>2, <2>3 DEF SettleOwed
<1>10. CASE Environment
  <2>1. CASE Crash \/ Reboot
    BY <1>1, <2>1 DEF Crash, Reboot, NoTurn
  <2>2. CASE Flush \/ HookRuns \/ (\E s \in Service : ProcessDies(s)) \/ \E a : Line(a)
    BY <1>1, <2>2 DEF Flush, HookRuns, ProcessDies, Line
  <2>3. CASE \E f \in LinkFile : LinkAppears(f) \/ LinkGone(f)
    BY <1>2, <2>3 DEF LinkAppears, LinkGone
  <2> QED
    BY <1>10, <2>1, <2>2, <2>3 DEF Environment
<1> QED
  BY <1>4, <1>5, <1>6, <1>7, <1>8, <1>9, <1>10 DEF Next, Run

\* With nothing left to do, the next comparison asks for nothing either, but for the table
\* whose text could not be remembered.
LEMMA NothingAhead ==
    ASSUME TypeOK, Ahead, OnCourse, pc = "report"
    PROVE  /\ Writes(target, {}) \cup Reclaims(target, {}) = {}
           /\ \A st \in Steps(target, {}, [nft |-> TRUE, units |-> TRUE]) :
                  applied # Ruleset[target] /\ st[1] \in {"nft", "seed"}
<1> DEFINE u == [nft |-> TRUE, units |-> TRUE]
<1>1. /\ FilesAhead /\ TableAhead /\ SetAhead /\ SwitchAhead /\ ServicesAhead /\ RecordAhead
      /\ todo = {}
  BY DEF Ahead
<1>2. \A f \in File : file[f] = Want[target][f]
  BY <1>1 DEF FilesAhead
<1>3. Writes(target, {}) = {} /\ Reclaims(target, {}) = {}
  BY <1>2 DEF Writes, Reclaims
<1>4. ReloadSteps(target, {}) = {}
  BY <1>3 DEF ReloadSteps
<1>5. ServiceSteps(target, {}, TRUE) = {}
  <2>1. ToStop(target, {}) = {}
    BY <1>3 DEF ToStop
  <2>2. Fresh(target) = {}
    <3>1. ASSUME NEW s \in Declared(target) PROVE \E f \in Inputs[s] : file[f] # None
      <4>1. s \in Service /\ \A f \in Inputs[s] : Want[target][f] # None
        BY <3>1 DEF Declared
      <4>2. Inputs[s] \in SUBSET (File \ ReadFile) /\ Inputs[s] # {}
        BY <4>1, ServiceAssumption
      <4> QED
        BY <1>2, <4>1, <4>2
    <3> QED
      BY <3>1 DEF Fresh
  <2>3. Stopped(target, TRUE) = {}
    BY <1>1 DEF Stopped, ServicesAhead
  <2>4. PutBack(target, {}, TRUE) = {} /\ Rewritten(target, {}, TRUE) = {}
    BY <1>3 DEF PutBack, Rewritten
  <2> QED
    BY <2>1, <2>2, <2>3, <2>4 DEF ServiceSteps
<1>6. forwarding = Forward[target] /\ ~RecordDue /\ table # None /\ sets = {uplink} \ {None}
  BY <1>1 DEF SwitchAhead, RecordAhead, TableAhead, SetAhead
<1>7. Apply(target, TRUE) <=> Ruleset[target] # applied
  BY <1>6 DEF Apply
<1>8. Seeds(Apply(target, TRUE), TRUE) => Ruleset[target] # applied
  BY <1>6, <1>7 DEF Seeds
<1>9. ASSUME NEW st \in Steps(target, {}, u) PROVE applied # Ruleset[target] /\ st[1] \in {"nft", "seed"}
  <2>1. u.nft = TRUE /\ u.units = TRUE
    OBVIOUS
  <2>2. Steps(target, {}, u) =
            {s \in {<<"nft", None>>} : Apply(target, TRUE)}
                \cup {s \in {<<"seed", uplink>>} : Seeds(Apply(target, TRUE), TRUE)}
    BY <1>3, <1>4, <1>5, <1>6, <2>1 DEF Steps
  <2>3. \/ st = <<"nft", None>> /\ Apply(target, TRUE)
        \/ st = <<"seed", uplink>> /\ Seeds(Apply(target, TRUE), TRUE)
    BY <1>9, <2>2
  <2>4. applied # Ruleset[target]
    BY <1>7, <1>8, <2>3, Zenon
  <2>5. st = <<"nft", None>> \/ st = <<"seed", uplink>>
    BY <2>3, Zenon
  <2> QED
    BY <2>4, <2>5
<1> QED
  BY <1>3, <1>9

\* ADR 0004: a turn an operator asked for that reports converged has brought the whole host
\* to the declaration.  The comparison the next turn makes finds no file to write or take
\* away and no step to run, unless something other than the turn has changed the host since
\* its plan was made; only a ruleset whose text could not be remembered is installed again.
THEOREM NothingLeftToDo == Spec => []QuietAfterAttended
<1>1. Init => TypeOK /\ Ahead
  <2>1. Init => Ahead
    BY DEF Init, Ahead, OnCourse
  <2> QED
    BY <2>1, InitType
<1>2. TypeOK /\ Ahead /\ [Next]_vars => TypeOK' /\ Ahead'
  <2>1. ASSUME Ahead, UNCHANGED vars PROVE Ahead'
    BY <2>1 DEF vars, hostVars, stateVars, memory, turnVars, lineVars, linkVars, Ahead, OnCourse, StateOf,
                FilesAhead, ToStage, TableAhead, SetAhead, SwitchAhead, ServicesAhead, RecordAhead,
                RecordDue, Declared
  <2> QED
    BY <2>1, StepType, StepAhead
<1>3. TypeOK /\ Ahead => QuietAfterAttended
  BY NothingAhead DEF QuietAfterAttended, OnCourse
<1> QED
  BY <1>1, <1>2, <1>3, PTL DEF Spec
=============================================================================
