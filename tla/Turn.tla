-------------------------------- MODULE Turn --------------------------------
(***************************************************************************)
(* One host and the engine that converges it (internal/apply).             *)
(*                                                                         *)
(* A turn reads the host, renders a declaration, compares, stages files,   *)
(* (for a submission) writes the accepted record, runs its steps in the    *)
(* order of the phases, remembers the ruleset it installed, settles what   *)
(* it leaves owed and reports.  Turns run one at a time; between any two   *)
(* steps of a turn the process may die, the host may reboot and another    *)
(* actor may change the host.                                              *)
(***************************************************************************)
EXTENDS Integers, FiniteSets

CONSTANTS
    Decl,       \* the declarations that validate
    Version,    \* contents a file or a ruleset may have
    None,       \* no file, no table, no process, no record, no trial
    File,       \* every path regied owns
    NetFile,    \* .network and .netdev files, read by systemd-networkd
    LinkFile,   \* .link files, read by udev
    UnitFile,   \* systemd units, read by the service manager
    PathRank,   \* the order of the paths, which is the order of staging
    Service,    \* the PPPoE sessions, and dnsmasq
    Dnsmasq,    \* the services considered by every plan: at most dnsmasq
    Inputs,     \* the files a service reads when it starts
    UnitOf,     \* the unit a service runs from
    Place,      \* the order of the services: sessions by name, dnsmasq last
    Want,       \* what a declaration renders to: a content for each file
    Ruleset,    \* the ruleset text it renders to
    Forward,    \* whether it enables forwarding
    Derived,    \* the files rendered from a value only the host knows
    Levels,     \* attempts after which the backoff grows no further
    Delay,      \* how long each attempt holds the next one back
    Address,    \* the addresses the uplink may be given
    Records,    \* whether the declarations ask for a DNS record that follows the uplink
    ProbeFaults,\* whether nft and systemctl may fail to answer a question
    Causes      \* what may ask for a turn, or happen beside one, in this instance

Daemon == {"networkd", "udev", "manager"}
ReadFile == NetFile \cup LinkFile \cup UnitFile

ASSUME FileAssumption ==
    /\ NetFile \subseteq File /\ LinkFile \subseteq File /\ UnitFile \subseteq File
    /\ NetFile \cap LinkFile = {} /\ NetFile \cap UnitFile = {} /\ LinkFile \cap UnitFile = {}
    /\ Derived \subseteq NetFile
    /\ PathRank \in [File -> Nat]

ASSUME ServiceAssumption ==
    /\ Dnsmasq \subseteq Service
    /\ Inputs \in [Service -> (SUBSET (File \ ReadFile)) \ {{}}]
    /\ UnitOf \in [Service -> UnitFile]
    /\ Place \in [Service -> Nat]

ASSUME DeclAssumption ==
    /\ None \notin Decl /\ None \notin Version
    /\ \A I \in SUBSET File : None \notin [I -> Version \cup {None}]
    /\ Want \in [Decl -> [File -> Version \cup {None}]]
    /\ Ruleset \in [Decl -> Version]
    /\ Forward \in [Decl -> BOOLEAN]

ASSUME BackoffAssumption ==
    /\ Levels \in Nat \ {0}
    /\ Delay \in [1..Levels -> Nat \ {0}]

ASSUME CauseAssumption ==
    /\ ProbeFaults \in BOOLEAN /\ Records \in BOOLEAN
    /\ None \notin Address
    /\ Causes \subseteq {"submit", "trial", "revert", "loop", "reboot", "crash", "drift", "disk",
                       "line", "link"}

VARIABLES
    \* the host
    file,       \* what each path holds
    loaded,     \* what the daemon that reads a path last read there
    proc,       \* what each service read when it started, or None
    enabled,    \* the services systemd starts at boot
    table,      \* the ruleset in the kernel, or None
    forwarding, \* the kernel's forwarding switch
    uplink,     \* the address the uplink's link holds, or None
    sets,       \* what the uplink's set in the table holds
    hook,       \* what pppd's hook has still to do to that set, or None
    present,    \* the .link files whose link is on the host
    tuned,      \* what a link that is on the host was last set to
    \* the state directory
    record,     \* accepted/declaration.yaml
    applied,    \* applied/ruleset.nft
    owed,       \* turn/owed.yaml
    \* the process
    trial,      \* the declaration under trial
    attempts,   \* how often each command was tried, up to Levels
    wait,       \* how long until its next attempt
    retryRevision,
    written,    \* the address this process last put at the DNS provider
    \* the turn being run
    pc, kind, target, plan, todo, ran, failing, failed,
    \* history
    lost,       \* a turn died, or could not write down what it owed, since the last boot
    touched     \* something other than a turn changed the host since the plan was made

lineVars == <<uplink, hook>>
linkVars == <<present, tuned>>
hostVars == <<file, loaded, proc, enabled, table, forwarding, sets, lineVars, linkVars>>
stateVars == <<record, applied, owed>>
retryVars == <<attempts, wait>>
memory == <<trial, retryVars, retryRevision, written>>
turnVars == <<pc, kind, target, plan, todo, ran, failing, failed>>
vars == <<hostVars, stateVars, memory, turnVars, lost, touched>>

Content == Version \cup {None}
-----------------------------------------------------------------------------
(***************************************************************************)
(* Steps.  A step is a verb and what it acts on, so a plan's steps are a   *)
(* set; the order they run in is Before.                                   *)
(***************************************************************************)
Reload(x) == <<"reload", x>>
ReloadAfter == <<"reloadAfter", "manager">>
Reloads == {Reload(x) : x \in Daemon} \cup {ReloadAfter}

\* What a turn may leave owed: the steps that make a written file take effect.
Owable == Reloads \cup ({"trigger"} \X LinkFile)

ServiceVerb == {"disable", "enableNow", "start", "enable", "restart"}

Step ==
    Owable \cup (ServiceVerb \X Service) \cup ({"remove"} \X UnitFile)
           \cup {<<"nft", None>>} \cup ({"sysctl"} \X BOOLEAN)
           \cup ({"seed"} \X (Address \cup {None})) \cup ({"dns"} \X Address)

\* Where a step comes in the phase order; the units a turn reclaims, and the
\* reload after them, come last in the phase of the processes.
Stage(st) ==
    CASE st[1] \in {"nft", "seed"} -> 1
      [] st[1] = "sysctl" -> 2
      [] st[1] = "trigger" -> 3
      [] st[1] = "reload" /\ st[2] # "manager" -> 3
      [] st[1] = "reload" /\ st[2] = "manager" -> 4
      [] st[1] \in ServiceVerb -> 5
      [] st[1] = "remove" -> 6
      [] st[1] = "reloadAfter" -> 7
      [] OTHER -> 8

\* A slip: the links get their events before udev reads its files.
WithinEventsFirst(st) ==
    CASE st[1] = "seed" -> 1
      [] Stage(st) = 3 -> IF st[1] = "trigger" THEN 0 ELSE 1
      [] Stage(st) = 5 -> 2 * Place[st[2]] + (IF st[1] = "enable" THEN 0 ELSE 1)
      [] OTHER -> 0

\* Among steps of one stage: the table before its set; networkd, then udev, then the links,
\* and what an earlier turn left owed after what this plan asks for; services in their
\* order, enabling first.
Within(st) ==
    CASE st[1] = "seed" -> 1
      [] Stage(st) = 3 -> (CASE st[1] = "trigger" -> 2 [] st = Reload("udev") -> 1 [] OTHER -> 0)
                              + (IF st \in plan.carried THEN 3 ELSE 0)
      [] Stage(st) = 5 -> 2 * Place[st[2]] + (IF st[1] = "enable" THEN 0 ELSE 1)
      [] OTHER -> 0

\* A slip: the phases are not looked at.
PlaceOnly(a, b) == Within(a) < Within(b)

Before(a, b) == Stage(a) < Stage(b) \/ (Stage(a) = Stage(b) /\ Within(a) < Within(b))

Due(st) == st \in todo /\ \A other \in todo : ~Before(other, st)

\* The daemon that reads a path when it is told to.
ReaderOf(f) == IF f \in NetFile THEN "networkd" ELSE IF f \in LinkFile THEN "udev" ELSE "manager"

\* What a service that starts now reads.
Reads(s) == [f \in Inputs[s] |-> file[f]]

\* What the backoff counts attempts of: the command, whatever phase it is in.
KeyOf(st) == IF st = ReloadAfter THEN Reload("manager") ELSE st

-----------------------------------------------------------------------------
(***************************************************************************)
(* The plan: the difference between what d renders to and what the host    *)
(* holds.  W is the set of files withheld for want of a runtime value.     *)
(***************************************************************************)
Writes(d, W) == {f \in File \ W : Want[d][f] # None /\ Want[d][f] # file[f]}

Reclaims(d, W) == {f \in File \ W : Want[d][f] = None /\ file[f] # None}

Declared(d) == {s \in Service : \A f \in Inputs[s] : Want[d][f] # None}

\* A slip: the kernel is not asked for the table.
ApplyByText(d, answered) == Ruleset[d] # applied

\* The table is replaced when the kernel says it is not there, or when the text is
\* not the one remembered as installed.  No answer is taken as "there".
Apply(d, answered) == (answered /\ table = None) \/ Ruleset[d] # applied

\* No longer declared, with something of it left to reclaim.
ToStop(d, W) ==
    {s \in Service \ Declared(d) :
        \/ Inputs[s] \cap Reclaims(d, W) # {}
        \/ s \in Dnsmasq /\ UnitOf[s] \in Reclaims(d, W)}

\* Declared, with none of the files it reads on the host yet.
Fresh(d) == {s \in Declared(d) : \A f \in Inputs[s] : file[f] = None}

\* Declared, and systemd says it is not running.
Stopped(d, answered) == {s \in Declared(d) \ Fresh(d) : answered /\ proc[s] = None}

\* Declared and left running, with its unit put back.
PutBack(d, W, answered) ==
    {s \in Declared(d) \ (Fresh(d) \cup Stopped(d, answered)) :
        UnitOf[s] \in Writes(d, W) /\ file[UnitOf[s]] = None}

\* Declared and left running, with something it reads written.
Rewritten(d, W, answered) ==
    {s \in Declared(d) \ (Fresh(d) \cup Stopped(d, answered)) :
        ({UnitOf[s]} \cup Inputs[s]) \cap Writes(d, W) # {}}

ServiceSteps(d, W, answered) ==
    {<<"disable", s>> : s \in ToStop(d, W)}
        \cup {<<"enableNow", s>> : s \in Fresh(d)}
        \cup {<<"start", s>> : s \in Stopped(d, answered)}
        \cup {<<"enable", s>> : s \in PutBack(d, W, answered)}
        \cup {<<"restart", s>> : s \in Rewritten(d, W, answered)}

\* What makes the files the plan changes take effect.
ReloadSteps(d, W) ==
    {Reload(ReaderOf(f)) : f \in (Writes(d, W) \cup Reclaims(d, W)) \cap (NetFile \cup LinkFile)}
        \cup {Reload("manager") : f \in Writes(d, W) \cap UnitFile}
        \cup {ReloadAfter : f \in Reclaims(d, W) \cap UnitFile}

\* A slip: the set is written only with a new table.
SeedsWithTable(apply, answered) == apply /\ uplink # None

\* The uplink's set is written when it does not hold what the link holds.  A table about to
\* be replaced will hold nothing; a set that cannot be read is left alone.
Seeds(apply, answered) ==
    LET holds == IF apply THEN {} ELSE sets
    IN (apply \/ answered) /\ holds # {uplink} \ {None}

\* A record is written when this process has not written that address yet.
RecordDue == Records /\ uplink # None /\ written # uplink

\* What the comparison asks for.
Steps(d, W, u) ==
    {st \in {<<"nft", None>>} : Apply(d, u.nft)}
        \cup {st \in {<<"seed", uplink>>} : Seeds(Apply(d, u.nft), u.nft)}
        \cup {st \in {<<"sysctl", Forward[d]>>} : forwarding # Forward[d]}
        \cup ReloadSteps(d, W)
        \cup {<<"trigger", f>> : f \in Writes(d, W) \cap LinkFile \cap present}
        \cup ServiceSteps(d, W, u.units)
        \cup {<<"remove", f>> : f \in Reclaims(d, W) \cap UnitFile}
        \cup {st \in {<<"dns", uplink>>} : RecordDue}

\* A slip: an unattended turn may take units away.
ForbiddenButRemove(st) == st[1] \in {"restart", "disable"}

\* What an unattended turn may not do.
Forbidden(st) == st[1] \in {"restart", "disable", "remove"}

\* An unattended turn keeps the steps that are allowed and not held back.  A step
\* kept holds back a later one with the same command.
Kept(steps, left) ==
    {st \in steps : /\ ~Forbidden(st)
                    /\ left[KeyOf(st)] = 0
                    /\ ~(st = ReloadAfter /\ Reload("manager") \in steps)}

Keys(steps) == {KeyOf(st) : st \in steps}

NoRetries == [key \in Step |-> 0]

\* How often a command was tried once this turn's attempts are counted.  A command the
\* comparison no longer asks for is forgotten.
Tries(steps, kept, tries) ==
    LET tried == Keys(kept)
        asked == Keys({st \in steps : ~Forbidden(st)})
    IN [key \in Step |->
           IF key \in tried THEN (IF tries[key] < Levels THEN tries[key] + 1 ELSE Levels)
           ELSE IF key \in asked THEN tries[key] ELSE 0]

Attended(k) == k # "loop"

\* A slip: what was owed is not read.
CarriedNothing(read, own) == {}

\* What an earlier turn left owed, but for a link that has gone.
Carried(read, own) == {st \in read \ own : st[1] = "trigger" => st[2] \in present}

\* What the host answers when a plan is made: which files wait for a value, whether nft and
\* systemctl answered, and what could be read of the steps left owed.
Unknowns ==
    [withheld : {{}, Derived}, nft : {TRUE, ~ProbeFaults}, units : {TRUE, ~ProbeFaults},
     owed : {owed} \cup {{} : c \in Causes \cap {"disk"}}]

\* Make the plan of a turn of kind k toward d, and start on it.  tries and left are how
\* often each command was tried before it and how long it is still held back.
Plan(k, d, u, tries, left) ==
    LET W == u.withheld \cap {f \in File : Want[d][f] # None}
        own == Steps(d, W, u)
        carried == Carried(u.owed, own)
        steps == own \cup carried
        kept == Kept(steps, left)
        tried == Keys(kept)
    IN /\ kind' = k
       /\ target' = d
       /\ plan' = [write   |-> Writes(d, W),
                   reclaim |-> IF Attended(k) THEN Reclaims(d, W) \ UnitFile ELSE {},
                   apply   |-> Apply(d, u.nft),
                   owed    |-> steps \cap Owable,
                   carried |-> carried,
                   waiting |-> W # {} \/ (Records /\ uplink = None)]
       /\ todo' = IF Attended(k) THEN steps ELSE kept
       /\ attempts' = IF Attended(k) THEN tries ELSE Tries(steps, kept, tries)
       /\ wait' = IF Attended(k) THEN left
                  ELSE [key \in Step |-> IF key \in tried THEN Delay[attempts'[key]]
                                         ELSE IF attempts'[key] = 0 THEN 0 ELSE left[key]]
       /\ failing' = (~Attended(k) /\ kept # steps)
       /\ ran' = {}
       /\ failed' = "no"
       /\ touched' = FALSE
       /\ lost' = (lost \/ u.owed # owed)
       /\ pc' = "stage"
       /\ UNCHANGED <<hostVars, stateVars, written>>
-----------------------------------------------------------------------------
(***************************************************************************)
(* What asks for a turn.  A plan that cannot be made (a credential or the  *)
(* host that cannot be read, a ruleset nft --check refuses) ends the turn  *)
(* before anything is touched.                                             *)
(***************************************************************************)
NoPlan == [write |-> {}, reclaim |-> {}, apply |-> FALSE, owed |-> {}, carried |-> {}, waiting |-> FALSE]

NoTurn ==
    /\ pc' = "idle" /\ kind' = "none" /\ target' = None /\ plan' = NoPlan
    /\ todo' = {} /\ ran' = {} /\ failing' = FALSE /\ failed' = "no"

\* A plan that could not be made: nothing is touched.
NotPlanned == UNCHANGED <<hostVars, stateVars, retryVars, retryRevision, written, turnVars, lost, touched>>

Planned(k, d, tries, left) == \E u \in Unknowns : Plan(k, d, u, tries, left)

\* A slip: a submission leaves the trial to its deadline.
SubmitKeepsTrial(d) ==
    /\ pc = "idle" /\ "submit" \in Causes
    /\ Planned("submit", d, NoRetries, NoRetries) /\ retryRevision' = d
    /\ UNCHANGED trial

\* serve: submit ends any trial, whether or not the declaration gets anywhere.
Submit(d) ==
    /\ pc = "idle" /\ "submit" \in Causes
    /\ trial' = None
    /\ \/ Planned("submit", d, NoRetries, NoRetries) /\ retryRevision' = d
       \/ NotPlanned

\* serve: trial holds the declaration in memory and runs a submitted turn toward it.
SubmitTrial(d) ==
    /\ pc = "idle" /\ "trial" \in Causes
    /\ trial' = d
    /\ \/ Planned("trial", d, attempts, wait) /\ UNCHANGED retryRevision
       \/ NotPlanned

\* serve: confirm writes the trial to the record and runs no turn.
Confirm ==
    /\ pc = "idle" /\ trial # None
    /\ record' = trial
    /\ trial' = None
    /\ UNCHANGED <<hostVars, applied, owed, retryVars, retryRevision, written, turnVars, lost, touched>>

\* serve: cancel and expiry drop the trial and run a submitted turn toward the record.
Revert ==
    /\ pc = "idle" /\ trial # None /\ "revert" \in Causes
    /\ trial' = None
    /\ \/ record # None /\ Planned("revert", record, attempts, wait) /\ UNCHANGED retryRevision
       \/ NotPlanned

\* A slip: a delay that is long over goes on running.
LoopOverdue(t) ==
    LET left == [key \in Step |-> wait[key] - t]
    IN /\ pc = "idle" /\ "loop" \in Causes /\ record # None /\ trial = None
       /\ Planned("loop", record, attempts, left)
       /\ UNCHANGED <<retryRevision, trial>>

\* run: a start, a resync tick or an address event.  Toward the trial while there is
\* one, toward the record otherwise; only the latter forgets another revision's backoff.
\* t is how long ago the last one was.  With nothing to converge on, or no plan, the turn
\* changes nothing.
Loop(t) ==
    LET d == IF trial # None THEN trial ELSE record
        fresh == trial = None /\ retryRevision # record
        left == [key \in Step |-> IF wait[key] > t THEN wait[key] - t ELSE 0]
    IN /\ pc = "idle" /\ "loop" \in Causes /\ d # None
       /\ Planned("loop", d, IF fresh THEN NoRetries ELSE attempts, IF fresh THEN NoRetries ELSE left)
       /\ retryRevision' = IF fresh THEN record ELSE retryRevision
       /\ UNCHANGED trial
-----------------------------------------------------------------------------
(***************************************************************************)
(* The turn itself.                                                        *)
(***************************************************************************)
\* The files of a plan still to be written or reclaimed by staging.
ToStage == plan.write \cup plan.reclaim

Prefix(cut) == \A f \in cut, g \in ToStage : PathRank[g] < PathRank[f] => g \in cut

Staged(cut) == [f \in File |-> IF f \in cut THEN Want[target][f] ELSE file[f]]

\* A slip: a submission runs its commands before it is recorded.
StageFilesUnrecorded ==
    /\ pc = "stage"
    /\ file' = Staged(ToStage)
    /\ plan' = [plan EXCEPT !.write = {}, !.reclaim = {}]
    /\ pc' = "commit"
    /\ UNCHANGED <<loaded, proc, enabled, table, forwarding, sets, lineVars, linkVars>>
    /\ UNCHANGED <<stateVars, memory, kind, target, todo, ran, failing, failed, lost, touched>>

\* stage writes every file and takes away what is reclaimed.
StageFiles ==
    /\ pc = "stage"
    /\ file' = Staged(ToStage)
    /\ plan' = [plan EXCEPT !.write = {}, !.reclaim = {}]
    /\ pc' = IF kind = "submit" THEN "accept" ELSE "commit"
    /\ UNCHANGED <<loaded, proc, enabled, table, forwarding, sets, lineVars, linkVars>>
    /\ UNCHANGED <<stateVars, memory, kind, target, todo, ran, failing, failed, lost, touched>>

\* A slip: a staging that failed is accepted all the same.
StageFailsAccepted ==
    /\ pc = "stage" /\ "disk" \in Causes /\ ToStage # {}
    /\ record' = target
    /\ failed' = "staging" /\ pc' = "settle" /\ todo' = {}
    /\ UNCHANGED <<hostVars, applied, owed, memory, kind, target, plan, ran, failing, lost, touched>>

\* A write that fails leaves what was staged before it.
StageFails ==
    /\ pc = "stage" /\ "disk" \in Causes
    /\ \E cut \in SUBSET ToStage : cut # ToStage /\ Prefix(cut) /\ file' = Staged(cut)
    /\ failed' = "staging"
    /\ pc' = "settle"
    /\ todo' = {}
    /\ UNCHANGED <<loaded, proc, enabled, table, forwarding, sets, lineVars, linkVars>>
    /\ UNCHANGED <<stateVars, memory, kind, target, plan, ran, failing, lost, touched>>

\* accept: the declaration becomes the record before the first command runs.
Accept ==
    /\ pc = "accept"
    /\ record' = target
    /\ pc' = "commit"
    /\ UNCHANGED <<hostVars, applied, owed, memory, kind, target, plan, todo, ran, failing, failed, lost, touched>>

AcceptFails ==
    /\ pc = "accept" /\ "disk" \in Causes
    /\ failed' = "staging"
    /\ pc' = "settle"
    /\ todo' = {}
    /\ UNCHANGED <<hostVars, stateVars, memory, kind, target, plan, ran, failing, lost, touched>>

\* commit: the next step of the plan ran to success.
Ran(st) ==
    /\ pc = "commit"
    /\ Due(st)
    /\ todo' = todo \ {st}
    /\ ran' = ran \cup {st}
    /\ UNCHANGED <<stateVars, trial, retryVars, retryRevision, pc, kind, target, plan, failing, failed, lost, touched>>

\* Replacing the table empties its set.
RunNft ==
    /\ Ran(<<"nft", None>>)
    /\ table' = Ruleset[target]
    /\ sets' = {}
    /\ UNCHANGED <<file, loaded, proc, enabled, forwarding, lineVars, linkVars, written>>

\* The set is made to hold the address the plan read.
RunSeed(st) ==
    /\ Ran(st)
    /\ table # None
    /\ sets' = {st[2]} \ {None}
    /\ UNCHANGED <<file, loaded, proc, enabled, table, forwarding, lineVars, linkVars, written>>

RunSysctl(st) ==
    /\ Ran(st)
    /\ forwarding' = st[2]
    /\ UNCHANGED <<file, loaded, proc, enabled, table, sets, lineVars, linkVars, written>>

RunReload(st) ==
    /\ Ran(st)
    /\ loaded' = [f \in ReadFile |-> IF ReaderOf(f) = st[2] THEN file[f] ELSE loaded[f]]
    /\ UNCHANGED <<file, proc, enabled, table, forwarding, sets, lineVars, linkVars, written>>

\* udev sets a link to what it has read; a link that has gone cannot be given the event.
RunTrigger(st) ==
    /\ Ran(st)
    /\ st[2] \in present
    /\ tuned' = [tuned EXCEPT ![st[2]] = loaded[st[2]]]
    /\ UNCHANGED <<file, loaded, proc, enabled, table, forwarding, sets, lineVars, present, written>>

\* A slip: a service that is enabled already is not started.
RunServiceOnce(st) ==
    LET s == st[2]
        starts == st[1] = "restart" \/ (st[1] = "enableNow" /\ proc[s] = None)
    IN /\ Ran(st)
       /\ proc' = [proc EXCEPT ![s] = IF starts THEN Reads(s) ELSE IF st[1] = "disable" THEN None ELSE @]
       /\ enabled' = IF st[1] = "disable" THEN enabled \ {s} ELSE enabled \cup {s}
       /\ UNCHANGED <<file, loaded, table, forwarding, sets, lineVars, linkVars, written>>

RunService(st) ==
    LET s == st[2]
        starts == st[1] = "restart" \/ (st[1] \in {"start", "enableNow"} /\ proc[s] = None)
    IN /\ Ran(st)
       /\ proc' = [proc EXCEPT ![s] = IF starts THEN Reads(s) ELSE IF st[1] = "disable" THEN None ELSE @]
       /\ enabled' = CASE st[1] \in {"enableNow", "enable"} -> enabled \cup {s}
                       [] st[1] = "disable" -> enabled \ {s}
                       [] OTHER -> enabled
       /\ UNCHANGED <<file, loaded, table, forwarding, sets, lineVars, linkVars, written>>

RunRemove(st) ==
    /\ Ran(st)
    /\ file' = [file EXCEPT ![st[2]] = None]
    /\ UNCHANGED <<loaded, proc, enabled, table, forwarding, sets, lineVars, linkVars, written>>

RunDNS(st) ==
    /\ Ran(st)
    /\ written' = st[2]
    /\ UNCHANGED hostVars

\* A record the provider refuses is reported and the turn goes on.
DNSFails(st) ==
    /\ pc = "commit" /\ Due(st)
    /\ todo' = todo \ {st}
    /\ failing' = TRUE
    /\ UNCHANGED <<hostVars, stateVars, memory, pc, kind, target, plan, ran, failed, lost, touched>>

\* Any other step that fails stops the turn.  nft and the reloads do nothing when they
\* fail; a service that fails to come back from a restart is down.
StepFails(st) ==
    /\ pc = "commit" /\ Due(st) /\ st[1] # "dns"
    /\ failed' = "commit"
    /\ pc' = "settle"
    /\ proc' \in {proc} \cup {[proc EXCEPT ![s] = None] : s \in {s \in Service : st = <<"restart", s>>}}
    /\ enabled' \in {enabled} \cup {enabled \cup {s} : s \in {s \in Service : st = <<"enableNow", s>>}}
    /\ todo' = {}
    /\ UNCHANGED <<file, loaded, table, forwarding, sets, lineVars, linkVars>>
    /\ UNCHANGED <<stateVars, memory, kind, target, plan, ran, failing, lost, touched>>

\* record: every step ran, so the ruleset of the plan is remembered as installed.
RecordRuleset ==
    /\ pc = "commit" /\ todo = {}
    /\ pc' = "settle"
    /\ \/ applied' = IF plan.apply THEN Ruleset[target] ELSE applied
       \/ applied' = applied /\ "disk" \in Causes
    /\ UNCHANGED <<hostVars, record, owed, memory, kind, target, plan, todo, ran, failing, failed, lost, touched>>

\* A slip: a turn that failed settles nothing.
SettleOnSuccess ==
    /\ pc = "settle"
    /\ pc' = "report"
    /\ owed' = IF failed = "no" THEN plan.owed \ ran ELSE owed
    /\ UNCHANGED <<hostVars, record, applied, memory, kind, target, plan, todo, ran, failing, failed, lost, touched>>

\* settleOwed: every reload of the plan that did not run is written down.
SettleOwed ==
    /\ pc = "settle"
    /\ pc' = "report"
    /\ \/ owed' = plan.owed \ ran /\ UNCHANGED lost
       \/ owed' = owed /\ lost' = TRUE /\ "disk" \in Causes
    /\ UNCHANGED <<hostVars, record, applied, memory, kind, target, plan, todo, ran, failing, failed, touched>>

\* stateOf
StateOf ==
    IF failed # "no" \/ failing THEN "failing" ELSE IF plan.waiting THEN "waiting" ELSE "converged"

\* The turn ends by reporting StateOf, unless it was a submission never accepted.
ReportTurn ==
    /\ pc = "report"
    /\ NoTurn
    /\ UNCHANGED <<hostVars, stateVars, memory, lost, touched>>
-----------------------------------------------------------------------------
(***************************************************************************)
(* What happens to the process and to the host beside a turn.              *)
(***************************************************************************)
\* The process dies and systemd starts it again: memory is gone, the files are not.
Crash ==
    /\ "crash" \in Causes
    /\ trial' = None /\ attempts' = NoRetries /\ wait' = NoRetries /\ retryRevision' = None /\ written' = None
    /\ NoTurn
    /\ lost' = (lost \/ pc \notin {"idle", "report"})
    /\ UNCHANGED <<hostVars, stateVars, touched>>

\* The host boots: every daemon reads its files, the enabled services start, the kernel
\* has no table and does not forward.
Reboot ==
    /\ "reboot" \in Causes
    /\ trial' = None /\ attempts' = NoRetries /\ wait' = NoRetries /\ retryRevision' = None /\ written' = None
    /\ NoTurn
    /\ loaded' = [f \in ReadFile |-> file[f]]
    /\ proc' = [s \in Service |-> IF s \in enabled /\ file[UnitOf[s]] # None THEN Reads(s) ELSE None]
    /\ table' = None /\ sets' = {}
    /\ forwarding' = FALSE
    /\ uplink' = None /\ hook' = None
    /\ tuned' = [f \in LinkFile |-> IF f \in present THEN file[f] ELSE None]
    /\ lost' = FALSE /\ touched' = TRUE
    /\ UNCHANGED <<file, enabled, present, stateVars>>

\* A process dies, and systemd may or may not bring it back.
ProcessDies(s) ==
    /\ "drift" \in Causes
    /\ proc[s] # None
    /\ proc' \in {[proc EXCEPT ![s] = None], [proc EXCEPT ![s] = Reads(s)]}
    /\ touched' = TRUE
    /\ UNCHANGED <<file, loaded, enabled, table, forwarding, sets, lineVars, linkVars>>
    /\ UNCHANGED <<stateVars, memory, turnVars, lost>>

\* Somebody flushes the ruleset.
Flush ==
    /\ "drift" \in Causes
    /\ table' = None /\ sets' = {}
    /\ touched' = TRUE
    /\ UNCHANGED <<file, loaded, proc, enabled, forwarding, lineVars, linkVars, stateVars, memory, turnVars, lost>>

\* The session is given an address, or loses it.  pppd runs one hook at a time.
Line(a) ==
    /\ "line" \in Causes
    /\ hook = None /\ a # uplink
    /\ uplink = None => \E s \in Service \ Dnsmasq : proc[s] # None
    /\ uplink' = a
    /\ hook' = IF a = None THEN <<"delete", uplink>> ELSE <<"add", a>>
    /\ touched' = TRUE
    /\ UNCHANGED <<file, loaded, proc, enabled, table, forwarding, sets, linkVars, stateVars, memory, turnVars, lost>>

\* The hook changes the one element of the set, if there is a table to hold it.
HookRuns ==
    /\ hook # None
    /\ sets' = IF table = None THEN sets ELSE IF hook[1] = "add" THEN sets \cup {hook[2]} ELSE sets \ {hook[2]}
    /\ hook' = None
    /\ touched' = TRUE
    /\ UNCHANGED <<file, loaded, proc, enabled, table, forwarding, uplink, linkVars, stateVars, memory, turnVars, lost>>

\* A link appears, and udev sets it to what it has read or, if it looks just then, to what is
\* there; or a link goes away.
LinkAppears(f) ==
    /\ "link" \in Causes /\ f \notin present
    /\ present' = present \cup {f}
    /\ \/ UNCHANGED loaded
       \/ loaded' = [loaded EXCEPT ![f] = file[f]]
    /\ tuned' = [tuned EXCEPT ![f] = loaded'[f]]
    /\ UNCHANGED <<file, proc, enabled, table, forwarding, sets, lineVars, stateVars, memory, turnVars, lost, touched>>

LinkGone(f) ==
    /\ "link" \in Causes /\ f \in present
    /\ present' = present \ {f}
    /\ tuned' = [tuned EXCEPT ![f] = None]
    /\ UNCHANGED <<file, loaded, proc, enabled, table, forwarding, sets, lineVars, stateVars, memory, turnVars, lost, touched>>
-----------------------------------------------------------------------------
Init ==
    /\ file = [f \in File |-> None]
    /\ loaded = [f \in ReadFile |-> None]
    /\ proc = [s \in Service |-> None]
    /\ enabled = {}
    /\ table = None /\ forwarding = FALSE
    /\ uplink = None /\ sets = {} /\ hook = None
    /\ present \in SUBSET LinkFile /\ tuned = [f \in LinkFile |-> None]
    /\ record = None /\ applied = None /\ owed = {}
    /\ trial = None /\ attempts = NoRetries /\ wait = NoRetries /\ retryRevision = None /\ written = None
    /\ pc = "idle" /\ kind = "none" /\ target = None /\ plan = NoPlan
    /\ todo = {} /\ ran = {} /\ failing = FALSE /\ failed = "no"
    /\ lost = FALSE /\ touched = FALSE

Asked == (\E d \in Decl : Submit(d) \/ SubmitTrial(d)) \/ Confirm \/ Revert \/ \E t \in 0..Delay[Levels] : Loop(t)

Commit ==
    \/ RunNft
    \/ \E st \in {"seed"} \X (Address \cup {None}) : RunSeed(st)
    \/ \E st \in {"sysctl"} \X BOOLEAN : RunSysctl(st)
    \/ \E st \in {"dns"} \X Address : RunDNS(st) \/ DNSFails(st)
    \/ \E st \in {"trigger"} \X LinkFile : RunTrigger(st)
    \/ \E st \in Reloads : RunReload(st)
    \/ \E st \in ServiceVerb \X Service : RunService(st)
    \/ \E st \in {"remove"} \X UnitFile : RunRemove(st)
    \/ \E st \in Step : StepFails(st)
    \/ RecordRuleset

Run == StageFiles \/ StageFails \/ Accept \/ AcceptFails \/ Commit \/ SettleOwed \/ ReportTurn

Environment ==
    \/ Crash \/ Reboot \/ Flush \/ HookRuns
    \/ \E s \in Service : ProcessDies(s)
    \/ \E a \in Address : Line(a)
    \/ uplink # None /\ Line(None)
    \/ \E f \in LinkFile : LinkAppears(f) \/ LinkGone(f)

Next == Asked \/ Run \/ Environment

Spec == Init /\ [][Next]_vars
-----------------------------------------------------------------------------
(***************************************************************************)
(* Properties.                                                             *)
(***************************************************************************)
PlanType ==
    [write : SUBSET File, reclaim : SUBSET File, apply : BOOLEAN,
     owed : SUBSET Owable, carried : SUBSET Owable, waiting : BOOLEAN]

\* What a service may have read when it started.
Snapshot == UNION {[I -> Content] : I \in SUBSET File}

\* Every variable has the values the code can give it.
TypeOK ==
    /\ file \in [File -> Content]
    /\ loaded \in [ReadFile -> Content]
    /\ proc \in [Service -> {None} \cup Snapshot]
    /\ enabled \subseteq Service
    /\ table \in Content /\ applied \in Content
    /\ forwarding \in BOOLEAN
    /\ uplink \in Address \cup {None} /\ sets \subseteq Address
    /\ hook \in {None} \cup ({"add", "delete"} \X Address)
    /\ present \subseteq LinkFile /\ tuned \in [LinkFile -> Content]
    /\ written \in Address \cup {None}
    /\ record \in Decl \cup {None} /\ trial \in Decl \cup {None} /\ retryRevision \in Decl \cup {None}
    /\ owed \subseteq Owable
    /\ attempts \in [Step -> 0..Levels] /\ wait \in [Step -> Nat]
    /\ pc \in {"idle", "stage", "accept", "commit", "settle", "report"}
    /\ kind \in {"none", "submit", "trial", "revert", "loop"}
    /\ target \in Decl \cup {None} /\ (pc = "idle" \/ target \in Decl)
    /\ plan \in PlanType
    /\ todo \subseteq Step /\ ran \subseteq Step
    /\ failing \in BOOLEAN /\ failed \in {"no", "staging", "commit"}
    /\ lost \in BOOLEAN /\ touched \in BOOLEAN

\* What is still owed to the daemons: by the file between turns, by the plan in one.
Debt == IF pc \in {"idle", "report"} THEN owed ELSE plan.owed \ ran

\* owed.go: a file its daemon has not read as it is now has its reload on the way, however
\* the turns that wrote it ended.  Only a process that died inside a turn, or could not
\* write down what it owed, may forget one.
NothingForgotten ==
    lost \/ \A f \in ReadFile :
        \/ loaded[f] = file[f]
        \/ Reload(ReaderOf(f)) \in Debt
        \/ f \in UnitFile /\ ReloadAfter \in Debt

\* ADR 0016: however its turns end, the engine keeps the promise made of the accepted
\* declaration.
Promise == INSTANCE Accepted
KeepsPromise == Promise!Spec

\* turn.go: commands only ever run toward the accepted declaration or the live trial.
CommandsTowardSpec == pc = "commit" => target \in {record, trial} \ {None}

\* turn.go: the record changes only to a submission whose staging passed, before its first
\* command, or to the trial an operator confirms.  No loop, revert or crash moves it.
AcceptedOnlyOnRequest ==
    [][record' # record => \/ kind = "submit" /\ ToStage = {} /\ ran = {} /\ record' = target
                           \/ pc = "idle" /\ record' = trial]_vars

\* A step that stops or restarts a running process, or takes a file away.
TakesDown ==
    \/ \E s \in Service : proc[s] # None /\ proc'[s] # proc[s]
    \/ \E f \in File : file[f] # None /\ file'[f] = None

\* unattendedPlan: a turn nobody asked for never stops or restarts a running process and
\* never takes a file away.
UnattendedTakesNothingDown == [][kind = "loop" /\ TakesDown => ~Run]_vars

\* plan.go, udevSteps: a submitted turn sends a link its event only when udev has read the
\* .link file as it is, so the link is set to what the file says; the event and the reload
\* may have been left owed by different turns.
EventAfterReload ==
    [][Attended(kind) /\ ~lost /\ Run =>
           \A f \in LinkFile : <<"trigger", f>> \in ran' \ ran => tuned'[f] = file[f]]_vars

\* A step of a turn that lets packets through: forwarding goes on, or a session starts.
Opens == (forwarding' /\ ~forwarding) \/ \E s \in Service : proc[s] = None /\ proc'[s] # None

\* ADR 0004, ADR 0016: every prefix of a turn an operator asked for is safe.  It neither
\* forwards nor dials with no table in the kernel, unless the table was taken away after
\* the plan was made.
FilterBeforeOpening ==
    [][Opens /\ ~touched /\ ~ProbeFaults /\ Attended(kind) /\ Run => table # None]_vars

\* ADR 0004: a submitted turn that reports converged leaves nothing for the next one, but
\* for the table whose text could not be remembered.
QuietAfterAttended ==
    pc = "report" /\ Attended(kind) /\ StateOf = "converged" /\ ~touched /\ ~ProbeFaults =>
        /\ Writes(target, {}) \cup Reclaims(target, {}) = {}
        /\ \A st \in Steps(target, {}, [nft |-> TRUE, units |-> TRUE]) :
               applied # Ruleset[target] /\ st[1] \in {"nft", "seed"}
-----------------------------------------------------------------------------
(***************************************************************************)
(* Liveness.  A turn is bounded and always ends; ticks keep coming and no  *)
(* backoff is longer than 256 seconds, so an unattended turn with every    *)
(* step due keeps coming; and a command that is run again and again        *)
(* succeeds again and again.                                               *)
(***************************************************************************)
FairSpec ==
    /\ Spec
    /\ WF_vars(Run)
    /\ SF_vars(Loop(Delay[Levels]))
    /\ SF_vars(RunNft)
    /\ SF_vars(\E st \in {"seed"} \X (Address \cup {None}) : RunSeed(st))
    /\ SF_vars(\E st \in {"sysctl"} \X BOOLEAN : RunSysctl(st))
    /\ SF_vars(RunReload(Reload("networkd")))

\* ADR 0016: a table that is gone, by a flush or before the first one went in, comes back
\* without anybody asking.
TableComesBack == record # None /\ table = None ~> table # None

\* owed.go: every later turn runs what is owed until it has run, so networkd ends up with
\* the files as they are.
NetworkdCatchesUp == \A f \in NetFile : loaded[f] # file[f] ~> loaded[f] = file[f]

\* ADR 0015: whatever order the hooks and the seedings came in, and whatever address a plan
\* had read, the set ends up with what the link holds once the link keeps it.
SetFollowsLine ==
    \A a \in Address \cup {None} : <>[](uplink = a /\ record # None /\ table # None) => <>[](sets = {a} \ {None})
-----------------------------------------------------------------------------
(***************************************************************************)
(* What the documents say of a turn and the code does not do.  Each of     *)
(* these TLC refutes (README).                                             *)
(***************************************************************************)
\* ADR 0016: there is never a turn that brings the line up with no firewall in front of it,
\* wherever a failure or a backoff stops it.
NeverOpensUnfiltered == [][Opens /\ ~touched /\ Run => table # None]_vars

\* ADR 0016: applying the previous file, or letting a trial go, undoes the change in full.
GoingBackRestoresTable ==
    pc = "report" /\ Attended(kind) /\ StateOf = "converged" /\ ~touched => table = Ruleset[target]

Running(d) == \A s \in Declared(d) : proc[s] = Reads(s)

\* ADR 0016: running the same apply again does the steps that remain.
SameApplyFinishes ==
    pc = "report" /\ kind = "submit" /\ StateOf = "converged" /\ ~touched => Running(target)

\* ADR 0017: a daemon that died during the commands converges on the way back.
ConvergedIsLoaded ==
    pc = "report" /\ StateOf = "converged" /\ ~touched => \A f \in ReadFile : loaded[f] = file[f]
=============================================================================
