------------------------------- MODULE Serve --------------------------------
(***************************************************************************)
(* The resident process: the loop of internal/apply/serve.go, the control  *)
(* connections that reach it and the report of the last turn.              *)
(*                                                                         *)
(* The loop does one thing at a time: a message, a tick or the expiry of a *)
(* trial.  Each is a turn, run here as its phases and in full in module    *)
(* Turn.  Connections queue beside it, clients go away without it          *)
(* noticing, and the process may die between any two of its steps.         *)
(***************************************************************************)
EXTENDS Naturals

CONSTANTS
    Decl,       \* declarations a client may send
    Valid,      \* the ones that parse and validate
    None,
    Client,     \* connections
    Faults      \* what may go wrong in this instance

ASSUME DeclAssumption == Valid \subseteq Decl /\ None \notin Decl

ASSUME FaultAssumption == Faults \subseteq {"plan", "disk", "read", "crash", "address", "netlink"}

Request == ({"submit", "trial"} \X Decl) \cup ({"confirm", "cancel"} \X {None})

\* How a turn ended: the three states, or the error that stopped it.
State == {"converged", "waiting", "failing"}
Ending == State \cup {"error"}

VARIABLES
    record,     \* accepted/declaration.yaml
    report,     \* turn/report.yaml: the revision, the state and whether a trial is active
    trial, trialBase, clock,
    request,    \* what each connection asked for, until it is answered
    taken,      \* the connection whose message the loop is handling
    gone,       \* connections whose client has gone away
    pc, kind, target, state,
    unseen,     \* an address has changed and the loop has not run since
    buffered,   \* the netlink socket holds a message
    pending,    \* the channel of address events holds one
    events      \* that channel: open, closed by its goroutine, or no longer listened to

loopVars == <<trial, trialBase, clock>>
connVars == <<request, taken, gone>>
turnVars == <<pc, kind, target, state>>
eventVars == <<unseen, buffered, pending, events>>
vars == <<record, report, loopVars, connVars, turnVars, eventVars>>
-----------------------------------------------------------------------------
(***************************************************************************)
(* Connections.  A connection hands its message to the loop and waits; the *)
(* client may leave before or after that.                                  *)
(***************************************************************************)
Connect(c, r) ==
    /\ request[c] = None
    /\ request' = [request EXCEPT ![c] = r]
    /\ UNCHANGED <<record, report, loopVars, taken, gone, turnVars, eventVars>>

Leave(c) ==
    /\ request[c] # None /\ c \notin gone
    /\ gone' = gone \cup {c}
    /\ UNCHANGED <<record, report, loopVars, request, taken, turnVars, eventVars>>

\* A slip: a message whose client has gone is never received.
TakesIfPresent(c, verb) ==
    /\ pc = "idle" /\ c \notin gone
    /\ request[c] # None /\ request[c][1] = verb
    /\ taken' = c
    /\ UNCHANGED <<request, gone, eventVars>>

\* The loop receives the message of one of the connections that wait.
Takes(c, verb) ==
    /\ pc = "idle"
    /\ request[c] # None /\ request[c][1] = verb
    /\ taken' = c
    /\ UNCHANGED <<request, gone, eventVars>>

-----------------------------------------------------------------------------
(***************************************************************************)
(* Turns.                                                                  *)
(***************************************************************************)
\* Begin a turn of kind k toward d.
Begin(k, d) == pc' = "stage" /\ kind' = k /\ target' = d /\ state' = None

\* Go straight to one of the later phases of a turn that never had a plan.
Skip(to, k, d, s) == pc' = to /\ kind' = k /\ target' = d /\ state' = s

\* A turn toward the record.  With none, or one that cannot be read, nothing is reported;
\* with one that no longer validates, or no plan, the report is written.
TowardRecord(k) ==
    \/ record \in Valid /\ Begin(k, record)
    \/ record \in Valid /\ "plan" \in Faults /\ Skip("report", k, record, "error")
    \/ record \in Decl \ Valid /\ Skip("report", k, record, "error")
    \/ (record = None \/ "read" \in Faults) /\ Skip("reply", k, None, "error")

\* ReconcileTrial: a trial that does not validate or has no plan gets no report of its own.
TowardTrial(d) ==
    \/ d \in Valid /\ Begin("loop", d)
    \/ (d \notin Valid \/ "plan" \in Faults) /\ Skip("mark", "loop", d, "error")

\* run: what a start, a tick or an address event makes the loop do.  A trial whose record is
\* not the one it began with is over.
RunLoop ==
    /\ LET over == trial # None /\ record \in Valid /\ record # trialBase
       IN \/ /\ trial # None /\ ~over
             /\ TowardTrial(trial)
             /\ UNCHANGED <<trial, clock>>
          \/ /\ over
             /\ trial' = None /\ clock' = "off"
             /\ TowardRecord("loop")
          \/ /\ over /\ "read" \in Faults
             /\ TowardTrial(trial)
             /\ UNCHANGED <<trial, clock>>
          \/ /\ trial = None
             /\ TowardRecord("loop")
             /\ UNCHANGED <<trial, clock>>
    /\ unseen' = FALSE
    /\ UNCHANGED <<record, report, trialBase, connVars, buffered, events>>

Tick == pc \in {"start", "idle"} /\ RunLoop /\ UNCHANGED pending

\* An address event.  One that was sent before its channel was closed is still received.
Event == pc = "idle" /\ pending /\ pending' = FALSE /\ RunLoop

\* A slip: a submission leaves the trial to its deadline.
SubmitKeepsTrial(c) ==
    LET d == request[c][2]
    IN /\ Takes(c, "submit")
       /\ d \in Valid /\ Begin("submit", d)
       /\ UNCHANGED <<record, report, loopVars>>

\* submit: any trial is dropped before the declaration is looked at.
Submit(c) ==
    LET d == request[c][2]
    IN /\ Takes(c, "submit")
       /\ trial' = None /\ clock' = "off"
       /\ \/ d \in Valid /\ Begin("submit", d)
          \/ (d \notin Valid \/ "plan" \in Faults) /\ Skip("reply", "submit", d, "error")
       /\ UNCHANGED <<record, report, trialBase>>

\* trial: the declaration is held and the clock started before it is looked at.
Trial(c) ==
    LET d == request[c][2]
    IN /\ Takes(c, "trial")
       /\ trialBase' \in {IF record \in Valid THEN record ELSE None} \cup {None : f \in Faults \cap {"read"}}
       /\ trial' = d /\ clock' = "running"
       /\ \/ d \in Valid /\ Begin("trial", d)
          \/ d \in Valid /\ "plan" \in Faults /\ Skip("report", "trial", d, "error")
          \/ d \notin Valid /\ Skip("mark", "trial", d, "error")
       /\ UNCHANGED <<record, report>>

\* confirm: the trial is recorded, whatever its turn achieved, and no turn runs.
Confirm(c) ==
    /\ Takes(c, "confirm")
    /\ \/ /\ trial # None
          /\ record' = trial
          /\ trial' = None /\ clock' = "off"
          /\ \/ report' = IF report = None THEN None ELSE [report EXCEPT !.trial = FALSE]
             \/ "disk" \in Faults /\ UNCHANGED report
          /\ Skip("reply", "confirm", trial, IF report = None THEN "failing" ELSE report.state)
       \/ /\ trial = None \/ "disk" \in Faults
          /\ Skip("reply", "confirm", None, "error")
          /\ UNCHANGED <<record, trial, clock, report>>
    /\ UNCHANGED <<trialBase>>

\* cancel: the trial is dropped and a submitted turn runs toward the record.
Cancel(c) ==
    /\ Takes(c, "cancel")
    /\ \/ /\ trial # None
          /\ trial' = None /\ clock' = "off"
          /\ TowardRecord("revert")
       \/ /\ trial = None
          /\ Skip("reply", "cancel", None, "error")
          /\ UNCHANGED <<trial, clock>>
    /\ UNCHANGED <<record, report, trialBase>>

\* A trial without a deadline is refused before anything is touched.
Malformed(c) ==
    /\ Takes(c, "trial")
    /\ Skip("reply", "malformed", None, "error")
    /\ UNCHANGED <<record, report, loopVars>>

\* The deadline passes; the loop hears of it when it next chooses the timer.
Ring ==
    /\ clock = "running"
    /\ clock' = "rung"
    /\ UNCHANGED <<record, report, trial, trialBase, connVars, turnVars, eventVars>>

\* Slips: the clock is stopped and the trial kept; a deadline is passed over when there is no
\* record to go back to.
ExpireKeepsTrial ==
    /\ pc = "idle" /\ clock = "rung"
    /\ clock' = "off"
    /\ TowardRecord("revert")
    /\ UNCHANGED <<record, report, trial, trialBase, connVars, eventVars>>

ExpireIfRecorded ==
    /\ pc = "idle" /\ clock = "rung" /\ record # None
    /\ trial' = None /\ clock' = "off"
    /\ TowardRecord("revert")
    /\ UNCHANGED <<record, report, trialBase, connVars, eventVars>>

Expire ==
    /\ pc = "idle" /\ clock = "rung"
    /\ trial' = None /\ clock' = "off"
    /\ TowardRecord("revert")
    /\ UNCHANGED <<record, report, trialBase, connVars, eventVars>>
-----------------------------------------------------------------------------
(***************************************************************************)
(* The phases of a turn.                                                   *)
(***************************************************************************)
\* A slip: a submission runs its commands before it is recorded.
StageSkipsAccept ==
    /\ pc = "stage"
    /\ pc' = "commit"
    /\ UNCHANGED <<record, report, loopVars, connVars, kind, target, state, eventVars>>

Stage ==
    /\ pc = "stage"
    /\ \/ pc' = (IF kind = "submit" THEN "accept" ELSE "commit") /\ UNCHANGED state
       \/ "disk" \in Faults /\ state' = "error" /\ pc' = (IF kind = "submit" THEN "reply" ELSE "report")
    /\ UNCHANGED <<record, report, loopVars, connVars, kind, target, eventVars>>

Accept ==
    /\ pc = "accept"
    /\ \/ record' = target /\ pc' = "commit" /\ UNCHANGED state
       \/ "disk" \in Faults /\ state' = "error" /\ pc' = "reply" /\ UNCHANGED record
    /\ UNCHANGED <<report, loopVars, connVars, kind, target, eventVars>>

Commit ==
    /\ pc = "commit"
    /\ state' \in Ending
    /\ pc' = "report"
    /\ UNCHANGED <<record, report, loopVars, connVars, kind, target, eventVars>>

\* A slip: the error that stopped a turn is written as its state.
ReportRaw ==
    /\ pc = "report"
    /\ report' = [revision |-> target, state |-> state, trial |-> FALSE]
    /\ pc' = "reply"
    /\ UNCHANGED <<record, loopVars, connVars, kind, target, state, eventVars>>

\* A slip: only the turn of a trial message is marked.
ReportMarksOnce ==
    /\ pc = "report"
    /\ report' = [revision |-> target, state |-> IF state = "error" THEN "failing" ELSE state, trial |-> FALSE]
    /\ pc' = IF kind = "trial" THEN "mark" ELSE "reply"
    /\ UNCHANGED <<record, loopVars, connVars, kind, target, state, eventVars>>

\* ReportTurn writes a report that says nothing of a trial; one toward the trial is marked.
Report ==
    /\ pc = "report"
    /\ \/ report' = [revision |-> target, state |-> IF state = "error" THEN "failing" ELSE state, trial |-> FALSE]
       \/ "disk" \in Faults /\ UNCHANGED report
    /\ pc' = IF trial # None THEN "mark" ELSE "reply"
    /\ UNCHANGED <<record, loopVars, connVars, kind, target, state, eventVars>>

\* ReportTrial marks whatever report is there, if there is one.
Mark ==
    /\ pc = "mark"
    /\ \/ report' = IF report = None THEN None ELSE [report EXCEPT !.trial = TRUE]
       \/ "disk" \in Faults /\ UNCHANGED report
    /\ pc' = "reply"
    /\ UNCHANGED <<record, loopVars, connVars, kind, target, state, eventVars>>

\* Reply, and back to the loop.  A reply never waits for a client that has gone.
Reply ==
    /\ pc = "reply"
    /\ pc' = "idle" /\ kind' = "none" /\ target' = None /\ state' = None
    /\ taken' = None
    /\ request' = [c \in Client |-> IF c = taken THEN None ELSE request[c]]
    /\ gone' = gone \ {taken}
    /\ UNCHANGED <<record, report, loopVars, eventVars>>

\* The process dies, or is stopped, and is started again.  Every connection is cut.
Crash ==
    /\ "crash" \in Faults
    /\ pc' = "start" /\ kind' = "none" /\ target' = None /\ state' = None
    /\ trial' = None /\ trialBase' = None /\ clock' = "off"
    /\ taken' = None
    /\ request' = [c \in Client |-> None] /\ gone' = {}
    /\ buffered' = FALSE /\ pending' = FALSE /\ events' = "open"
    /\ UNCHANGED <<record, report, unseen>>
-----------------------------------------------------------------------------
(***************************************************************************)
(* Address events: the goroutine between the netlink socket and the loop.  *)
(***************************************************************************)
\* The kernel tells whoever is subscribed.
AddressChanges ==
    /\ "address" \in Faults
    /\ unseen' = TRUE
    /\ buffered' = (events = "open")
    /\ UNCHANGED <<record, report, loopVars, connVars, turnVars, pending, events>>

\* A slip: a channel without room, so that a message is dropped while the loop is busy.
HearUnbuffered ==
    /\ buffered /\ buffered' = FALSE
    /\ pending' = (pending \/ pc = "idle")
    /\ UNCHANGED <<record, report, loopVars, connVars, turnVars, unseen, events>>

\* A message is received and put into the channel, or dropped when there is one already.
Hear ==
    /\ buffered /\ buffered' = FALSE
    /\ pending' = TRUE
    /\ UNCHANGED <<record, report, loopVars, connVars, turnVars, unseen, events>>

\* Any error of the socket ends the goroutine, which closes the channel.
SocketFails ==
    /\ "netlink" \in Faults /\ events = "open"
    /\ buffered' = FALSE /\ events' = "closed"
    /\ UNCHANGED <<record, report, loopVars, connVars, turnVars, unseen, pending>>

\* The loop finds the channel closed and empty, and no longer listens to it.
EventsEnd ==
    /\ pc = "idle" /\ events = "closed" /\ ~pending
    /\ events' = "ignored"
    /\ UNCHANGED <<record, report, loopVars, connVars, turnVars, unseen, buffered, pending>>
-----------------------------------------------------------------------------
Init ==
    /\ record = None /\ report = None
    /\ trial = None /\ trialBase = None /\ clock = "off"
    /\ request = [c \in Client |-> None] /\ taken = None /\ gone = {}
    /\ pc = "start" /\ kind = "none" /\ target = None /\ state = None
    /\ unseen = FALSE /\ buffered = FALSE /\ pending = FALSE /\ events = "open"

Handle(c) == Submit(c) \/ Trial(c) \/ Confirm(c) \/ Cancel(c) \/ Malformed(c)

Work == Stage \/ Accept \/ Commit \/ Report \/ Mark \/ Reply

Subscription == AddressChanges \/ Hear \/ SocketFails \/ EventsEnd

Next ==
    \/ \E c \in Client : Leave(c) \/ Handle(c) \/ \E r \in Request : Connect(c, r)
    \/ Tick \/ Event \/ Ring \/ Expire \/ Work \/ Crash \/ Subscription

Spec == Init /\ [][Next]_vars

\* A turn is bounded, and the goroutine of the events runs.  select chooses among what is
\* ready at random, so whatever is ready again and again is chosen in the end.  Nothing is
\* said of ticks.
FairSpec ==
    /\ Spec
    /\ WF_vars(Work) /\ WF_vars(Ring) /\ WF_vars(pc = "start" /\ Tick)
    /\ WF_vars(Hear)
    /\ SF_vars(Expire) /\ SF_vars(Event)
    /\ \A c \in Client : SF_vars(Handle(c))
-----------------------------------------------------------------------------
(***************************************************************************)
(* Properties.                                                             *)
(***************************************************************************)
\* Every variable has the values the code can give it.
TypeOK ==
    /\ {record, trial, trialBase, target} \subseteq Decl \cup {None}
    /\ report \in {None} \cup [revision : Decl, state : State, trial : BOOLEAN]
    /\ clock \in {"off", "running", "rung"}
    /\ request \in [Client -> Request \cup {None}]
    /\ taken \in Client \cup {None} /\ gone \subseteq Client
    /\ pc \in {"start", "idle", "stage", "accept", "commit", "report", "mark", "reply"}
    /\ kind \in {"none", "submit", "trial", "revert", "loop", "confirm", "cancel", "malformed"}
    /\ state \in Ending \cup {None}
    /\ unseen \in BOOLEAN /\ buffered \in BOOLEAN /\ pending \in BOOLEAN
    /\ events \in {"open", "closed", "ignored"}

\* ADR 0016: the loop keeps the promise made of the accepted declaration.
Promise == INSTANCE Accepted
KeepsPromise == Promise!Spec

\* ADR 0016: there is never a trial nobody is timing, nor a clock with no trial.
TrialIsTimed == trial # None <=> clock # "off"

\* ADR 0016: commands run only toward a declaration that validated, and only when it is the
\* record or the live trial.
CommandsTowardSpec == pc = "commit" => target \in Valid /\ target \in {record, trial}

\* README: while a trial is live the report says so, whichever turn wrote it last and
\* whatever became of it, if reports can be written at all.
TrialIsReported == pc = "idle" /\ trial # None /\ report # None /\ "disk" \notin Faults => report.trial

\* ADR 0017: whatever the client does and whatever else is ready, a message is handled in the
\* end or the process died.
EveryMessageHandled == \A c \in Client : request[c] # None ~> request[c] = None

\* ADR 0016: a deadline that has passed ends the trial, with nobody there.
DeadlineEndsTrial == clock = "rung" ~> clock # "rung"

\* Subscribe: a change is either seen or on its way to the loop for as long as the kernel
\* tells of it, although messages are dropped whenever there is one already.
NoChangeLost == unseen /\ events = "open" => pc = "start" \/ buffered \/ pending

\* Subscribe and ADR 0016: the loop runs after every change of an address, however many came
\* while a turn was running and with no tick to help, as long as the subscription lives.
EveryChangeSeen == unseen ~> ~unseen \/ events # "open"
-----------------------------------------------------------------------------
(***************************************************************************)
(* What the documents say of the loop and the code does not do.  Each of   *)
(* these TLC refutes (README).                                             *)
(***************************************************************************)
\* turn.go, AcceptTrial: a trial that is confirmed was validated.
RecordIsValid == record # None => record \in Valid
=============================================================================
