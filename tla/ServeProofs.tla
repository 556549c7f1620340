----------------------------- MODULE ServeProofs ----------------------------
(***************************************************************************)
(* What holds of the resident loop, for any declarations, any number of    *)
(* connections and any faults.                                             *)
(***************************************************************************)
EXTENDS Serve, TLAPS

\* What a turn under way is directed at, by its kind.  A submission has dropped the trial
\* before its turn began, so recording it can leave none behind.
Directed ==
    /\ pc = "accept" => kind = "submit"
    /\ pc \in {"stage", "accept", "commit"} =>
         /\ target \in Valid
         /\ kind \in {"submit", "trial", "revert", "loop"}
         /\ kind = "submit" => trial = None
         /\ kind = "submit" /\ pc = "commit" => target = record
         /\ kind = "trial" => target = trial
         /\ kind = "revert" => target = record
         /\ kind = "loop" => target \in {record, trial}

\* What is needed of the types: a declaration is never taken for none.
Held == {record, trial} \subseteq Decl \cup {None} /\ request \in [Client -> Request \cup {None}]

Loop == Held /\ TrialIsTimed /\ Directed

\* The loop starts with no trial, no clock and no turn.
LEMMA InitLoop == Init => Loop
  BY DEF Init, Loop, Held, TrialIsTimed, Directed

\* The turns toward the record and toward the trial begin directed at them.
LEMMA TowardDirected ==
    ASSUME NEW k \in {"revert", "loop"}, TowardRecord(k), record' = record
    PROVE  Directed'
  BY DeclAssumption DEF TowardRecord, Begin, Skip, Directed

\* A turn toward the trial is directed at it.
LEMMA TrialDirected ==
    ASSUME NEW d, TowardTrial(d), trial' = d
    PROVE  Directed'
  BY DEF TowardTrial, Begin, Skip, Directed

\* Every step of the loop keeps it timed and directed.
LEMMA StepLoop ==
    ASSUME Loop, Next
    PROVE  Loop'
<1> USE DEF Loop, loopVars, connVars, turnVars, eventVars
<1>1. ASSUME NEW c \in Client, NEW r \in Request, Connect(c, r) PROVE Loop'
  BY <1>1 DEF Connect, Held, TrialIsTimed, Directed
<1>2. ASSUME NEW c \in Client, Leave(c) PROVE Loop'
  BY <1>2 DEF Leave, Held, TrialIsTimed, Directed
<1>3. ASSUME NEW c \in Client, Submit(c) PROVE Loop'
  BY <1>3 DEF Submit, Takes, Begin, Skip, Held, TrialIsTimed, Directed
<1>4. ASSUME NEW c \in Client, Trial(c) PROVE Loop'
  <2>1. request[c][2] \in Decl
    BY <1>4, DeclAssumption DEF Trial, Takes, Held, Request
  <2> QED
    BY <1>4, <2>1, DeclAssumption DEF Trial, Takes, Begin, Skip, Held, TrialIsTimed, Directed
<1>5. ASSUME NEW c \in Client, Confirm(c) PROVE Loop'
  BY <1>5 DEF Confirm, Takes, Skip, Held, TrialIsTimed, Directed
<1>6. ASSUME NEW c \in Client, Cancel(c) PROVE Loop'
  <2>1. CASE trial # None
    <3>1. TowardRecord("revert") /\ record' = record /\ trial' = None /\ clock' = "off" /\ request' = request
      BY <1>6, <2>1 DEF Cancel, Takes
    <3> QED
      BY <3>1, TowardDirected DEF Held, TrialIsTimed
  <2>2. CASE trial = None
    BY <1>6, <2>2 DEF Cancel, Takes, Skip, Held, TrialIsTimed, Directed
  <2> QED
    BY <2>1, <2>2
<1>7. ASSUME NEW c \in Client, Malformed(c) PROVE Loop'
  BY <1>7 DEF Malformed, Takes, Skip, Held, TrialIsTimed, Directed
<1>8. ASSUME RunLoop PROVE Loop'
  <2>1. record' = record /\ request' = request
    BY <1>8 DEF RunLoop
  <2>2. ASSUME TowardTrial(trial), UNCHANGED <<trial, clock>> PROVE Loop'
    BY <2>1, <2>2, TrialDirected DEF Held, TrialIsTimed
  <2>3. ASSUME TowardRecord("loop"), trial' = None, clock' = "off" PROVE Loop'
    BY <2>1, <2>3, TowardDirected DEF Held, TrialIsTimed
  <2>4. ASSUME TowardRecord("loop"), UNCHANGED <<trial, clock>> PROVE Loop'
    BY <2>1, <2>4, TowardDirected DEF Held, TrialIsTimed
  <2> QED
    BY <1>8, <2>2, <2>3, <2>4 DEF RunLoop
<1>9. ASSUME Ring PROVE Loop'
  BY <1>9 DEF Ring, Held, TrialIsTimed, Directed
<1>10. ASSUME Expire PROVE Loop'
  <2>1. TowardRecord("revert") /\ record' = record /\ trial' = None /\ clock' = "off" /\ request' = request
    BY <1>10 DEF Expire
  <2> QED
    BY <2>1, TowardDirected DEF Held, TrialIsTimed
<1>11. ASSUME Stage PROVE Loop'
  BY <1>11 DEF Stage, Held, TrialIsTimed, Directed
<1>12. ASSUME Accept PROVE Loop'
  BY <1>12, DeclAssumption DEF Accept, Held, TrialIsTimed, Directed
<1>13. ASSUME Commit \/ Report \/ Mark PROVE Loop'
  BY <1>13 DEF Commit, Report, Mark, Held, TrialIsTimed, Directed
<1>14. ASSUME Reply PROVE Loop'
  BY <1>14 DEF Reply, Held, TrialIsTimed, Directed
<1>15. ASSUME Crash PROVE Loop'
  BY <1>15 DEF Crash, Held, TrialIsTimed, Directed
<1>16. ASSUME Subscription PROVE Loop'
  BY <1>16 DEF Subscription, AddressChanges, Hear, SocketFails, EventsEnd, Held, TrialIsTimed, Directed
<1> QED
  BY <1>1, <1>2, <1>3, <1>4, <1>5, <1>6, <1>7, <1>8, <1>9, <1>10, <1>11, <1>12, <1>13, <1>14, <1>15, <1>16
     DEF Next, Tick, Event, Handle, Work

\* Loop holds in every reachable state.
LEMMA LoopAlways == Spec => []Loop
<1>1. Loop /\ UNCHANGED vars => Loop'
  BY DEF Loop, Held, TrialIsTimed, Directed, vars, loopVars, connVars, turnVars, eventVars
<1> QED
  BY <1>1, InitLoop, StepLoop, PTL DEF Spec

\* ADR 0016: whatever order messages, ticks, deadlines and deaths come in, a live trial has a
\* clock and a clock has a live trial.
THEOREM AlwaysTimed == Spec => []TrialIsTimed
  BY LoopAlways, PTL DEF Loop

\* turn.go: commands run only toward a declaration that validated and that is the record or
\* the live trial.
THEOREM CommandsDirected == Spec => []CommandsTowardSpec
<1>1. Loop => CommandsTowardSpec
  BY DEF Loop, Directed, CommandsTowardSpec
<1> QED
  BY <1>1, LoopAlways, PTL

\* ADR 0016, ADR 0017: the resident loop implements the promise made of the accepted
\* declaration, for any number of clients.
THEOREM LoopKeepsPromise == Spec => KeepsPromise
<1>1. Init => Promise!Init
  BY DEF Init, Promise!Init
<1>2. Loop /\ [Next]_vars => [Promise!Next]_(Promise!vars)
  <2> SUFFICES ASSUME Loop, Next, ~UNCHANGED <<record, trial>> PROVE Promise!Next
    BY DEF Promise!vars, vars, loopVars
  <2> USE DEF loopVars
  <2>1. ASSUME trial' = None, record' = record PROVE Promise!Next
    BY <2>1 DEF Promise!Next, Promise!Drop
  <2>2. ASSUME NEW c \in Client, Trial(c) PROVE Promise!Next
    <3>1. request[c][2] \in Decl
      BY <2>2, DeclAssumption DEF Trial, Takes, Loop, Held, Request
    <3> QED
      BY <2>2, <3>1 DEF Trial, Promise!Next, Promise!Try
  <2>3. ASSUME NEW c \in Client, Confirm(c) PROVE Promise!Next
    BY <2>3 DEF Confirm, Promise!Next, Promise!Confirm
  <2>4. ASSUME Accept PROVE Promise!Next
    BY <2>4, DeclAssumption DEF Accept, Loop, Directed, Promise!Next, Promise!Accept
  <2>5. ASSUME Tick \/ Event \/ Expire \/ Crash PROVE Promise!Next
    BY <2>1, <2>5 DEF Tick, Event, RunLoop, Expire, Crash
  <2>6. ASSUME NEW c \in Client, Submit(c) \/ Cancel(c) PROVE Promise!Next
    BY <2>1, <2>6 DEF Submit, Cancel
  <2>7. ASSUME NEW c \in Client, Leave(c) \/ Malformed(c) PROVE FALSE
    BY <2>7 DEF Leave, Malformed
  <2>8. ASSUME NEW c \in Client, NEW r \in Request, Connect(c, r) PROVE FALSE
    BY <2>8 DEF Connect
  <2>9. ASSUME Ring \/ Stage \/ Commit \/ Report \/ Mark \/ Reply PROVE FALSE
    BY <2>9 DEF Ring, Stage, Commit, Report, Mark, Reply
  <2>10. ASSUME Subscription PROVE FALSE
    BY <2>10 DEF Subscription, AddressChanges, Hear, SocketFails, EventsEnd
  <2> QED
    BY <2>2, <2>3, <2>4, <2>5, <2>6, <2>7, <2>8, <2>9, <2>10 DEF Next, Handle, Work
<1> QED
  BY <1>1, <1>2, LoopAlways, PTL DEF Spec, KeepsPromise, Promise!Spec

\* TypeOK is not inductive: a report is typed because a turn that comes to it has a target and
\* an ending.
Ended == pc = "report" => target \in Decl /\ state \in Ending

\* A declaration sent over a connection is one.
LEMMA SentIsDecl ==
    ASSUME TypeOK, NEW c \in Client, request[c] # None, request[c][1] \in {"submit", "trial"}
    PROVE  request[c][2] \in Decl
  BY DeclAssumption DEF TypeOK, Request

\* The turns toward the record and toward the trial begin with typed variables.
LEMMA TowardTyped ==
    ASSUME NEW k \in {"revert", "loop"}, TypeOK,
           TowardRecord(k) \/ (k = "loop" /\ trial # None /\ TowardTrial(trial))
    PROVE  /\ target' \in Decl \cup {None}
           /\ pc' \in {"stage", "report", "mark", "reply"}
           /\ kind' = k /\ state' \in {"error", None}
           /\ Ended'
  BY DeclAssumption DEF TypeOK, TowardRecord, TowardTrial, Begin, Skip, Ended, Ending

\* Every step of the loop keeps the types.
LEMMA StepTyped ==
    ASSUME TypeOK, Ended, Loop, Next
    PROVE  TypeOK' /\ Ended'
<1> USE DEF loopVars, connVars, turnVars, eventVars
<1>1. ASSUME NEW c \in Client, NEW r \in Request, Connect(c, r) PROVE TypeOK' /\ Ended'
  BY <1>1 DEF Connect, TypeOK, Ended
<1>2. ASSUME NEW c \in Client, Leave(c) PROVE TypeOK' /\ Ended'
  BY <1>2 DEF Leave, TypeOK, Ended
<1>3. ASSUME NEW c \in Client, Submit(c) PROVE TypeOK' /\ Ended'
  <2>1. request[c][2] \in Decl
    BY <1>3, SentIsDecl DEF Submit, Takes
  <2> QED
    BY <1>3, <2>1 DEF Submit, Takes, Begin, Skip, TypeOK, Ended, Ending
<1>4. ASSUME NEW c \in Client, Trial(c) PROVE TypeOK' /\ Ended'
  <2>1. request[c][2] \in Decl
    BY <1>4, SentIsDecl DEF Trial, Takes
  <2>2. trialBase' \in Decl \cup {None}
    BY <1>4, DeclAssumption DEF Trial
  <2> QED
    BY <1>4, <2>1, <2>2 DEF Trial, Takes, Begin, Skip, TypeOK, Ended, Ending
<1>5. ASSUME NEW c \in Client, Confirm(c) PROVE TypeOK' /\ Ended'
  <2>1. report' \in {None} \cup [revision : Decl, state : State, trial : BOOLEAN]
    BY <1>5 DEF Confirm, TypeOK
  <2>2. state' \in Ending
    BY <1>5 DEF Confirm, Skip, TypeOK, Ending, State
  <2> QED
    BY <1>5, <2>1, <2>2 DEF Confirm, Takes, Skip, TypeOK, Ended
<1>6. ASSUME NEW c \in Client, Cancel(c) PROVE TypeOK' /\ Ended'
  <2>1. CASE trial # None
    <3>1. TowardRecord("revert") /\ UNCHANGED <<record, report, trialBase, request, gone, eventVars>>
          /\ trial' = None /\ clock' = "off" /\ taken' = c
      BY <1>6, <2>1 DEF Cancel, Takes
    <3> QED
      BY <3>1, TowardTyped DEF TypeOK, Ending
  <2>2. CASE trial = None
    BY <1>6, <2>2 DEF Cancel, Takes, Skip, TypeOK, Ended, Ending
  <2> QED
    BY <2>1, <2>2
<1>7. ASSUME NEW c \in Client, Malformed(c) PROVE TypeOK' /\ Ended'
  BY <1>7 DEF Malformed, Takes, Skip, TypeOK, Ended, Ending
<1>8. ASSUME Tick \/ Event PROVE TypeOK' /\ Ended'
  <2>1. UNCHANGED <<record, report, trialBase, request, taken, gone>>
    BY <1>8 DEF Tick, Event, RunLoop
  <2>2. trial' \in {trial, None} /\ clock' \in {clock, "off"}
    BY <1>8 DEF Tick, Event, RunLoop
  <2>3. TowardRecord("loop") \/ (trial # None /\ TowardTrial(trial))
    BY <1>8 DEF Tick, Event, RunLoop
  <2>4. unseen' = FALSE /\ UNCHANGED <<buffered, events>> /\ pending' \in {pending, FALSE}
    BY <1>8 DEF Tick, Event, RunLoop
  <2> QED
    BY <2>1, <2>2, <2>3, <2>4, TowardTyped DEF TypeOK, Ending
<1>9. ASSUME Ring PROVE TypeOK' /\ Ended'
  BY <1>9 DEF Ring, TypeOK, Ended
<1>10. ASSUME Expire PROVE TypeOK' /\ Ended'
  <2>1. TowardRecord("revert") /\ UNCHANGED <<record, report, trialBase, request, taken, gone, eventVars>>
        /\ trial' = None /\ clock' = "off"
    BY <1>10 DEF Expire
  <2> QED
    BY <2>1, TowardTyped DEF TypeOK, Ending
<1>11. ASSUME Stage \/ Accept PROVE TypeOK' /\ Ended'
  BY <1>11, DeclAssumption DEF Stage, Accept, TypeOK, Ended, Ending, Loop, Directed
<1>12. ASSUME Commit PROVE TypeOK' /\ Ended'
  BY <1>12, DeclAssumption DEF Commit, TypeOK, Ended, Loop, Directed
<1>13. ASSUME Report PROVE TypeOK' /\ Ended'
  <2>1. report' \in {None} \cup [revision : Decl, state : State, trial : BOOLEAN]
    <3>1. target \in Decl /\ (IF state = "error" THEN "failing" ELSE state) \in State
      BY <1>13 DEF Report, Ended, Ending, State
    <3>2. [revision |-> target, state |-> IF state = "error" THEN "failing" ELSE state, trial |-> FALSE]
            \in [revision : Decl, state : State, trial : BOOLEAN]
      BY <3>1
    <3> QED
      BY <1>13, <3>2 DEF Report, TypeOK
  <2> QED
    BY <1>13, <2>1 DEF Report, TypeOK, Ended
<1>14. ASSUME Mark PROVE TypeOK' /\ Ended'
  <2>1. report' \in {None} \cup [revision : Decl, state : State, trial : BOOLEAN]
    BY <1>14 DEF Mark, TypeOK
  <2> QED
    BY <1>14, <2>1 DEF Mark, TypeOK, Ended
<1>15. ASSUME Reply \/ Crash PROVE TypeOK' /\ Ended'
  BY <1>15 DEF Reply, Crash, TypeOK, Ended
<1>16. ASSUME Subscription PROVE TypeOK' /\ Ended'
  <2>1. UNCHANGED <<record, report, loopVars, connVars, turnVars>>
    BY <1>16 DEF Subscription, AddressChanges, Hear, SocketFails, EventsEnd
  <2>2. events' \in {"open", "closed", "ignored"}
    BY <1>16 DEF Subscription, AddressChanges, Hear, SocketFails, EventsEnd, TypeOK
  <2>3. unseen' \in BOOLEAN
    BY <1>16, Zenon DEF Subscription, AddressChanges, Hear, SocketFails, EventsEnd, TypeOK
  <2>4. buffered' \in BOOLEAN
    BY <1>16, Zenon DEF Subscription, AddressChanges, Hear, SocketFails, EventsEnd, TypeOK
  <2>5. pending' \in BOOLEAN
    BY <1>16, Zenon DEF Subscription, AddressChanges, Hear, SocketFails, EventsEnd, TypeOK
  <2> QED
    BY <2>1, <2>2, <2>3, <2>4, <2>5 DEF TypeOK, Ended
<1> QED
  BY <1>1, <1>2, <1>3, <1>4, <1>5, <1>6, <1>7, <1>8, <1>9, <1>10, <1>11, <1>12, <1>13, <1>14, <1>15, <1>16
     DEF Next, Handle, Work

\* serve.go, control.go: the record, the report, the trial, its clock and the messages that wait
\* always have the values the code can give them.
THEOREM LoopTyped == Spec => []TypeOK
<1>1. Init => TypeOK /\ Ended
  BY DEF Init, TypeOK, Ended
<1>2. TypeOK /\ Ended /\ UNCHANGED vars => TypeOK' /\ Ended'
  BY DEF TypeOK, Ended, vars, loopVars, connVars, turnVars, eventVars
<1> QED
  BY <1>1, <1>2, StepTyped, LoopAlways, PTL DEF Spec

\* A turn that ends beside a live trial leaves its mark, answered or not: what is written
\* unmarked is marked before the reply.
Marked ==
    "disk" \notin Faults /\ pc \in {"idle", "reply"} /\ trial # None /\ report # None => report.trial

\* Every step of the loop keeps a live trial marked.
LEMMA StepMarked ==
    ASSUME TypeOK, Loop, Marked, Next
    PROVE  Marked'
<1> USE DEF loopVars, connVars, turnVars, eventVars
<1>1. ASSUME NEW c \in Client, NEW r \in Request, Connect(c, r) PROVE Marked'
  BY <1>1 DEF Connect, Marked
<1>2. ASSUME NEW c \in Client, Leave(c) \/ Malformed(c) PROVE Marked'
  BY <1>2 DEF Leave, Malformed, Takes, Skip, Marked
<1>3. ASSUME NEW c \in Client, Submit(c) \/ Trial(c) PROVE Marked'
  BY <1>3 DEF Submit, Trial, Begin, Skip, Marked
<1>4. ASSUME NEW c \in Client, Confirm(c) \/ Cancel(c) PROVE Marked'
  BY <1>4 DEF Confirm, Cancel, Marked
<1>5. ASSUME RunLoop PROVE Marked'
  BY <1>5 DEF RunLoop, TowardTrial, Begin, Skip, Marked
<1>6. ASSUME Ring \/ Expire \/ Crash PROVE Marked'
  BY <1>6 DEF Ring, Expire, Crash, Marked
<1>7. ASSUME Stage \/ Accept \/ Commit PROVE Marked'
  BY <1>7 DEF Stage, Accept, Commit, Loop, Directed, Marked
<1>8. ASSUME Report PROVE Marked'
  BY <1>8 DEF Report, Marked
<1>9. ASSUME Mark PROVE Marked'
  BY <1>9 DEF Mark, TypeOK, Marked
<1>10. ASSUME Reply PROVE Marked'
  BY <1>10 DEF Reply, Marked
<1>11. ASSUME Subscription PROVE Marked'
  BY <1>11 DEF Subscription, AddressChanges, Hear, SocketFails, EventsEnd, Marked
<1> QED
  BY <1>1, <1>2, <1>3, <1>4, <1>5, <1>6, <1>7, <1>8, <1>9, <1>10, <1>11 DEF Next, Tick, Event, Handle, Work

\* README: while a trial is live the report on disk says so whenever the loop is between two
\* turns, whichever turn wrote it last and whatever became of it, if it can be written at all.
THEOREM TrialAlwaysReported == Spec => []TrialIsReported
<1>1. Init => Marked
  BY DEF Init, Marked
<1>2. Marked /\ UNCHANGED vars => Marked'
  BY DEF Marked, vars, loopVars, turnVars
<1>3. Marked => TrialIsReported
  BY DEF Marked, TrialIsReported
<1> QED
  BY <1>1, <1>2, <1>3, StepMarked, LoopTyped, LoopAlways, PTL DEF Spec

\* serve.go, Subscribe: as long as the subscription lives, no change of an address is lost on
\* its way to the loop, however many messages are dropped because there is one already.
THEOREM ChangesArrive == Spec => []NoChangeLost
<1>1. Init => NoChangeLost
  BY DEF Init, NoChangeLost
<1>2. ASSUME NoChangeLost, Next PROVE NoChangeLost'
  <2> USE DEF NoChangeLost, eventVars
  <2>1. ASSUME Tick \/ Event PROVE NoChangeLost'
    BY <2>1 DEF Tick, Event, RunLoop
  <2>2. ASSUME Crash \/ Subscription PROVE NoChangeLost'
    BY <1>2, <2>2 DEF Crash, Subscription, AddressChanges, Hear, SocketFails, EventsEnd, turnVars
  <2>3. ASSUME NEW c \in Client, Handle(c) PROVE NoChangeLost'
    BY <1>2, <2>3 DEF Handle, Submit, Trial, Confirm, Cancel, Malformed, Takes
  <2>4. ASSUME NEW c \in Client, NEW r \in Request, Connect(c, r) PROVE NoChangeLost'
    BY <1>2, <2>4 DEF Connect, turnVars
  <2>5. ASSUME Ring \/ Expire \/ Work PROVE NoChangeLost'
    BY <1>2, <2>5 DEF Ring, Expire, Work, Stage, Accept, Commit, Report, Mark, Reply, turnVars
  <2>6. ASSUME NEW c \in Client, Leave(c) PROVE NoChangeLost'
    BY <1>2, <2>6 DEF Leave, turnVars
  <2> QED
    BY <1>2, <2>1, <2>2, <2>3, <2>4, <2>5, <2>6 DEF Next
<1>3. NoChangeLost /\ UNCHANGED vars => NoChangeLost'
  BY DEF NoChangeLost, vars, turnVars, eventVars
<1> QED
  BY <1>1, <1>2, <1>3, PTL DEF Spec
=============================================================================
