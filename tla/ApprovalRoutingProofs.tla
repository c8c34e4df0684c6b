------------------------ MODULE ApprovalRoutingProofs ------------------------
(***************************************************************************)
(* Theorems about ApprovalRouting, for every set of users, records and     *)
(* handlers in flight, every route and every bound.                        *)
(***************************************************************************)
EXTENDS ApprovalRouting, FiniteSetTheorems, WellFoundedInduction, TLAPS

USE DEF Requests, Routes

-----------------------------------------------------------------------------
(***************************************************************************)
(* Typing                                                                  *)
(***************************************************************************)
\* While one is left, the next request to be inserted is an unused one.
LEMMA FreshRequestUnused ==
    ASSUME RequestsLeft
    PROVE  FreshRequest \in Requests /\ request[FreshRequest].status = "unused"
  BY DEF RequestsLeft, FreshRequest

\* While one is left, the next route to be inserted is an unused one.
LEMMA FreshRouteUnused ==
    ASSUME RoutesLeft
    PROVE  FreshRoute \in Routes /\ route[FreshRoute].status = "unused"
  BY DEF RoutesLeft, FreshRoute

\* A request as it is inserted is a request row.
LEMMA NewRequestType ==
    ASSUME NEW r \in Records \cup {Nobody}, NEW u \in Users \cup {Nobody}, NEW n \in Nat
    PROVE  NewRequest(r, u, n) \in RequestRow
  BY DEF NewRequest, RequestRow, RequestStatus

\* A request nobody has raised is a request row.
LEMMA UnusedRequestType == UnusedRequest \in RequestRow
  BY DEF UnusedRequest, RequestRow, RequestStatus

\* A request stays a request row when a vote is written to it.
LEMMA VotedType ==
    ASSUME TypeOK, NEW h \in Handler, h.op = "decide"
    PROVE  Voted(h) \in RequestRow
  <1>1. h.on \in Requests /\ h.by \in Users
    BY DEF Handler
  <1>2. request[h.on] \in RequestRow
    BY <1>1 DEF TypeOK
  <1>3. QED
    BY <1>1, <1>2 DEF Voted, RequestRow, RequestStatus

\* A record stays a record row when its state is set.
LEMMA MovedType ==
    ASSUME NEW row \in RecordRow, NEW target \in RecordStates, NEW u \in Users,
           NEW q \in 0..MaxRequests
    PROVE  Moved(row, target, u, q) \in RecordRow
  BY DEF Moved, RecordRow, RecordStates

\* Writing an outcome back leaves every record a record row.
LEMMA WriteBackType ==
    ASSUME TypeOK, NEW r, NEW approved \in BOOLEAN, NEW u \in Users, NEW q \in 0..MaxRequests,
           WriteBack(r, approved, u, q)
    PROVE  record' \in [Records -> RecordRow]
  <1>1. CASE r \notin Records
    BY <1>1 DEF TypeOK, WriteBack
  <1>2. CASE r \in Records
    <2>1. record[r] \in RecordRow
      BY <1>2 DEF TypeOK
    <2>2. WriteBackTarget(record[r].state, approved) \in RecordStates
      BY <2>1 DEF WriteBackTarget, RecordRow, RecordStates
    <2>3. QED
      BY <2>1, <2>2, MovedType DEF TypeOK, WriteBack
  <1>3. QED
    BY <1>1, <1>2

\* A route that starts inserts a request row and a route row.
LEMMA StartRouteType ==
    ASSUME TypeOK, NEW r \in Records, NEW u \in Users, StartRoute(r, u)
    PROVE  request' \in [Requests -> RequestRow] /\ route' \in [Routes -> RouteRow]
  <1>1. FreshRequest \in Requests /\ FreshRoute \in Routes
    BY FreshRequestUnused, FreshRouteUnused DEF StartRoute
  <1>2. Required[1] \in Nat
    BY RouteAssumption DEF Stages
  <1>3. FirstStageOpen(FreshRequest) \in [Stages -> StepRow]
    BY <1>1, BoundAssumption DEF FirstStageOpen, StepRow, StepStatus
  <1>4. QED
    BY <1>1, <1>2, <1>3, NewRequestType DEF StartRoute, TypeOK, RouteRow, RouteStatus

\* Before anything has happened every row has its shape.
LEMMA InitType == Init => TypeOK
  <1> SUFFICES ASSUME Init PROVE TypeOK
    OBVIOUS
  <1>1. record \in [Records -> RecordRow]
    BY BoundAssumption DEF Init, RecordRow, RecordStates
  <1>2. request \in [Requests -> RequestRow]
    BY UnusedRequestType DEF Init
  <1>3. route \in [Routes -> RouteRow]
    BY BoundAssumption DEF Init, UnusedRoute, RouteRow, RouteStatus, StepRow, StepStatus
  <1>4. inflight \in [Slots -> Handler]
    BY DEF Init, Idle, Handler
  <1>5. QED
    BY <1>1, <1>2, <1>3, <1>4 DEF TypeOK, Init

\* A load puts a handler in its slot and touches no row.
LEMMA LoadType ==
    ASSUME TypeOK, NEW s \in Slots, NEW u \in Users, Load(s, u)
    PROVE  TypeOK'
  <1>1. ASSUME NEW h \in Handler, Loaded(s, h)
        PROVE  TypeOK'
    BY <1>1 DEF TypeOK, Loaded
  <1>2. ASSUME NEW q \in Requests, NEW yes \in BOOLEAN, LoadDecision(s, u, q, yes)
        PROVE  TypeOK'
    <2>1. request[q].approvers \in SUBSET Users
      BY DEF TypeOK, RequestRow
    <2>2. [op |-> "decide", by |-> u, on |-> q, yes |-> yes, saw |-> request[q].approvers] \in Handler
      BY <2>1 DEF Handler
    <2>3. QED
      BY <1>1, <1>2, <2>2 DEF LoadDecision
  <1>3. ASSUME NEW q \in Requests, NEW i \in Routes
        PROVE  Cancelling(u, q, i) \in Handler /\ Cancelling(u, 0, i) \in Handler
    <2>1. Undecided(route[i].steps) \in SUBSET Stages
      BY DEF Undecided
    <2>2. QED
      BY <2>1, BoundAssumption DEF Cancelling, Handler
  <1>4. ASSUME NEW q \in Requests, LoadCancel(s, u, q)
        PROVE  TypeOK'
    <2>1. [op |-> "cancel", by |-> u, on |-> q, route |-> 0,
           openSteps |-> {}, openRequests |-> {}] \in Handler
      BY BoundAssumption DEF Handler
    <2>2. \A p \in StageOf(q) : p[1] \in Routes
      BY DEF StageOf
    <2>3. QED
      BY <1>1, <1>3, <1>4, <2>1, <2>2 DEF LoadCancel
  <1>5. ASSUME NEW i \in Routes, LoadCancelRoute(s, u, i)
        PROVE  TypeOK'
    <2>1. Cancelling(u, 0, i) \in Handler
      <3>1. Undecided(route[i].steps) \in SUBSET Stages
        BY DEF Undecided
      <3>2. QED
        BY <3>1, BoundAssumption DEF Cancelling, Handler
    <2>2. QED
      BY <1>1, <1>5, <2>1 DEF LoadCancelRoute
  <1>6. ASSUME NEW r \in Records, NEW a \in DOMAIN Transitions, LoadTransition(s, u, r, a)
        PROVE  TypeOK'
    <2>1. [op |-> a, by |-> u, on |-> r, starts |-> (a = "submit" /\ WillStart(r))] \in Handler
      BY DEF Handler, Transitions
    <2>2. QED
      BY <1>1, <1>6, <2>1 DEF LoadTransition
  <1>7. ASSUME NEW r \in Records, LoadStart(s, u, r)
        PROVE  TypeOK'
    <2>1. [op |-> "start", by |-> u, on |-> r, starts |-> TRUE] \in Handler
      BY DEF Handler
    <2>2. QED
      BY <1>1, <1>7, <2>1 DEF LoadStart
  <1>8. QED
    BY <1>2, <1>4, <1>5, <1>6, <1>7 DEF Load

\* A handler that ends leaves its slot idle.
LEMMA DoneType ==
    ASSUME TypeOK, NEW s \in Slots, Done(s)
    PROVE  inflight' \in [Slots -> Handler]
  BY DEF TypeOK, Done, Idle, Handler

\* What waits on a request is a stage of a route.
LEMMA StageOfType ==
    ASSUME NEW q, NEW p \in StageOf(q)
    PROVE  p[1] \in Routes /\ p[2] \in Stages /\ p = <<p[1], p[2]>>
  BY DEF StageOf

\* The steps of a route, one by one.
LEMMA StepsType ==
    ASSUME TypeOK, NEW i \in Routes
    PROVE  /\ route[i] \in RouteRow
           /\ route[i].steps \in [Stages -> StepRow]
           /\ route[i].about \in Records \cup {Nobody}
           /\ route[i].startedBy \in Users \cup {Nobody}
  BY DEF TypeOK, RouteRow

\* Deciding a request, up to what each outcome does to the route and the record.
LEMMA DecidingType ==
    ASSUME TypeOK, NEW s \in Slots, Deciding(s)
    PROVE  /\ inflight[s] \in Handler
           /\ inflight[s].on \in Requests
           /\ inflight[s].by \in Users
           /\ inflight[s].on \in 0..MaxRequests
           /\ Voted(inflight[s]) \in RequestRow
           /\ enabled' \in BOOLEAN
           /\ inflight' \in [Slots -> Handler]
  <1>1. inflight[s] \in Handler /\ inflight[s].op = "decide"
    BY DEF TypeOK, Deciding
  <1>2. inflight[s].on \in Requests /\ inflight[s].by \in Users
    BY <1>1 DEF Handler
  <1>3. QED
    BY <1>1, <1>2, VotedType, DoneType, BoundAssumption DEF Deciding, TypeOK

\* A vote that does not decide keeps every row's shape.
LEMMA PartialVoteType ==
    ASSUME TypeOK, NEW s \in Slots, PartialVote(s)
    PROVE  TypeOK'
  <1>1. Deciding(s)
    BY DEF PartialVote
  <1>2. QED
    BY <1>1, DecidingType DEF PartialVote, TypeOK

\* So does a decision on a request that is no stage.
LEMMA DecideAloneType ==
    ASSUME TypeOK, NEW s \in Slots, DecideAlone(s)
    PROVE  TypeOK'
  <1> DEFINE h == inflight[s]
  <1>1. Deciding(s)
    BY DEF DecideAlone
  <1>2. h.yes \in BOOLEAN
    BY <1>1, DecidingType DEF Deciding, Handler
  <1>3. record' \in [Records -> RecordRow]
    BY <1>1, <1>2, DecidingType, WriteBackType DEF DecideAlone
  <1>4. request' \in [Requests -> RequestRow]
    BY <1>1, DecidingType DEF DecideAlone, TypeOK
  <1>5. QED
    BY <1>1, <1>3, <1>4, DecidingType DEF DecideAlone, TypeOK

\* So does the rejection of a stage.
LEMMA RejectStageType ==
    ASSUME TypeOK, NEW s \in Slots, RejectStage(s)
    PROVE  TypeOK'
  <1> DEFINE h == inflight[s]
  <1>1. Deciding(s)
    BY DEF RejectStage
  <1>2. PICK p \in StageOf(h.on) :
           /\ route' = [route EXCEPT
                ![p[1]].status = "rejected",
                ![p[1]].steps = [j \in Stages |->
                    IF j = p[2] THEN [@[j] EXCEPT !.status = "rejected"]
                    ELSE IF @[j].status = "pending" THEN [@[j] EXCEPT !.status = "skipped"]
                    ELSE @[j]]]
           /\ WriteBack(route[p[1]].about, FALSE, h.by, h.on)
    BY DEF RejectStage
  <1>3. p[1] \in Routes /\ p[2] \in Stages
    BY StageOfType
  <1> DEFINE steps == route[p[1]].steps
             after == [j \in Stages |->
                    IF j = p[2] THEN [steps[j] EXCEPT !.status = "rejected"]
                    ELSE IF steps[j].status = "pending" THEN [steps[j] EXCEPT !.status = "skipped"]
                    ELSE steps[j]]
  <1>4. after \in [Stages -> StepRow]
    BY <1>3, StepsType DEF StepRow, StepStatus
  <1>5. route' \in [Routes -> RouteRow]
    <2>1. [route[p[1]] EXCEPT !.status = "rejected", !.steps = after] \in RouteRow
      BY <1>3, <1>4, StepsType DEF RouteRow, RouteStatus
    <2>2. route' = [route EXCEPT ![p[1]] =
                      [route[p[1]] EXCEPT !.status = "rejected", !.steps = after]]
      BY <1>2, <1>3, StepsType DEF RouteRow, TypeOK
    <2>3. QED
      BY <2>1, <2>2 DEF TypeOK
  <1>6. record' \in [Records -> RecordRow]
    BY <1>1, <1>2, DecidingType, WriteBackType
  <1>7. request' \in [Requests -> RequestRow]
    BY <1>1, DecidingType DEF RejectStage, TypeOK
  <1>8. QED
    BY <1>1, <1>5, <1>6, <1>7, DecidingType DEF TypeOK

\* A set of stages that is not empty has a least one: the current step exists.
LEMMA LeastUndecided ==
    ASSUME NEW steps, Undecided(steps) # {}
    PROVE  \E k \in Undecided(steps) : \A j \in Undecided(steps) : k <= j
  <1> DEFINE Less == OpToRel(<, Nat)
  <1>1. Undecided(steps) \subseteq Nat
    BY RouteAssumption DEF Undecided, Stages
  <1>2. IsWellFoundedOn(Less, Nat)
    BY NatLessThanWellFounded
  <1>3. PICK k \in Undecided(steps) : \A j \in Undecided(steps) : ~ (<<j, k>> \in Less)
    <2> HIDE DEF Less
    <2>1. QED
      BY <1>1, <1>2, WFMin
  <1>4. \A j \in Undecided(steps) : ~ (j < k)
    BY <1>1, <1>3 DEF OpToRel
  <1>5. QED
    BY <1>1, <1>4

\* The steps of a route with one of them approved.
LEMMA ApprovedType ==
    ASSUME TypeOK, NEW i \in Routes, NEW k \in Stages
    PROVE  Approved(i, k) \in [Stages -> StepRow]
  <1>1. route[i].steps \in [Stages -> StepRow]
    BY StepsType
  <1>2. [route[i].steps[k] EXCEPT !.status = "approved"] \in StepRow
    BY <1>1 DEF StepRow, StepStatus
  <1>3. QED
    BY <1>1, <1>2 DEF Approved

\* A route row keeps its shape under new steps and a new status.
LEMMA RouteUpdateType ==
    ASSUME TypeOK, NEW i \in Routes, NEW status \in RouteStatus,
           NEW steps \in [Stages -> StepRow]
    PROVE  /\ [route EXCEPT ![i].status = status, ![i].steps = steps] \in [Routes -> RouteRow]
           /\ [route EXCEPT ![i].steps = steps] \in [Routes -> RouteRow]
  <1>1. /\ [route[i] EXCEPT !.status = status, !.steps = steps] \in RouteRow
        /\ [route[i] EXCEPT !.steps = steps] \in RouteRow
    BY StepsType DEF RouteRow
  <1>2. route \in [Routes -> RouteRow]
    BY DEF TypeOK
  <1>3. QED
    BY <1>1, <1>2

\* Approving a stage and opening the next keeps every row's shape.
LEMMA ApproveStageType ==
    ASSUME TypeOK, NEW s \in Slots, ApproveStage(s)
    PROVE  TypeOK'
  <1> DEFINE h == inflight[s]
  <1>1. Deciding(s) /\ RequestsLeft
    BY DEF ApproveStage
  <1>2. PICK p \in StageOf(h.on) :
           LET steps == Approved(p[1], p[2])
               next == CurrentStep(steps)
           IN /\ Undecided(steps) # {}
              /\ route' = [route EXCEPT ![p[1]].steps =
                    [steps EXCEPT ![next] = [status |-> "in_progress", request |-> FreshRequest]]]
              /\ request' = [request EXCEPT
                   ![h.on] = Voted(h),
                   ![FreshRequest] = NewRequest(route[p[1]].about, route[p[1]].startedBy, Required[next])]
    BY DEF ApproveStage
  <1> DEFINE i == p[1]
             steps == Approved(i, p[2])
             next == CurrentStep(steps)
  <1>3. i \in Routes /\ p[2] \in Stages
    BY StageOfType
  <1>4. steps \in [Stages -> StepRow]
    BY <1>3, ApprovedType
  <1>5. FreshRequest \in Requests /\ FreshRequest \in 0..MaxRequests
    BY <1>1, FreshRequestUnused, BoundAssumption
  <1>6. [status |-> "in_progress", request |-> FreshRequest] \in StepRow
    BY <1>5 DEF StepRow, StepStatus
  <1>7. [steps EXCEPT ![next] = [status |-> "in_progress", request |-> FreshRequest]]
           \in [Stages -> StepRow]
    BY <1>4, <1>6
  <1>8. next \in Stages
    <2>1. \E k \in Undecided(steps) : \A j \in Undecided(steps) : k <= j
      BY <1>2, LeastUndecided
    <2>2. QED
      BY <2>1 DEF CurrentStep, Undecided
  <1>9. NewRequest(route[i].about, route[i].startedBy, Required[next]) \in RequestRow
    BY <1>3, <1>8, StepsType, NewRequestType, RouteAssumption
  <1>10. request' \in [Requests -> RequestRow]
    BY <1>1, <1>2, <1>9, DecidingType DEF TypeOK
  <1>11. route' \in [Routes -> RouteRow]
    BY <1>2, <1>3, <1>7, RouteUpdateType DEF RouteStatus
  <1>12. record' \in [Records -> RecordRow]
    BY DEF ApproveStage, TypeOK
  <1>13. QED
    BY <1>1, <1>10, <1>11, <1>12, DecidingType DEF TypeOK

\* So does approving the last stage.
LEMMA FinishRouteType ==
    ASSUME TypeOK, NEW s \in Slots, FinishRoute(s)
    PROVE  TypeOK'
  <1> DEFINE h == inflight[s]
  <1>1. Deciding(s)
    BY DEF FinishRoute
  <1>2. PICK p \in StageOf(h.on) :
           /\ route' = [route EXCEPT ![p[1]].status = "approved",
                                     ![p[1]].steps = Approved(p[1], p[2])]
           /\ WriteBack(route[p[1]].about, TRUE, h.by, h.on)
    BY DEF FinishRoute
  <1>3. p[1] \in Routes /\ p[2] \in Stages
    BY StageOfType
  <1>4. route' \in [Routes -> RouteRow]
    BY <1>2, <1>3, ApprovedType, RouteUpdateType DEF RouteStatus
  <1>5. record' \in [Records -> RecordRow]
    BY <1>1, <1>2, DecidingType, WriteBackType
  <1>6. request' \in [Requests -> RequestRow]
    BY <1>1, DecidingType DEF FinishRoute, TypeOK
  <1>7. QED
    BY <1>1, <1>4, <1>5, <1>6, DecidingType DEF TypeOK

\* So does withdrawing a request or a route.
LEMMA CancelType ==
    ASSUME TypeOK, NEW s \in Slots, Cancel(s)
    PROVE  TypeOK'
  <1> DEFINE h == inflight[s]
             gone == h.openRequests \cup ({h.on} \ {0})
             r == IF h.route = 0 THEN request[h.on].about ELSE route[h.route].about
             after == [k \in Stages |-> IF k \in h.openSteps
                          THEN [route[h.route].steps[k] EXCEPT !.status = "skipped"]
                          ELSE route[h.route].steps[k]]
  <1>1. h \in Handler /\ h.op = "cancel"
    BY DEF TypeOK, Cancel
  <1>2. h.by \in Users /\ h.on \in 0..MaxRequests /\ h.route \in 0..MaxRoutes
    BY <1>1, BoundAssumption DEF Handler
  <1>3. request' \in [Requests -> RequestRow]
    <2>1. \A q \in Requests : [request[q] EXCEPT !.status = "cancelled"] \in RequestRow
      BY DEF TypeOK, RequestRow, RequestStatus
    <2>2. request' = [q \in Requests |->
              IF q \in gone THEN [request[q] EXCEPT !.status = "cancelled"] ELSE request[q]]
      BY DEF Cancel
    <2>3. QED
      BY <2>1, <2>2 DEF TypeOK
  <1>4. route' \in [Routes -> RouteRow]
    <2>1. CASE h.route = 0
      BY <2>1 DEF Cancel, TypeOK
    <2>2. CASE h.route # 0
      <3>1. h.route \in Routes
        BY <1>2, <2>2, BoundAssumption
      <3>2. after \in [Stages -> StepRow]
        BY <3>1, StepsType DEF StepRow, StepStatus
      <3>3. [route[h.route] EXCEPT !.status = "cancelled", !.steps = after] \in RouteRow
        BY <3>1, <3>2, StepsType DEF RouteRow, RouteStatus
      <3>4. route' = [route EXCEPT ![h.route] =
                        [route[h.route] EXCEPT !.status = "cancelled", !.steps = after]]
        BY <2>2, <3>1, StepsType DEF Cancel, RouteRow, TypeOK
      <3>5. QED
        BY <3>3, <3>4 DEF TypeOK
    <2>3. QED
      BY <2>1, <2>2
  <1>5. record' \in [Records -> RecordRow]
    BY <1>2, WriteBackType DEF Cancel
  <1>6. inflight' \in [Slots -> Handler]
    BY DoneType DEF Cancel
  <1>7. QED
    BY <1>3, <1>4, <1>5, <1>6 DEF TypeOK, Cancel

\* So does a move of the record's lifecycle.
LEMMA TransitionType ==
    ASSUME TypeOK, NEW s \in Slots, Transition(s)
    PROVE  TypeOK'
  <1> DEFINE h == inflight[s]
             row == Moved(record[h.on], Transitions[h.op].to, h.by, 0)
  <1>1. h \in Handler /\ h.op \in DOMAIN Transitions
    BY DEF TypeOK, Transition
  <1>2. h.on \in Records /\ h.by \in Users
    BY <1>1 DEF Handler, Transitions
  <1>3. Transitions[h.op].to \in RecordStates
    BY <1>1 DEF Transitions, RecordStates
  <1>4. row \in RecordRow
    BY <1>2, <1>3, MovedType, BoundAssumption DEF TypeOK
  <1>5. record' \in [Records -> RecordRow]
    BY <1>2, <1>4 DEF Transition, TypeOK
  <1>6. request' \in [Requests -> RequestRow] /\ route' \in [Routes -> RouteRow]
    <2>1. CASE h.starts
      BY <1>2, <2>1, StartRouteType DEF Transition
    <2>2. CASE ~h.starts
      BY <2>2 DEF Transition, TypeOK
    <2>3. QED
      BY <2>1, <2>2
  <1>7. inflight' \in [Slots -> Handler]
    BY DoneType DEF Transition
  <1>8. QED
    BY <1>5, <1>6, <1>7 DEF Transition, TypeOK

\* So does starting a route by hand.
LEMMA StartType ==
    ASSUME TypeOK, NEW s \in Slots, Start(s)
    PROVE  TypeOK'
  <1>1. inflight[s].on \in Records /\ inflight[s].by \in Users
    BY DEF TypeOK, Start, Handler
  <1>2. request' \in [Requests -> RequestRow] /\ route' \in [Routes -> RouteRow]
    BY <1>1, StartRouteType DEF Start
  <1>3. inflight' \in [Slots -> Handler]
    BY DoneType DEF Start
  <1>4. QED
    BY <1>2, <1>3 DEF Start, TypeOK

\* So does deleting a request.
LEMMA DeleteRequestType ==
    ASSUME TypeOK, NEW u \in Users, NEW q \in Requests, DeleteRequest(u, q)
    PROVE  TypeOK'
  <1>1. [UnusedRequest EXCEPT !.status = "deleted"] \in RequestRow
    BY UnusedRequestType DEF RequestRow, RequestStatus
  <1>2. request' \in [Requests -> RequestRow]
    BY <1>1 DEF DeleteRequest, TypeOK
  <1>3. ASSUME NEW i \in Routes
        PROVE  [route[i] EXCEPT !.steps =
                  [k \in Stages |-> IF @[k].request = q THEN [@[k] EXCEPT !.request = 0]
                                    ELSE @[k]]] \in RouteRow
    <2> DEFINE after == [k \in Stages |-> IF route[i].steps[k].request = q
                            THEN [route[i].steps[k] EXCEPT !.request = 0]
                            ELSE route[i].steps[k]]
    <2>1. after \in [Stages -> StepRow]
      BY StepsType, BoundAssumption DEF StepRow
    <2>2. QED
      BY <2>1, StepsType DEF RouteRow
  <1>4. route' \in [Routes -> RouteRow]
    BY <1>3 DEF DeleteRequest
  <1>5. QED
    BY <1>2, <1>4 DEF DeleteRequest, TypeOK

\* Every row keeps its shape under every step.
LEMMA NextType ==
    ASSUME TypeOK, [Next]_vars
    PROVE  TypeOK'
  <1>1. ASSUME NEW s \in Slots, NEW u \in Users, Load(s, u)
        PROVE  TypeOK'
    BY <1>1, LoadType
  <1>2. ASSUME NEW s \in Slots, Commit(s)
        PROVE  TypeOK'
    BY <1>2, PartialVoteType, DecideAloneType, RejectStageType, ApproveStageType,
       FinishRouteType, CancelType, TransitionType, StartType DEF Commit
  <1>3. ASSUME NEW s \in Slots, Rollback(s)
        PROVE  TypeOK'
    BY <1>3, DoneType DEF Rollback, TypeOK
  <1>4. ASSUME NEW u \in Users, NEW r \in Records, NEW n \in ByHand, RaiseRequest(u, r, n)
        PROVE  TypeOK'
    <2>1. NewRequest(r, u, n) \in RequestRow
      BY NewRequestType, RouteAssumption
    <2>2. QED
      BY <1>4, <2>1 DEF RaiseRequest, TypeOK
  <1>5. ASSUME NEW u \in Users, NEW q \in Requests, DeleteRequest(u, q)
        PROVE  TypeOK'
    BY <1>5, DeleteRequestType
  <1>6. CASE SwitchDefinition
    BY <1>6 DEF SwitchDefinition, TypeOK
  <1>7. CASE UNCHANGED vars
    BY <1>7 DEF vars, TypeOK
  <1>8. QED
    BY <1>1, <1>2, <1>3, <1>4, <1>5, <1>6, <1>7 DEF Next

\* Whatever the handlers in flight do, every row keeps the shape of its table:
\* no status outside its enumeration, no vote of a user who is not one.
THEOREM TypeCorrect == Spec => []TypeOK
  <1>1. Init => TypeOK
    BY InitType
  <1>2. TypeOK /\ [Next]_vars => TypeOK'
    BY NextType
  <1>3. QED
    BY <1>1, <1>2, PTL DEF Spec

-----------------------------------------------------------------------------
(***************************************************************************)
(* The quorum of a decision                                                *)
(***************************************************************************)
\* The votes a request has recorded: never its maker's, and enough once granted.
VoteSound(q) ==
    /\ SoD => request[q].maker \notin request[q].approvers
    /\ request[q].status = "approved" =>
           Cardinality(request[q].approvers) >= request[q].required

VotesSound == \A q \in Requests : VoteSound(q)

\* A decision in flight counted votes that are still recorded, and is not the maker's.
DecisionSound(s) ==
    inflight[s].op = "decide" =>
        LET h == inflight[s]  row == request[h.on] IN
        /\ row.status # "unused"
        /\ row.status # "deleted" =>
               /\ h.saw \subseteq row.approvers
               /\ SoD => h.by # row.maker

DecisionsSound == \A s \in Slots : DecisionSound(s)

\* A stage points to a request about its route's own record.
StepSound(i, k) ==
    LET q == route[i].steps[k].request IN
    q # 0 => /\ request[q].status \notin {"unused", "deleted"}
             /\ request[q].about = route[i].about

StepsSound == \A i \in Routes, k \in Stages : StepSound(i, k)

\* An approval taken through the inbox has its quorum behind it.
ApprovalSound(r) ==
    record[r].by # 0 =>
        LET row == request[record[r].by] IN
        /\ row.status # "unused"
        /\ row.status # "deleted" => row.about = r /\ Quorum(record[r].by)

ApprovalsSound == \A r \in Records : ApprovalSound(r)

QuorumInv == TypeOK /\ VotesSound /\ DecisionsSound /\ StepsSound /\ ApprovalsSound

\* What a step that does not delete request q does to it at most: once raised it
\* keeps its record, its maker and its quorum, and no vote is withdrawn.
Kept(q) ==
    /\ request[q].status = "deleted" => request'[q].status = "deleted"
    /\ request[q].status \notin {"unused", "deleted"} =>
          /\ request'[q].status \notin {"unused", "deleted"}
          /\ request'[q].about = request[q].about
          /\ request'[q].maker = request[q].maker
          /\ request'[q].required = request[q].required
          /\ request[q].approvers \subseteq request'[q].approvers

\* A quorum is not lost when votes are added.
LEMMA MoreVotes ==
    ASSUME NEW votes \in SUBSET Users, NEW more \in SUBSET Users, votes \subseteq more
    PROVE  /\ Cardinality(votes) \in Nat
           /\ Cardinality(more) \in Nat
           /\ Cardinality(votes) <= Cardinality(more)
  <1>1. IsFiniteSet(votes) /\ IsFiniteSet(more)
    BY SetsAssumption, FS_Subset
  <1>2. Cardinality(votes) \in Nat /\ Cardinality(more) \in Nat
    BY <1>1, FS_CardinalityType
  <1>3. QED
    BY <1>1, <1>2, FS_Subset

\* A request a step leaves alone has the votes it had.
LEMMA UntouchedRow ==
    ASSUME VotesSound, NEW q \in Requests, request'[q] = request[q]
    PROVE  Kept(q) /\ VoteSound(q)'
  BY DEF Kept, VotesSound, VoteSound

\* A request being inserted has no vote to lose.
LEMMA NewRow ==
    ASSUME NEW q \in Requests, request[q].status = "unused",
           NEW r, NEW u, NEW n, request'[q] = NewRequest(r, u, n)
    PROVE  Kept(q) /\ VoteSound(q)'
  BY DEF Kept, VoteSound, NewRequest

\* The vote of a decision in flight: recorded on top of those it counted.
LEMMA VotedRow ==
    ASSUME TypeOK, VotesSound, DecisionsSound, NEW s \in Slots, Deciding(s),
           NEW q \in Requests, inflight[s].on = q, request'[q] = Voted(inflight[s])
    PROVE  /\ request[q].status \notin {"unused", "deleted"}
           /\ Kept(q)
           /\ VoteSound(q)'
           /\ inflight[s].yes /\ Granted(inflight[s]) => Quorum(q)'
  <1> DEFINE h == inflight[s]
             row == request[q]
  <1>1. /\ h \in Handler /\ h.op = "decide"
        /\ h.on = q /\ h.by \in Users
    BY DecidingType DEF Deciding
  <1>2. h.saw \in SUBSET Users /\ h.yes \in BOOLEAN
    BY <1>1 DEF Handler
  <1>3. /\ row.approvers \in SUBSET Users
        /\ row.required \in Nat
        /\ row.status \in RequestStatus
        /\ row = [status |-> row.status, about |-> row.about, maker |-> row.maker,
                  required |-> row.required, approvers |-> row.approvers,
                  rejecters |-> row.rejecters]
    BY <1>1 DEF TypeOK, RequestRow
  <1>4. /\ row.status \notin {"unused", "deleted"}
        /\ h.saw \subseteq row.approvers
        /\ SoD => h.by # row.maker
    BY <1>1 DEF DecisionsSound, DecisionSound, Deciding
  <1>5. /\ request'[q].about = row.about
        /\ request'[q].maker = row.maker
        /\ request'[q].required = row.required
        /\ request'[q].approvers = IF h.yes THEN row.approvers \cup {h.by} ELSE row.approvers
        /\ request'[q].status = IF ~h.yes THEN "rejected"
                                   ELSE IF Granted(h) THEN "approved" ELSE row.status
    BY <1>3 DEF Voted
  <1>6. h.yes /\ Granted(h) => Cardinality(row.approvers \cup {h.by}) >= row.required
    <2>1. Cardinality(h.saw \cup {h.by}) <= Cardinality(row.approvers \cup {h.by})
      BY <1>1, <1>2, <1>3, <1>4, MoreVotes
    <2>2. /\ Cardinality(h.saw \cup {h.by}) \in Nat
          /\ Cardinality(row.approvers \cup {h.by}) \in Nat
      BY <1>1, <1>2, <1>3, MoreVotes
    <2>3. QED
      BY <1>3, <2>1, <2>2 DEF Granted
  <1>7. row.status = "approved" /\ h.yes =>
            Cardinality(row.approvers \cup {h.by}) >= row.required
    <2>1. /\ Cardinality(row.approvers) <= Cardinality(row.approvers \cup {h.by})
          /\ Cardinality(row.approvers) \in Nat
          /\ Cardinality(row.approvers \cup {h.by}) \in Nat
      BY <1>1, <1>3, MoreVotes
    <2>2. QED
      BY <1>1, <1>3, <2>1 DEF VotesSound, VoteSound
  <1>8. SoD => row.maker \notin request'[q].approvers
    BY <1>1, <1>4, <1>5 DEF VotesSound, VoteSound
  <1>9. Kept(q)
    BY <1>4, <1>5 DEF Kept
  <1>10. VoteSound(q)'
    BY <1>2, <1>5, <1>6, <1>7, <1>8 DEF VoteSound
  <1>11. h.yes /\ Granted(h) => Quorum(q)'
    BY <1>5, <1>6, <1>8 DEF Quorum
  <1>12. QED
    BY <1>1, <1>4, <1>9, <1>10, <1>11

KeptOrDeleted(q) == Kept(q) \/ request'[q].status = "deleted"

\* A decision in flight counts no vote that has gone, whoever commits.
LEMMA DecisionKept ==
    ASSUME TypeOK, DecisionsSound, NEW s \in Slots, inflight'[s] \in {inflight[s], Idle},
           \A q \in Requests : KeptOrDeleted(q)
    PROVE  DecisionSound(s)'
  <1>1. CASE inflight'[s] = Idle
    BY <1>1 DEF DecisionSound, Idle
  <1>2. CASE inflight'[s] = inflight[s] /\ inflight[s].op = "decide"
    <2>1. inflight[s].on \in Requests
      BY <1>2 DEF TypeOK, Handler
    <2>2. PICK q \in Requests : inflight[s].on = q
      BY <2>1
    <2>3. KeptOrDeleted(q) /\ DecisionSound(s)
      BY DEF DecisionsSound
    <2>4. QED
      BY <1>2, <2>2, <2>3 DEF DecisionSound, KeptOrDeleted, Kept
  <1>3. QED
    BY <1>1, <1>2 DEF DecisionSound

\* A request that keeps its votes keeps its quorum.
LEMMA QuorumKept ==
    ASSUME TypeOK, TypeOK', NEW q \in Requests, Quorum(q), Kept(q), VoteSound(q)',
           request[q].status \notin {"unused", "deleted"}
    PROVE  Quorum(q)'
  <1>1. /\ request[q].approvers \in SUBSET Users /\ request'[q].approvers \in SUBSET Users
        /\ request[q].required \in Nat
    BY DEF TypeOK, RequestRow
  <1>2. /\ request[q].approvers \subseteq request'[q].approvers
        /\ request'[q].required = request[q].required
    BY DEF Kept
  <1>3. Cardinality(request'[q].approvers) >= request'[q].required
    BY <1>1, <1>2, MoreVotes DEF Quorum
  <1>4. QED
    BY <1>3 DEF Quorum, VoteSound

\* An approved record keeps the request it was approved by.
LEMMA ApprovalKept ==
    ASSUME TypeOK, TypeOK', ApprovalsSound, VotesSound', NEW r \in Records,
           record'[r].by = record[r].by, \A q \in Requests : KeptOrDeleted(q)
    PROVE  ApprovalSound(r)'
  <1>1. CASE record[r].by = 0
    BY <1>1 DEF ApprovalSound
  <1>2. CASE record[r].by # 0
    <2>1. record[r].by \in Requests
      BY <1>2, BoundAssumption DEF TypeOK, RecordRow
    <2>2. PICK q \in Requests : record[r].by = q
      BY <2>1
    <2>3. /\ request[q].status # "unused"
          /\ request[q].status # "deleted" => request[q].about = r /\ Quorum(q)
      BY <1>2, <2>2 DEF ApprovalsSound, ApprovalSound
    <2>4. CASE request[q].status = "deleted"
      BY <2>2, <2>4 DEF ApprovalSound, KeptOrDeleted, Kept
    <2>5. CASE request'[q].status = "deleted"
      BY <2>2, <2>5 DEF ApprovalSound
    <2>6. CASE request[q].status # "deleted" /\ request'[q].status # "deleted"
      <3>1. Kept(q) /\ VoteSound(q)'
        BY <2>6 DEF KeptOrDeleted, VotesSound
      <3>2. Quorum(q)'
        BY <2>3, <2>6, <3>1, QuorumKept
      <3>3. request'[q].about = r /\ request'[q].status # "unused"
        BY <2>3, <2>6, <3>1 DEF Kept
      <3>4. QED
        BY <2>2, <3>2, <3>3 DEF ApprovalSound, Quorum
    <2>7. QED
      BY <2>4, <2>5, <2>6
  <1>3. QED
    BY <1>1, <1>2

\* A stage keeps the record its request is about.
LEMMA StepKept ==
    ASSUME TypeOK, StepsSound, NEW i \in Routes, NEW k \in Stages,
           route'[i].about = route[i].about,
           route'[i].steps[k].request \in {0, route[i].steps[k].request},
           \A q \in Requests : Kept(q)
    PROVE  StepSound(i, k)'
  <1>1. CASE route'[i].steps[k].request = 0
    BY <1>1 DEF StepSound
  <1>2. CASE route'[i].steps[k].request # 0
    <2>1. route[i].steps[k].request \in Requests
      BY <1>2, StepsType, BoundAssumption DEF StepRow
    <2>2. PICK q \in Requests : route[i].steps[k].request = q
      BY <2>1
    <2>3. request[q].status \notin {"unused", "deleted"} /\ request[q].about = route[i].about
      BY <1>2, <2>2 DEF StepsSound, StepSound
    <2>4. QED
      BY <1>2, <2>2, <2>3 DEF StepSound, Kept
  <1>3. QED
    BY <1>1, <1>2

\* Writing back a granted request approves its own record only.
LEMMA WriteBackSound ==
    ASSUME TypeOK, TypeOK', ApprovalsSound, VotesSound',
           NEW r0, NEW approved \in BOOLEAN, NEW u, NEW q, WriteBack(r0, approved, u, q),
           \A p \in Requests : Kept(p),
           approved => /\ q \in Requests
                       /\ request'[q].status # "unused"
                       /\ request'[q].about = r0
                       /\ Quorum(q)'
    PROVE  ApprovalsSound'
  <1> DEFINE target == WriteBackTarget(record[r0].state, approved)
  <1> SUFFICES ASSUME NEW r \in Records PROVE ApprovalSound(r)'
    BY DEF ApprovalsSound
  <1>1. \A p \in Requests : KeptOrDeleted(p)
    BY DEF KeptOrDeleted
  <1>2. CASE record'[r].by = record[r].by
    BY <1>1, <1>2, ApprovalKept
  <1>3. CASE record'[r].by # record[r].by
    <2>1. /\ r = r0
          /\ target # record[r0].state
          /\ record'[r] = Moved(record[r], target, u, q)
      BY <1>3 DEF WriteBack, TypeOK
    <2>2. record[r] \in RecordRow
      BY DEF TypeOK
    <2>3. target = "approved" /\ record'[r].by = q
      <3>1. ASSUME target # "approved"
            PROVE  record'[r].by = record[r].by
        <4> HIDE DEF target
        <4>1. QED
          BY <2>1, <2>2, <3>1 DEF Moved, RecordRow
      <3>2. CASE target = "approved"
        <4> HIDE DEF target
        <4>1. QED
          BY <2>1, <2>2, <3>2 DEF Moved, RecordRow
      <3>3. QED
        BY <1>3, <3>1, <3>2
    <2>4. approved
      BY <2>1, <2>3 DEF WriteBackTarget
    <2>5. QED
      BY <2>1, <2>3, <2>4 DEF ApprovalSound, Quorum
  <1>4. QED
    BY <1>2, <1>3

\* Decisions in flight survive the commit of any handler.
LEMMA DoneSound ==
    ASSUME TypeOK, DecisionsSound, NEW s \in Slots, Done(s),
           \A q \in Requests : Kept(q)
    PROVE  DecisionsSound'
  <1> SUFFICES ASSUME NEW t \in Slots PROVE DecisionSound(t)'
    BY DEF DecisionsSound
  <1>1. inflight'[t] \in {inflight[t], Idle}
    BY DEF Done, TypeOK
  <1>2. QED
    BY <1>1, DecisionKept DEF KeptOrDeleted

\* The requests after a vote that opens no other request.
LEMMA VoteSoundEverywhere ==
    ASSUME TypeOK, VotesSound, DecisionsSound, NEW s \in Slots, Deciding(s),
           request' = [request EXCEPT ![inflight[s].on] = Voted(inflight[s])]
    PROVE  VotesSound' /\ \A q \in Requests : Kept(q)
  <1> SUFFICES ASSUME NEW q \in Requests PROVE Kept(q) /\ VoteSound(q)'
    BY DEF VotesSound
  <1>1. CASE q = inflight[s].on
    <2>1. request'[q] = Voted(inflight[s])
      BY <1>1 DEF TypeOK
    <2>2. QED
      BY <1>1, <2>1, VotedRow
  <1>2. CASE q # inflight[s].on
    BY <1>2, UntouchedRow DEF TypeOK
  <1>3. QED
    BY <1>1, <1>2

\* A vote that does not decide keeps the inductive invariant.
LEMMA PartialVoteSound ==
    ASSUME QuorumInv, TypeOK', NEW s \in Slots, PartialVote(s)
    PROVE  QuorumInv'
  <1>1. VotesSound' /\ \A q \in Requests : Kept(q)
    BY VoteSoundEverywhere DEF QuorumInv, PartialVote
  <1>2. DecisionsSound'
    BY <1>1, DoneSound DEF QuorumInv, PartialVote, Deciding
  <1>3. StepsSound'
    BY <1>1, StepKept DEF QuorumInv, PartialVote, StepsSound
  <1>4. ApprovalsSound'
    BY <1>1, ApprovalKept DEF QuorumInv, PartialVote, ApprovalsSound, KeptOrDeleted
  <1>5. QED
    BY <1>1, <1>2, <1>3, <1>4 DEF QuorumInv

\* So does a decision on a request that is no stage.
LEMMA DecideAloneSound ==
    ASSUME QuorumInv, TypeOK', NEW s \in Slots, DecideAlone(s)
    PROVE  QuorumInv'
  <1> DEFINE h == inflight[s]
  <1>1. VotesSound' /\ \A q \in Requests : Kept(q)
    BY VoteSoundEverywhere DEF QuorumInv, DecideAlone
  <1>2. DecisionsSound'
    BY <1>1, DoneSound DEF QuorumInv, DecideAlone, Deciding
  <1>3. StepsSound'
    BY <1>1, StepKept DEF QuorumInv, DecideAlone, StepsSound
  <1>4. PICK q \in Requests : h.on = q
    BY DecidingType DEF QuorumInv, DecideAlone
  <1>5. request'[q] = Voted(h)
    BY <1>4 DEF DecideAlone, QuorumInv, TypeOK
  <1>6. /\ request[q].status \notin {"unused", "deleted"}
        /\ h.yes => Quorum(q)'
    BY <1>4, <1>5, VotedRow DEF QuorumInv, DecideAlone
  <1>7. /\ request'[q].about = request[q].about
        /\ request'[q].status # "unused"
    BY <1>1, <1>6 DEF Kept
  <1>8. h.yes \in BOOLEAN
    BY DecidingType DEF QuorumInv, DecideAlone, Deciding, Handler
  <1>9. WriteBack(request[q].about, h.yes, h.by, q)
    BY <1>4 DEF DecideAlone
  <1>10. ApprovalsSound'
    BY <1>1, <1>6, <1>7, <1>8, <1>9, WriteBackSound DEF QuorumInv
  <1>11. QED
    BY <1>1, <1>2, <1>3, <1>10 DEF QuorumInv

\* So does the rejection of a stage.
LEMMA RejectStageSound ==
    ASSUME QuorumInv, TypeOK', NEW s \in Slots, RejectStage(s)
    PROVE  QuorumInv'
  <1> DEFINE h == inflight[s]
  <1>1. VotesSound' /\ \A q \in Requests : Kept(q)
    BY VoteSoundEverywhere DEF QuorumInv, RejectStage
  <1>2. DecisionsSound'
    BY <1>1, DoneSound DEF QuorumInv, RejectStage, Deciding
  <1>3. PICK p \in StageOf(h.on) :
           /\ route' = [route EXCEPT
                ![p[1]].status = "rejected",
                ![p[1]].steps = [j \in Stages |->
                    IF j = p[2] THEN [@[j] EXCEPT !.status = "rejected"]
                    ELSE IF @[j].status = "pending" THEN [@[j] EXCEPT !.status = "skipped"]
                    ELSE @[j]]]
           /\ WriteBack(route[p[1]].about, FALSE, h.by, h.on)
    BY DEF RejectStage
  <1>4. StepsSound'
    <2> SUFFICES ASSUME NEW i \in Routes, NEW k \in Stages PROVE StepSound(i, k)'
      BY DEF StepsSound
    <2>1. /\ route'[i].about = route[i].about
          /\ route'[i].steps[k].request = route[i].steps[k].request
      <3>1. route[i] \in RouteRow /\ route[i].steps[k] \in StepRow
        BY StepsType DEF QuorumInv
      <3>2. CASE i = p[1]
        BY <1>3, <3>1, <3>2 DEF QuorumInv, TypeOK, RouteRow, StepRow
      <3>3. CASE i # p[1]
        BY <1>3, <3>3 DEF QuorumInv, TypeOK
      <3>4. QED
        BY <3>2, <3>3
    <2>2. QED
      BY <1>1, <2>1, StepKept DEF QuorumInv
  <1>5. ApprovalsSound'
    BY <1>1, <1>3, WriteBackSound DEF QuorumInv
  <1>6. QED
    BY <1>1, <1>2, <1>4, <1>5 DEF QuorumInv

\* So does approving the last stage.
LEMMA FinishRouteSound ==
    ASSUME QuorumInv, TypeOK', NEW s \in Slots, FinishRoute(s)
    PROVE  QuorumInv'
  <1> DEFINE h == inflight[s]
  <1>1. VotesSound' /\ \A q \in Requests : Kept(q)
    BY VoteSoundEverywhere DEF QuorumInv, FinishRoute
  <1>2. DecisionsSound'
    BY <1>1, DoneSound DEF QuorumInv, FinishRoute, Deciding
  <1>3. PICK p \in StageOf(h.on) :
           /\ route' = [route EXCEPT ![p[1]].status = "approved",
                                     ![p[1]].steps = Approved(p[1], p[2])]
           /\ WriteBack(route[p[1]].about, TRUE, h.by, h.on)
    BY DEF FinishRoute
  <1>4. p[1] \in Routes /\ p[2] \in Stages
    BY StageOfType
  <1>5. StepsSound'
    <2> SUFFICES ASSUME NEW i \in Routes, NEW k \in Stages PROVE StepSound(i, k)'
      BY DEF StepsSound
    <2>1. /\ route'[i].about = route[i].about
          /\ route'[i].steps[k].request = route[i].steps[k].request
      <3>1. route[i] \in RouteRow /\ route[i].steps[k] \in StepRow
        BY StepsType DEF QuorumInv
      <3>2. CASE i = p[1]
        BY <1>3, <3>1, <3>2 DEF QuorumInv, TypeOK, RouteRow, StepRow, Approved
      <3>3. CASE i # p[1]
        BY <1>3, <3>3 DEF QuorumInv, TypeOK
      <3>4. QED
        BY <3>2, <3>3
    <2>2. QED
      BY <1>1, <2>1, StepKept DEF QuorumInv
  <1>6. PICK q \in Requests : h.on = q
    BY DecidingType DEF QuorumInv, FinishRoute
  <1>7. /\ request[q].status \notin {"unused", "deleted"}
        /\ Quorum(q)'
    <2>1. request'[q] = Voted(h)
      BY <1>6 DEF FinishRoute, QuorumInv, TypeOK
    <2>2. QED
      BY <1>6, <2>1, VotedRow DEF QuorumInv, FinishRoute
  <1>8. request[q].about = route[p[1]].about
    <2>1. route[p[1]].steps[p[2]].request = q /\ q # 0
      BY <1>6 DEF StageOf
    <2>2. QED
      BY <1>4, <2>1 DEF QuorumInv, StepsSound, StepSound
  <1>9. request'[q].status # "unused" /\ request'[q].about = route[p[1]].about
    BY <1>1, <1>7, <1>8 DEF Kept
  <1>10. ApprovalsSound'
    BY <1>1, <1>3, <1>6, <1>7, <1>9, WriteBackSound DEF QuorumInv
  <1>11. QED
    BY <1>1, <1>2, <1>5, <1>10 DEF QuorumInv

\* So does approving a stage and opening the next.
LEMMA ApproveStageSound ==
    ASSUME QuorumInv, TypeOK', NEW s \in Slots, ApproveStage(s)
    PROVE  QuorumInv'
  <1> DEFINE h == inflight[s]
  <1>1. PICK p \in StageOf(h.on) :
           LET steps == Approved(p[1], p[2])
               next == CurrentStep(steps)
           IN /\ route' = [route EXCEPT ![p[1]].steps =
                    [steps EXCEPT ![next] = [status |-> "in_progress", request |-> FreshRequest]]]
              /\ request' = [request EXCEPT
                   ![h.on] = Voted(h),
                   ![FreshRequest] = NewRequest(route[p[1]].about, route[p[1]].startedBy, Required[next])]
    BY DEF ApproveStage
  <1> DEFINE steps == Approved(p[1], p[2])
             next == CurrentStep(steps)
             new == NewRequest(route[p[1]].about, route[p[1]].startedBy, Required[next])
  <1>2. p[1] \in Routes /\ p[2] \in Stages
    BY StageOfType
  <1>3. PICK q \in Requests : h.on = q
    BY DecidingType DEF QuorumInv, ApproveStage
  <1>4. PICK f \in Requests : FreshRequest = f /\ request[f].status = "unused"
    BY FreshRequestUnused DEF ApproveStage
  <1>5. request[q].status # "unused"
    BY <1>3 DEF QuorumInv, DecisionsSound, DecisionSound, ApproveStage, Deciding
  <1>6. request' = [request EXCEPT ![q] = Voted(h), ![f] = new]
    BY <1>1, <1>3, <1>4
  <1>7. VotesSound' /\ \A p2 \in Requests : Kept(p2)
    <2> SUFFICES ASSUME NEW p2 \in Requests PROVE Kept(p2) /\ VoteSound(p2)'
      BY DEF VotesSound
    <2>1. CASE p2 = q
      <3>1. request'[p2] = Voted(h)
        BY <1>4, <1>5, <1>6, <2>1 DEF QuorumInv, TypeOK
      <3>2. QED
        BY <1>3, <2>1, <3>1, VotedRow DEF QuorumInv, ApproveStage
    <2>2. CASE p2 = f
      <3>1. request'[p2] = new
        BY <1>6, <2>2 DEF QuorumInv, TypeOK
      <3>2. QED
        BY <1>4, <2>2, <3>1, NewRow
    <2>3. CASE p2 # q /\ p2 # f
      <3>1. request'[p2] = request[p2]
        BY <1>6, <2>3 DEF QuorumInv, TypeOK
      <3>2. QED
        BY <3>1, UntouchedRow DEF QuorumInv
    <2>4. QED
      BY <2>1, <2>2, <2>3
  <1>8. DecisionsSound'
    BY <1>7, DoneSound DEF QuorumInv, ApproveStage, Deciding
  <1>9. StepsSound'
    <2> SUFFICES ASSUME NEW i \in Routes, NEW k \in Stages PROVE StepSound(i, k)'
      BY DEF StepsSound
    <2>1. steps \in [Stages -> StepRow] /\ route[i].steps \in [Stages -> StepRow]
      BY <1>2, ApprovedType, StepsType DEF QuorumInv
    <2>2. route'[i].about = route[i].about
      BY <1>1, StepsType DEF QuorumInv, TypeOK, RouteRow
    <2>3. CASE i = p[1] /\ k = next
      <3>1. route'[i].steps[k].request = f
        BY <1>1, <1>4, <2>1, <2>3, StepsType DEF QuorumInv, TypeOK, RouteRow
      <3>2. request'[f] = new
        BY <1>6 DEF QuorumInv, TypeOK
      <3>3. request'[f].status = "pending" /\ request'[f].about = route[i].about
        BY <2>3, <3>2 DEF NewRequest
      <3>4. QED
        BY <2>2, <3>1, <3>3 DEF StepSound
    <2>4. CASE i = p[1] /\ k # next
      <3>1. route'[i].steps[k] = steps[k]
        BY <1>1, <2>1, <2>4, StepsType DEF QuorumInv, TypeOK, RouteRow
      <3>2. steps[k].request = route[i].steps[k].request
        BY <1>2, <2>1, <2>4 DEF Approved, StepRow
      <3>3. QED
        BY <1>7, <2>2, <3>1, <3>2, StepKept DEF QuorumInv
    <2>5. CASE i # p[1]
      <3>1. route'[i] = route[i]
        BY <1>1, <2>5 DEF QuorumInv, TypeOK
      <3>2. QED
        BY <1>7, <3>1, StepKept DEF QuorumInv
    <2>6. QED
      BY <2>3, <2>4, <2>5
  <1>10. ApprovalsSound'
    BY <1>7, ApprovalKept DEF QuorumInv, ApproveStage, ApprovalsSound, KeptOrDeleted
  <1>11. QED
    BY <1>7, <1>8, <1>9, <1>10 DEF QuorumInv

\* So does withdrawing a request or a route.
LEMMA CancelSound ==
    ASSUME QuorumInv, TypeOK', NEW s \in Slots, Cancel(s)
    PROVE  QuorumInv'
  <1> DEFINE h == inflight[s]
             gone == h.openRequests \cup ({h.on} \ {0})
             r == IF h.route = 0 THEN request[h.on].about ELSE route[h.route].about
  <1>1. VotesSound' /\ \A q \in Requests : Kept(q)
    <2> SUFFICES ASSUME NEW q \in Requests PROVE Kept(q) /\ VoteSound(q)'
      BY DEF VotesSound
    <2>1. CASE q \in gone
      <3>1. request[q] \in RequestRow
        BY DEF QuorumInv, TypeOK
      <3>2. request'[q] = [request[q] EXCEPT !.status = "cancelled"]
        BY <2>1 DEF Cancel
      <3>3. request[q].status # "deleted"
        BY <2>1 DEF Cancel
      <3>4. Kept(q)
        BY <3>1, <3>2, <3>3 DEF Kept, RequestRow
      <3>5. VoteSound(q)'
        BY <3>1, <3>2 DEF VoteSound, RequestRow, QuorumInv, VotesSound
      <3>6. QED
        BY <3>4, <3>5
    <2>2. CASE q \notin gone
      <3>1. request'[q] = request[q]
        BY <2>2 DEF Cancel
      <3>2. QED
        BY <3>1, UntouchedRow DEF QuorumInv
    <2>3. QED
      BY <2>1, <2>2
  <1>2. DecisionsSound'
    BY <1>1, DoneSound DEF QuorumInv, Cancel
  <1>3. StepsSound'
    <2> SUFFICES ASSUME NEW i \in Routes, NEW k \in Stages PROVE StepSound(i, k)'
      BY DEF StepsSound
    <2>1. /\ route'[i].about = route[i].about
          /\ route'[i].steps[k].request = route[i].steps[k].request
      <3>1. route[i] \in RouteRow /\ route[i].steps[k] \in StepRow
        BY StepsType DEF QuorumInv
      <3>2. CASE h.route # 0 /\ i = h.route
        BY <3>1, <3>2 DEF Cancel, QuorumInv, TypeOK, RouteRow, StepRow
      <3>3. CASE ~(h.route # 0 /\ i = h.route)
        BY <3>3 DEF Cancel, QuorumInv, TypeOK
      <3>4. QED
        BY <3>2, <3>3
    <2>2. QED
      BY <1>1, <2>1, StepKept DEF QuorumInv
  <1>4. ApprovalsSound'
    <2>1. WriteBack(r, FALSE, h.by, h.on)
      BY DEF Cancel
    <2>2. QED
      BY <1>1, <2>1, WriteBackSound DEF QuorumInv
  <1>5. QED
    BY <1>1, <1>2, <1>3, <1>4 DEF QuorumInv

\* A route that starts: its request and its steps are new.
LEMMA StartRouteSound ==
    ASSUME QuorumInv, NEW r, NEW u, StartRoute(r, u)
    PROVE  VotesSound' /\ StepsSound' /\ \A q \in Requests : Kept(q)
  <1>1. PICK f \in Requests : FreshRequest = f /\ request[f].status = "unused"
    BY FreshRequestUnused DEF StartRoute
  <1>2. PICK n \in Routes : FreshRoute = n
    BY FreshRouteUnused DEF StartRoute
  <1>3. request' = [request EXCEPT ![f] = NewRequest(r, u, Required[1])]
    BY <1>1 DEF StartRoute
  <1>4. route' = [route EXCEPT ![n] = [status |-> "in_progress", about |-> r, startedBy |-> u,
                                       steps |-> FirstStageOpen(f)]]
    BY <1>1, <1>2 DEF StartRoute
  <1>5. VotesSound' /\ \A q \in Requests : Kept(q)
    <2> SUFFICES ASSUME NEW q \in Requests PROVE Kept(q) /\ VoteSound(q)'
      BY DEF VotesSound
    <2>1. CASE q = f
      <3>1. request'[q] = NewRequest(r, u, Required[1])
        BY <1>3, <2>1 DEF QuorumInv, TypeOK
      <3>2. QED
        BY <1>1, <2>1, <3>1, NewRow
    <2>2. CASE q # f
      <3>1. request'[q] = request[q]
        BY <1>3, <2>2 DEF QuorumInv, TypeOK
      <3>2. QED
        BY <3>1, UntouchedRow DEF QuorumInv
    <2>3. QED
      BY <2>1, <2>2
  <1>6. StepsSound'
    <2> SUFFICES ASSUME NEW i \in Routes, NEW k \in Stages PROVE StepSound(i, k)'
      BY DEF StepsSound
    <2>1. CASE i = n
      <3>1. /\ route'[i].about = r
            /\ route'[i].steps[k].request \in {0, f}
        BY <1>4, <2>1 DEF QuorumInv, TypeOK, FirstStageOpen
      <3>2. request'[f].status = "pending" /\ request'[f].about = r
        BY <1>3 DEF QuorumInv, TypeOK, NewRequest
      <3>3. QED
        BY <3>1, <3>2 DEF StepSound
    <2>2. CASE i # n
      <3>1. route'[i] = route[i]
        BY <1>4, <2>2 DEF QuorumInv, TypeOK
      <3>2. QED
        BY <1>5, <3>1, StepKept DEF QuorumInv
    <2>3. QED
      BY <2>1, <2>2
  <1>7. QED
    BY <1>5, <1>6

\* So does a move of the record's lifecycle.
LEMMA TransitionSound ==
    ASSUME QuorumInv, TypeOK', NEW s \in Slots, Transition(s)
    PROVE  QuorumInv'
  <1> DEFINE h == inflight[s]
             to == Transitions[h.op].to
  <1>1. VotesSound' /\ StepsSound' /\ \A q \in Requests : Kept(q)
    <2>1. CASE h.starts
      BY <2>1, StartRouteSound DEF Transition
    <2>2. CASE ~h.starts
      <3>1. UNCHANGED <<request, route>>
        BY <2>2 DEF Transition
      <3>2. VotesSound' /\ \A q \in Requests : Kept(q)
        BY <3>1, UntouchedRow DEF QuorumInv, VotesSound
      <3>3. QED
        BY <3>1, <3>2, StepKept DEF QuorumInv, StepsSound
    <2>3. QED
      BY <2>1, <2>2
  <1>2. DecisionsSound'
    BY <1>1, DoneSound DEF QuorumInv, Transition
  <1>3. ApprovalsSound'
    <2> SUFFICES ASSUME NEW r \in Records PROVE ApprovalSound(r)'
      BY DEF ApprovalsSound
    <2>1. record'[r].by \in {0, record[r].by}
      <3>1. record[r] \in RecordRow
        BY DEF QuorumInv, TypeOK
      <3>2. CASE r = h.on
        <4>1. record'[r] = Moved(record[r], to, h.by, 0)
          BY <3>2 DEF Transition, QuorumInv, TypeOK
        <4> HIDE DEF to
        <4>2. QED
          BY <3>1, <4>1 DEF Moved, RecordRow
      <3>3. CASE r # h.on
        BY <3>3 DEF Transition, QuorumInv, TypeOK
      <3>4. QED
        BY <3>2, <3>3
    <2>2. CASE record'[r].by = 0
      BY <2>2 DEF ApprovalSound
    <2>3. CASE record'[r].by = record[r].by
      BY <1>1, <2>3, ApprovalKept DEF QuorumInv, KeptOrDeleted
    <2>4. QED
      BY <2>1, <2>2, <2>3
  <1>4. QED
    BY <1>1, <1>2, <1>3 DEF QuorumInv

\* So does starting a route by hand.
LEMMA StartSound ==
    ASSUME QuorumInv, TypeOK', NEW s \in Slots, Start(s)
    PROVE  QuorumInv'
  <1>1. VotesSound' /\ StepsSound' /\ \A q \in Requests : Kept(q)
    BY StartRouteSound DEF Start
  <1>2. DecisionsSound'
    BY <1>1, DoneSound DEF QuorumInv, Start
  <1>3. ApprovalsSound'
    BY <1>1, ApprovalKept DEF QuorumInv, Start, ApprovalsSound, KeptOrDeleted
  <1>4. QED
    BY <1>1, <1>2, <1>3 DEF QuorumInv

\* So does deleting a request: its status says it is gone.
LEMMA DeleteRequestSound ==
    ASSUME QuorumInv, TypeOK', NEW u \in Users, NEW q \in Requests, DeleteRequest(u, q)
    PROVE  QuorumInv'
  <1>1. \A p \in Requests : request'[p] = IF p = q
            THEN [UnusedRequest EXCEPT !.status = "deleted"] ELSE request[p]
    BY DEF DeleteRequest, QuorumInv, TypeOK
  <1>2. \A p \in Requests : KeptOrDeleted(p)
    BY <1>1, UntouchedRow DEF KeptOrDeleted, QuorumInv, UnusedRequest
  <1>3. VotesSound'
    <2> SUFFICES ASSUME NEW p \in Requests PROVE VoteSound(p)'
      BY DEF VotesSound
    <2>1. CASE p = q
      BY <1>1, <2>1 DEF VoteSound, UnusedRequest
    <2>2. CASE p # q
      BY <1>1, <2>2, UntouchedRow DEF QuorumInv
    <2>3. QED
      BY <2>1, <2>2
  <1>4. DecisionsSound'
    BY <1>2, DecisionKept DEF DecisionsSound, QuorumInv, DeleteRequest
  <1>5. StepsSound'
    <2> SUFFICES ASSUME NEW i \in Routes, NEW k \in Stages PROVE StepSound(i, k)'
      BY DEF StepsSound
    <2> DEFINE old == route[i].steps[k].request
    <2>1. route[i].steps[k] \in StepRow
      BY StepsType DEF QuorumInv
    <2>2. /\ route'[i].about = route[i].about
          /\ route'[i].steps[k].request = IF old = q THEN 0 ELSE old
      BY <2>1, StepsType DEF DeleteRequest, QuorumInv, RouteRow, StepRow
    <2>3. CASE old = q \/ old = 0
      BY <2>2, <2>3 DEF StepSound
    <2>4. CASE old # q /\ old # 0
      <3>1. old \in Requests
        BY <2>1, <2>4, BoundAssumption DEF StepRow
      <3>2. request'[old] = request[old]
        BY <1>1, <2>4, <3>1
      <3>3. StepSound(i, k)
        BY DEF QuorumInv, StepsSound
      <3>4. QED
        BY <2>2, <2>4, <3>2, <3>3 DEF StepSound
    <2>5. QED
      BY <2>3, <2>4
  <1>6. ApprovalsSound'
    BY <1>2, <1>3, ApprovalKept DEF QuorumInv, DeleteRequest, ApprovalsSound
  <1>7. QED
    BY <1>3, <1>4, <1>5, <1>6 DEF QuorumInv

\* So does raising a request by hand.
LEMMA RaiseRequestSound ==
    ASSUME QuorumInv, TypeOK', NEW u \in Users, NEW r \in Records, NEW n \in ByHand,
           RaiseRequest(u, r, n)
    PROVE  QuorumInv'
  <1>1. PICK f \in Requests : FreshRequest = f /\ request[f].status = "unused"
    BY FreshRequestUnused DEF RaiseRequest
  <1>2. request' = [request EXCEPT ![f] = NewRequest(r, u, n)]
    BY <1>1 DEF RaiseRequest
  <1>3. VotesSound' /\ \A q \in Requests : Kept(q)
    <2> SUFFICES ASSUME NEW q \in Requests PROVE Kept(q) /\ VoteSound(q)'
      BY DEF VotesSound
    <2>1. CASE q = f
      <3>1. request'[q] = NewRequest(r, u, n)
        BY <1>2, <2>1 DEF QuorumInv, TypeOK
      <3>2. QED
        BY <1>1, <2>1, <3>1, NewRow
    <2>2. CASE q # f
      <3>1. request'[q] = request[q]
        BY <1>2, <2>2 DEF QuorumInv, TypeOK
      <3>2. QED
        BY <3>1, UntouchedRow DEF QuorumInv
    <2>3. QED
      BY <2>1, <2>2
  <1>4. DecisionsSound'
    BY <1>3, DecisionKept DEF QuorumInv, RaiseRequest, DecisionsSound, KeptOrDeleted
  <1>5. StepsSound'
    BY <1>3, StepKept DEF QuorumInv, RaiseRequest, StepsSound
  <1>6. ApprovalsSound'
    BY <1>3, ApprovalKept DEF QuorumInv, RaiseRequest, ApprovalsSound, KeptOrDeleted
  <1>7. QED
    BY <1>3, <1>4, <1>5, <1>6 DEF QuorumInv

\* A load writes no row; a decision it puts in flight counts the votes of the row.
LEMMA LoadSound ==
    ASSUME QuorumInv, TypeOK', NEW s \in Slots, NEW u \in Users, Load(s, u)
    PROVE  QuorumInv'
  <1>1. /\ UNCHANGED <<record, request, route>>
        /\ \A t \in Slots \ {s} : inflight'[t] = inflight[t]
        /\ DecisionSound(s)'
    <2>1. ASSUME NEW h, Loaded(s, h)
          PROVE  /\ UNCHANGED <<record, request, route>>
                 /\ \A t \in Slots \ {s} : inflight'[t] = inflight[t]
                 /\ inflight'[s] = h
      BY <2>1 DEF Loaded, QuorumInv, TypeOK
    <2>2. ASSUME NEW h, Loaded(s, h), h.op # "decide"
          PROVE  DecisionSound(s)'
      BY <2>1, <2>2 DEF DecisionSound
    <2>3. ASSUME NEW q \in Requests, NEW yes \in BOOLEAN, LoadDecision(s, u, q, yes)
          PROVE  <1>1!1 /\ <1>1!2 /\ <1>1!3
      <3> DEFINE h == [op |-> "decide", by |-> u, on |-> q, yes |-> yes,
                       saw |-> request[q].approvers]
      <3>1. Loaded(s, h) /\ request[q].status = "pending" /\ (SoD => request[q].maker # u)
        BY <2>3 DEF LoadDecision, MayDecide, IsMaker
      <3>2. DecisionSound(s)'
        BY <2>1, <3>1 DEF DecisionSound
      <3>3. QED
        BY <2>1, <3>1, <3>2
    <2>4. ASSUME NEW q \in Requests, LoadCancel(s, u, q)
          PROVE  <1>1!1 /\ <1>1!2 /\ <1>1!3
      BY <2>1, <2>2, <2>4 DEF LoadCancel, Cancelling
    <2>5. ASSUME NEW i \in Routes, LoadCancelRoute(s, u, i)
          PROVE  <1>1!1 /\ <1>1!2 /\ <1>1!3
      BY <2>1, <2>2, <2>5 DEF LoadCancelRoute, Cancelling
    <2>6. ASSUME NEW r \in Records, NEW a \in DOMAIN Transitions, LoadTransition(s, u, r, a)
          PROVE  <1>1!1 /\ <1>1!2 /\ <1>1!3
      BY <2>1, <2>2, <2>6 DEF LoadTransition, Transitions
    <2>7. ASSUME NEW r \in Records, LoadStart(s, u, r)
          PROVE  <1>1!1 /\ <1>1!2 /\ <1>1!3
      BY <2>1, <2>2, <2>7 DEF LoadStart
    <2>8. QED
      BY <2>3, <2>4, <2>5, <2>6, <2>7 DEF Load
  <1>2. VotesSound' /\ \A q \in Requests : Kept(q)
    BY <1>1, UntouchedRow DEF QuorumInv, VotesSound
  <1>3. DecisionsSound'
    BY <1>1, <1>2, DecisionKept DEF QuorumInv, DecisionsSound, KeptOrDeleted
  <1>4. StepsSound'
    BY <1>1, <1>2, StepKept DEF QuorumInv, StepsSound
  <1>5. ApprovalsSound'
    BY <1>1, <1>2, ApprovalKept DEF QuorumInv, ApprovalsSound, KeptOrDeleted
  <1>6. QED
    BY <1>2, <1>3, <1>4, <1>5 DEF QuorumInv

\* Nothing has been voted, staged or approved before anything has happened.
LEMMA InitSound == Init => QuorumInv
  <1> SUFFICES ASSUME Init PROVE QuorumInv
    OBVIOUS
  <1>1. VotesSound
    BY DEF Init, VotesSound, VoteSound, UnusedRequest
  <1>2. DecisionsSound
    BY DEF Init, DecisionsSound, DecisionSound, Idle
  <1>3. StepsSound
    BY DEF Init, StepsSound, StepSound, UnusedRoute
  <1>4. ApprovalsSound
    BY DEF Init, ApprovalsSound, ApprovalSound
  <1>5. QED
    BY <1>1, <1>2, <1>3, <1>4, InitType DEF QuorumInv

\* Every step of every handler keeps the inductive invariant.
LEMMA NextSound ==
    ASSUME QuorumInv, [Next]_vars
    PROVE  QuorumInv'
  <1>1. TypeOK'
    BY NextType DEF QuorumInv
  <1>2. ASSUME UNCHANGED <<record, request, route>>,
               \A s \in Slots : inflight'[s] \in {inflight[s], Idle}
        PROVE  QuorumInv'
    <2>1. VotesSound' /\ \A q \in Requests : Kept(q)
      BY <1>2, UntouchedRow DEF QuorumInv, VotesSound
    <2>2. DecisionsSound'
      BY <1>2, <2>1, DecisionKept DEF QuorumInv, DecisionsSound, KeptOrDeleted
    <2>3. StepsSound'
      BY <1>2, <2>1, StepKept DEF QuorumInv, StepsSound
    <2>4. ApprovalsSound'
      BY <1>1, <1>2, <2>1, ApprovalKept DEF QuorumInv, ApprovalsSound, KeptOrDeleted
    <2>5. QED
      BY <1>1, <2>1, <2>2, <2>3, <2>4 DEF QuorumInv
  <1>3. ASSUME NEW s \in Slots, NEW u \in Users, Load(s, u)
        PROVE  QuorumInv'
    BY <1>1, <1>3, LoadSound
  <1>4. ASSUME NEW s \in Slots, Commit(s)
        PROVE  QuorumInv'
    BY <1>1, <1>4, PartialVoteSound, DecideAloneSound, RejectStageSound, ApproveStageSound,
       FinishRouteSound, CancelSound, TransitionSound, StartSound DEF Commit
  <1>5. ASSUME NEW s \in Slots, Rollback(s)
        PROVE  QuorumInv'
    BY <1>2, <1>5 DEF Rollback, Done, QuorumInv, TypeOK
  <1>6. ASSUME NEW u \in Users, NEW r \in Records, NEW n \in ByHand, RaiseRequest(u, r, n)
        PROVE  QuorumInv'
    BY <1>1, <1>6, RaiseRequestSound
  <1>7. ASSUME NEW u \in Users, NEW q \in Requests, DeleteRequest(u, q)
        PROVE  QuorumInv'
    BY <1>1, <1>7, DeleteRequestSound
  <1>8. CASE SwitchDefinition
    BY <1>2, <1>8 DEF SwitchDefinition
  <1>9. CASE UNCHANGED vars
    BY <1>2, <1>9 DEF vars
  <1>10. QED
    BY <1>3, <1>4, <1>5, <1>6, <1>7, <1>8, <1>9 DEF Next

\* The inductive invariant behind the two theorems that follow: a recorded vote is never
\* withdrawn nor the maker's, whatever commits between a read and its write.
THEOREM QuorumInvariant == Spec => []QuorumInv
  <1>1. Init => QuorumInv
    BY InitSound
  <1>2. QuorumInv /\ [Next]_vars => QuorumInv'
    BY NextSound
  <1>3. QED
    BY <1>1, <1>2, PTL DEF Spec

\* decide_approval: however many handlers overlap, a request that reads approved
\* has the votes it asks for, from checkers none of whom is its maker.
THEOREM GrantedRequestsHaveTheirQuorum == Spec => []GrantedHasQuorum
  <1>1. QuorumInv => GrantedHasQuorum
    BY DEF QuorumInv, VotesSound, VoteSound, GrantedHasQuorum, Quorum
  <1>2. QED
    BY <1>1, QuorumInvariant, PTL

\* write_back: however many handlers overlap, a record approved through the inbox
\* was approved by a request about it that has its quorum, or had it when deleted.
THEOREM InboxApprovalsAreBacked == Spec => []ApprovalBacked
  <1>1. QuorumInv => ApprovalBacked
    BY DEF QuorumInv, ApprovalsSound, ApprovalSound, ApprovalBacked
  <1>2. QED
    BY <1>1, QuorumInvariant, PTL
=============================================================================
