------------------------- MODULE ApprovalRoutesProofs -------------------------
(***************************************************************************)
(* Theorems about the routes of ApprovalRouting: the order of their        *)
(* stages, the quorums they ask for and the requests they wait on, however *)
(* many handlers overlap; and, when one handler runs at a time, that a     *)
(* route leaves nothing open behind it and implements the staged sign-off. *)
(***************************************************************************)
EXTENDS ApprovalRoutingProofs

USE DEF Requests, Routes

-----------------------------------------------------------------------------
(***************************************************************************)
(* What each handler does to the routes                                    *)
(***************************************************************************)
\* Route i moves to a status; every other route is left as it was.
RouteMoved(i, status) ==
    /\ \A j \in Routes \ {i} : route'[j] = route[j]
    /\ route'[i].status = status
    /\ route'[i].about = route[i].about
    /\ route'[i].startedBy = route[i].startedBy

\* Every stage of route i keeps its request.
SameAsked(i) == \A l \in Stages : route'[i].steps[l].request = route[i].steps[l].request

\* Stage k of live route i waits on request q.
WaitsOn(i, k, q) ==
    /\ i \in Routes /\ k \in Stages
    /\ route[i].status = "in_progress"
    /\ route[i].steps[k].request = q

\* The only request written is the one the handler in slot s decides.
OnlyVoted(s) ==
    \A q \in Requests : request'[q] = IF q = inflight[s].on THEN Voted(inflight[s])
                                      ELSE request[q]

\* Every request but fresh one f, which is raised, is as it was.
OnlyRaised(f, r, u, n) ==
    /\ f \in Requests
    /\ request[f].status = "unused"
    /\ \A q \in Requests : request'[q] = IF q = f THEN NewRequest(r, u, n) ELSE request[q]

\* A vote keeps what the request asks for; its status tells the outcome.
LEMMA VotedFields ==
    ASSUME TypeOK, NEW s \in Slots, Deciding(s)
    PROVE  LET h == inflight[s]  row == request[h.on] IN
           /\ h.on \in Requests /\ h.yes \in BOOLEAN /\ h.op = "decide"
           /\ row.status # "deleted"
           /\ Voted(h).about = row.about
           /\ Voted(h).maker = row.maker
           /\ Voted(h).required = row.required
           /\ ~h.yes => Voted(h).status = "rejected"
           /\ h.yes /\ Granted(h) => Voted(h).status = "approved"
           /\ h.yes /\ ~Granted(h) => Voted(h).status = row.status
  <1> DEFINE h == inflight[s]
             row == request[h.on]
  <1>1. h \in Handler /\ h.on \in Requests /\ h.op = "decide"
    BY DecidingType DEF Deciding
  <1>2. h.yes \in BOOLEAN
    BY <1>1 DEF Handler
  <1>3. row \in RequestRow
    BY <1>1 DEF TypeOK
  <1>4. row = [status |-> row.status, about |-> row.about, maker |-> row.maker,
               required |-> row.required, approvers |-> row.approvers,
               rejecters |-> row.rejecters]
    BY <1>3 DEF RequestRow
  <1>5. row.status # "deleted"
    BY DEF Deciding
  <1>6. QED
    BY <1>1, <1>2, <1>4, <1>5 DEF Voted

\* The one request a decision writes is the one decided.
LEMMA VotedOnly ==
    ASSUME TypeOK, NEW s \in Slots,
           request' = [request EXCEPT ![inflight[s].on] = Voted(inflight[s])]
    PROVE  OnlyVoted(s)
  BY DEF TypeOK, OnlyVoted

\* RejectStage ends the route: its stage is rejected, those not opened are skipped.
LEMMA RejectStageEffect ==
    ASSUME TypeOK, NEW s \in Slots, RejectStage(s)
    PROVE  \E i \in Routes, k \in Stages :
              /\ WaitsOn(i, k, inflight[s].on)
              /\ RouteMoved(i, "rejected")
              /\ SameAsked(i)
              /\ \A l \in Stages : route'[i].steps[l].status =
                    IF l = k THEN "rejected"
                    ELSE IF route[i].steps[l].status = "pending" THEN "skipped"
                    ELSE route[i].steps[l].status
              /\ WriteBack(route[i].about, FALSE, inflight[s].by, inflight[s].on)
  <1> DEFINE h == inflight[s]
  <1>1. PICK p \in StageOf(h.on) :
           /\ route' = [route EXCEPT
                ![p[1]].status = "rejected",
                ![p[1]].steps = [j \in Stages |->
                    IF j = p[2] THEN [@[j] EXCEPT !.status = "rejected"]
                    ELSE IF @[j].status = "pending" THEN [@[j] EXCEPT !.status = "skipped"]
                    ELSE @[j]]]
           /\ WriteBack(route[p[1]].about, FALSE, h.by, h.on)
    BY DEF RejectStage
  <1>2. PICK i \in Routes, k \in Stages : i = p[1] /\ k = p[2]
    BY StageOfType
  <1> DEFINE steps == route[i].steps
             after == [j \in Stages |->
                    IF j = k THEN [steps[j] EXCEPT !.status = "rejected"]
                    ELSE IF steps[j].status = "pending" THEN [steps[j] EXCEPT !.status = "skipped"]
                    ELSE steps[j]]
  <1>3. WaitsOn(i, k, h.on)
    BY <1>2 DEF StageOf, WaitsOn
  <1>4. route' = [route EXCEPT ![i] =
                      [route[i] EXCEPT !.status = "rejected", !.steps = after]]
    BY <1>1, <1>2, StepsType DEF RouteRow, TypeOK
  <1>5. route'[i] = [route[i] EXCEPT !.status = "rejected", !.steps = after]
    BY <1>4 DEF TypeOK
  <1>6. RouteMoved(i, "rejected") /\ route'[i].steps = after
    <2> HIDE DEF after
    <2>1. QED
      BY <1>4, <1>5, StepsType DEF RouteMoved, TypeOK, RouteRow
  <1>7. \A l \in Stages : steps[l] = [status |-> steps[l].status, request |-> steps[l].request]
    BY StepsType DEF StepRow
  <1>8. \A l \in Stages :
           /\ after[l].request = steps[l].request
           /\ after[l].status = IF l = k THEN "rejected"
                                ELSE IF steps[l].status = "pending" THEN "skipped"
                                ELSE steps[l].status
    BY <1>7
  <1>9. SameAsked(i)
    BY <1>6, <1>8 DEF SameAsked
  <1>10. WriteBack(route[i].about, FALSE, h.by, h.on)
    BY <1>1, <1>2
  <1>11. \A l \in Stages : route'[i].steps[l].status =
            IF l = k THEN "rejected"
            ELSE IF route[i].steps[l].status = "pending" THEN "skipped"
            ELSE route[i].steps[l].status
    BY <1>6, <1>8
  <1>12. QED
    BY <1>3, <1>6, <1>9, <1>10, <1>11

\* FinishRoute approves the stage and the route.
LEMMA FinishRouteEffect ==
    ASSUME TypeOK, NEW s \in Slots, FinishRoute(s)
    PROVE  \E i \in Routes, k \in Stages :
              /\ WaitsOn(i, k, inflight[s].on)
              /\ RouteMoved(i, "approved")
              /\ SameAsked(i)
              /\ \A l \in Stages : route'[i].steps[l].status =
                    IF l = k THEN "approved" ELSE route[i].steps[l].status
              /\ Undecided(route'[i].steps) = {}
              /\ WriteBack(route[i].about, TRUE, inflight[s].by, inflight[s].on)
  <1> DEFINE h == inflight[s]
  <1>1. PICK p \in StageOf(h.on) :
           /\ Undecided(Approved(p[1], p[2])) = {}
           /\ route' = [route EXCEPT ![p[1]].status = "approved",
                                     ![p[1]].steps = Approved(p[1], p[2])]
           /\ WriteBack(route[p[1]].about, TRUE, h.by, h.on)
    BY DEF FinishRoute
  <1>2. PICK i \in Routes, k \in Stages : i = p[1] /\ k = p[2]
    BY StageOfType
  <1>3. WaitsOn(i, k, h.on)
    BY <1>2 DEF StageOf, WaitsOn
  <1>4. RouteMoved(i, "approved") /\ route'[i].steps = Approved(i, k)
    BY <1>1, <1>2, StepsType DEF RouteMoved, TypeOK, RouteRow
  <1>5. \A l \in Stages :
           /\ Approved(i, k)[l].request = route[i].steps[l].request
           /\ Approved(i, k)[l].status = IF l = k THEN "approved" ELSE route[i].steps[l].status
    BY StepsType DEF Approved, StepRow
  <1>6. SameAsked(i)
    BY <1>4, <1>5 DEF SameAsked
  <1>7. WriteBack(route[i].about, TRUE, h.by, h.on) /\ Undecided(route'[i].steps) = {}
    BY <1>1, <1>2, <1>4
  <1>8. \A l \in Stages : route'[i].steps[l].status =
            IF l = k THEN "approved" ELSE route[i].steps[l].status
    BY <1>4, <1>5
  <1>9. QED
    BY <1>3, <1>4, <1>6, <1>7, <1>8

\* ApproveStage approves the stage and opens the first undecided one on a request of its own.
LEMMA ApproveStageEffect ==
    ASSUME TypeOK, NEW s \in Slots, ApproveStage(s)
    PROVE  \E i \in Routes, k \in Stages, next \in Stages, f \in Requests :
              /\ WaitsOn(i, k, inflight[s].on)
              /\ RouteMoved(i, "in_progress")
              /\ request[f].status = "unused"
              /\ next # k
              /\ route[i].steps[next].status \in {"pending", "in_progress"}
              /\ \A j \in Stages : j < next /\ j # k =>
                    route[i].steps[j].status \notin {"pending", "in_progress"}
              /\ \A l \in Stages : /\ route'[i].steps[l].status =
                                         IF l = next THEN "in_progress"
                                         ELSE IF l = k THEN "approved"
                                         ELSE route[i].steps[l].status
                                   /\ route'[i].steps[l].request =
                                         IF l = next THEN f ELSE route[i].steps[l].request
              /\ \A q \in Requests : request'[q] =
                    IF q = f THEN NewRequest(route[i].about, route[i].startedBy, Required[next])
                    ELSE IF q = inflight[s].on THEN Voted(inflight[s])
                    ELSE request[q]
  <1> DEFINE h == inflight[s]
  <1>1. PICK p \in StageOf(h.on) :
           LET steps == Approved(p[1], p[2])
               next == CurrentStep(steps)
           IN /\ Undecided(steps) # {}
              /\ route' = [route EXCEPT ![p[1]].steps =
                    [steps EXCEPT ![next] = [status |-> "in_progress", request |-> FreshRequest]]]
              /\ request' = [request EXCEPT
                   ![h.on] = Voted(h),
                   ![FreshRequest] = NewRequest(route[p[1]].about, route[p[1]].startedBy, Required[next])]
    BY DEF ApproveStage
  <1>2. PICK i \in Routes, k \in Stages : i = p[1] /\ k = p[2]
    BY StageOfType
  <1> DEFINE steps == Approved(i, k)
             next == CurrentStep(steps)
             after == [steps EXCEPT ![next] = [status |-> "in_progress", request |-> FreshRequest]]
  <1>3. WaitsOn(i, k, h.on)
    BY <1>2 DEF StageOf, WaitsOn
  <1>4. FreshRequest \in Requests /\ request[FreshRequest].status = "unused"
    BY FreshRequestUnused DEF ApproveStage
  <1>5. /\ next \in Undecided(steps)
        /\ \A j \in Undecided(steps) : next <= j
    <2>1. \E m \in Undecided(steps) : \A j \in Undecided(steps) : m <= j
      BY <1>1, <1>2, LeastUndecided
    <2>2. QED
      BY <2>1 DEF CurrentStep
  <1>6. steps \in [Stages -> StepRow] /\ steps[k].status = "approved"
        /\ \A l \in Stages : /\ steps[l].request = route[i].steps[l].request
                             /\ l # k => steps[l].status = route[i].steps[l].status
    BY ApprovedType, StepsType DEF Approved, StepRow
  <1>7. next \in Stages /\ next # k /\ steps[next].status \in {"pending", "in_progress"}
    BY <1>5, <1>6 DEF Undecided
  <1>8. \A j \in Stages : j < next /\ j # k =>
            route[i].steps[j].status \notin {"pending", "in_progress"}
    <2>1. Stages \subseteq Nat
      BY RouteAssumption DEF Stages
    <2>2. ASSUME NEW j \in Stages, j < next, j # k
          PROVE  route[i].steps[j].status \notin {"pending", "in_progress"}
      <3>1. j \notin Undecided(steps)
        <4> HIDE DEF next
        <4>1. QED
          BY <1>5, <1>7, <2>1, <2>2
      <3>2. QED
        BY <1>6, <2>2, <3>1 DEF Undecided
    <2>3. QED
      BY <2>2
  <1>9. RouteMoved(i, "in_progress") /\ route'[i].steps = after
    <2>1. route' = [route EXCEPT ![i].steps = after]
      BY <1>1, <1>2
    <2> HIDE DEF after
    <2>2. QED
      BY <1>3, <2>1, StepsType DEF RouteMoved, TypeOK, RouteRow, WaitsOn
  <1>10. \A l \in Stages : after[l] =
            IF l = next THEN [status |-> "in_progress", request |-> FreshRequest] ELSE steps[l]
    BY <1>6, <1>7
  <1> HIDE DEF after
  <1>11. \A l \in Stages : /\ after[l].status = IF l = next THEN "in_progress"
                                                ELSE IF l = k THEN "approved"
                                                ELSE route[i].steps[l].status
                           /\ after[l].request = IF l = next THEN FreshRequest
                                                 ELSE route[i].steps[l].request
    BY <1>6, <1>7, <1>10
  <1>12. \A q \in Requests : request'[q] =
            IF q = FreshRequest
            THEN NewRequest(route[i].about, route[i].startedBy, Required[next])
            ELSE IF q = h.on THEN Voted(h) ELSE request[q]
    BY <1>1, <1>2, <1>4 DEF TypeOK
  <1>13. route[i].steps[next].status \in {"pending", "in_progress"}
    BY <1>6, <1>7
  <1> HIDE DEF next, steps
  <1>14. QED
    BY <1>3, <1>4, <1>7, <1>8, <1>9, <1>11, <1>12, <1>13

\* Cancel ends the route it names, if any, and skips the stages it found open.
LEMMA CancelEffect ==
    ASSUME TypeOK, NEW s \in Slots, Cancel(s)
    PROVE  LET h == inflight[s] IN
           /\ h \in Handler /\ h.op = "cancel" /\ h.route \in 0..MaxRoutes /\ h.on \in 0..MaxRequests
           /\ h.route = 0 => route' = route /\ h.on \in Requests
           /\ h.route # 0 =>
                /\ h.route \in Routes
                /\ RouteMoved(h.route, "cancelled")
                /\ SameAsked(h.route)
                /\ \A l \in Stages : route'[h.route].steps[l].status =
                      IF l \in h.openSteps THEN "skipped" ELSE route[h.route].steps[l].status
           /\ \A q \in Requests :
                /\ request'[q].about = request[q].about
                /\ request'[q].maker = request[q].maker
                /\ request'[q].required = request[q].required
                /\ request'[q].status = IF q \in h.openRequests \cup ({h.on} \ {0})
                                        THEN "cancelled" ELSE request[q].status
  <1> DEFINE h == inflight[s]
             gone == h.openRequests \cup ({h.on} \ {0})
  <1>1. h \in Handler /\ h.op = "cancel"
    BY DEF TypeOK, Cancel
  <1>2. \/ h.on \in Requests /\ h.route \in 0..MaxRoutes
        \/ h.on = 0 /\ h.route \in Routes
    BY <1>1 DEF Handler
  <1>3. h.on \in 0..MaxRequests /\ h.route \in 0..MaxRoutes
    BY <1>2, BoundAssumption
  <1>4. h.route = 0 => route' = route /\ h.on \in Requests
    BY <1>2, BoundAssumption DEF Cancel
  <1>5. ASSUME h.route # 0
        PROVE  /\ h.route \in Routes
               /\ RouteMoved(h.route, "cancelled")
               /\ SameAsked(h.route)
               /\ \A l \in Stages : route'[h.route].steps[l].status =
                     IF l \in h.openSteps THEN "skipped" ELSE route[h.route].steps[l].status
    <2>1. PICK i \in Routes : h.route = i
      BY <1>3, <1>5, BoundAssumption
    <2> DEFINE steps == route[i].steps
               after == [k \in Stages |-> IF k \in h.openSteps
                            THEN [steps[k] EXCEPT !.status = "skipped"] ELSE steps[k]]
    <2>2. route' = [route EXCEPT ![i] =
                      [route[i] EXCEPT !.status = "cancelled", !.steps = after]]
      BY <1>5, <2>1, StepsType DEF Cancel, RouteRow, TypeOK
    <2>3. route'[i] = [route[i] EXCEPT !.status = "cancelled", !.steps = after]
      BY <2>2 DEF TypeOK
    <2>4. RouteMoved(i, "cancelled") /\ route'[i].steps = after
      <3> HIDE DEF after
      <3>1. QED
        BY <2>2, <2>3, StepsType DEF RouteMoved, TypeOK, RouteRow
    <2>5. \A l \in Stages : steps[l] = [status |-> steps[l].status, request |-> steps[l].request]
      BY StepsType DEF StepRow
    <2>6. \A l \in Stages :
             /\ after[l].request = steps[l].request
             /\ after[l].status = IF l \in h.openSteps THEN "skipped" ELSE steps[l].status
      BY <2>5
    <2>7. SameAsked(i)
      BY <2>4, <2>6 DEF SameAsked
    <2>8. QED
      BY <2>1, <2>4, <2>6, <2>7
  <1>6. ASSUME NEW q \in Requests
        PROVE  /\ request'[q].about = request[q].about
               /\ request'[q].maker = request[q].maker
               /\ request'[q].required = request[q].required
               /\ request'[q].status = IF q \in gone THEN "cancelled" ELSE request[q].status
    <2>1. request'[q] = IF q \in gone THEN [request[q] EXCEPT !.status = "cancelled"]
                        ELSE request[q]
      BY DEF Cancel
    <2>2. request[q] \in RequestRow
      BY DEF TypeOK
    <2> HIDE DEF gone
    <2>3. QED
      BY <2>1, <2>2 DEF RequestRow
  <1>7. QED
    BY <1>1, <1>3, <1>4, <1>5, <1>6

\* StartRoute opens the first stage of an unused route on a new request.
LEMMA StartRouteEffect ==
    ASSUME TypeOK, NEW r, NEW u, StartRoute(r, u)
    PROVE  \E i \in Routes, f \in Requests :
              /\ route[i].status = "unused"
              /\ \A j \in Routes \ {i} : route'[j] = route[j]
              /\ route'[i].status = "in_progress"
              /\ route'[i].about = r
              /\ route'[i].startedBy = u
              /\ \A l \in Stages :
                    /\ route'[i].steps[l].status = IF l = 1 THEN "in_progress" ELSE "pending"
                    /\ route'[i].steps[l].request = IF l = 1 THEN f ELSE 0
              /\ OnlyRaised(f, r, u, Required[1])
  <1>1. PICK f \in Requests : FreshRequest = f /\ request[f].status = "unused"
    BY FreshRequestUnused DEF StartRoute
  <1>2. PICK i \in Routes : FreshRoute = i /\ route[i].status = "unused"
    BY FreshRouteUnused DEF StartRoute
  <1>3. route' = [route EXCEPT ![i] = [status |-> "in_progress", about |-> r, startedBy |-> u,
                                       steps |-> FirstStageOpen(f)]]
    BY <1>1, <1>2 DEF StartRoute
  <1>4. /\ \A j \in Routes \ {i} : route'[j] = route[j]
        /\ route'[i] = [status |-> "in_progress", about |-> r, startedBy |-> u,
                        steps |-> FirstStageOpen(f)]
    BY <1>3 DEF TypeOK
  <1>5. OnlyRaised(f, r, u, Required[1])
    BY <1>1 DEF StartRoute, OnlyRaised, TypeOK
  <1>6. QED
    BY <1>1, <1>2, <1>4, <1>5 DEF FirstStageOpen

\* DeleteRequest takes the request away from the stages that asked it, and no more.
LEMMA DeleteRequestEffect ==
    ASSUME TypeOK, NEW u \in Users, NEW q \in Requests, DeleteRequest(u, q)
    PROVE  /\ \A i \in Routes :
                /\ route'[i].status = route[i].status
                /\ route'[i].about = route[i].about
                /\ route'[i].startedBy = route[i].startedBy
                /\ \A l \in Stages :
                      /\ route'[i].steps[l].status = route[i].steps[l].status
                      /\ route'[i].steps[l].request =
                            IF route[i].steps[l].request = q THEN 0 ELSE route[i].steps[l].request
           /\ request'[q].status = "deleted"
           /\ \A p \in Requests \ {q} : request'[p] = request[p]
  <1>1. /\ request'[q] = [UnusedRequest EXCEPT !.status = "deleted"]
        /\ \A p \in Requests \ {q} : request'[p] = request[p]
    BY DEF DeleteRequest, TypeOK
  <1>2. request'[q].status = "deleted"
    BY <1>1 DEF UnusedRequest
  <1>3. ASSUME NEW i \in Routes
        PROVE  /\ route'[i].status = route[i].status
               /\ route'[i].about = route[i].about
               /\ route'[i].startedBy = route[i].startedBy
               /\ \A l \in Stages :
                     /\ route'[i].steps[l].status = route[i].steps[l].status
                     /\ route'[i].steps[l].request =
                           IF route[i].steps[l].request = q THEN 0 ELSE route[i].steps[l].request
    <2> DEFINE steps == route[i].steps
               after == [k \in Stages |-> IF steps[k].request = q
                            THEN [steps[k] EXCEPT !.request = 0] ELSE steps[k]]
    <2>1. route'[i] = [route[i] EXCEPT !.steps = after]
      BY DEF DeleteRequest
    <2>2. \A l \in Stages : steps[l] = [status |-> steps[l].status, request |-> steps[l].request]
      BY StepsType DEF StepRow
    <2>3. \A l \in Stages :
             /\ after[l].status = steps[l].status
             /\ after[l].request = IF steps[l].request = q THEN 0 ELSE steps[l].request
      BY <2>2
    <2> HIDE DEF after
    <2>4. /\ route'[i].status = route[i].status
          /\ route'[i].about = route[i].about
          /\ route'[i].startedBy = route[i].startedBy
          /\ route'[i].steps = after
      BY <2>1, StepsType DEF RouteRow
    <2>5. QED
      BY <2>3, <2>4
  <1>4. QED
    BY <1>1, <1>2, <1>3

-----------------------------------------------------------------------------
(***************************************************************************)
(* The order of the stages                                                 *)
(***************************************************************************)
\* Route i stands at stage k: those before it are approved, those after it unopened.
StandsAt(i, k) ==
    LET steps == route[i].steps IN
    /\ steps[k].status = "in_progress"
    /\ \A j \in Stages : /\ j < k => steps[j].status = "approved"
                         /\ j > k => steps[j].status = "pending"

\* A live route stands at a stage, an approved one has approved them all, an unused one
\* has opened none, and a stage that is not opened yet has no request, so that no decision reaches it.
OrderSound(i) ==
    /\ route[i].status = "in_progress" => \E k \in Stages : StandsAt(i, k)
    /\ route[i].status = "approved" => \A k \in Stages : route[i].steps[k].status = "approved"
    /\ route[i].status = "unused" => \A k \in Stages : route[i].steps[k].status = "pending"
    /\ \A k \in Stages : route[i].steps[k].status = "pending" => route[i].steps[k].request = 0

OrderInv == \A i \in Routes : OrderSound(i)

\* A route a step leaves alone keeps its order.
LEMMA OrderFrame ==
    ASSUME OrderInv, NEW i \in Routes, route'[i] = route[i]
    PROVE  OrderSound(i)'
  BY DEF OrderInv, OrderSound, StandsAt

\* A live route that a request waits on stands at that stage or has passed it.
LEMMA StandsBeyond ==
    ASSUME OrderInv, NEW i, NEW k, NEW q \in Requests, WaitsOn(i, k, q)
    PROVE  \E n \in Stages : /\ StandsAt(i, n)
                             /\ k <= n
                             /\ k # n => route[i].steps[k].status = "approved"
  <1>1. i \in Routes /\ k \in Stages /\ route[i].steps[k].request # 0
    BY BoundAssumption DEF WaitsOn
  <1>2. PICK n \in Stages : StandsAt(i, n)
    BY <1>1 DEF OrderInv, OrderSound, WaitsOn
  <1>3. route[i].steps[k].status # "pending"
    BY <1>1 DEF OrderInv, OrderSound
  <1>4. n \in Nat /\ k \in Nat
    BY <1>1, RouteAssumption DEF Stages
  <1>5. ~(k > n)
    BY <1>1, <1>2, <1>3 DEF StandsAt
  <1>6. k # n => route[i].steps[k].status = "approved"
    BY <1>1, <1>2, <1>4, <1>5 DEF StandsAt
  <1>7. QED
    BY <1>2, <1>4, <1>5, <1>6

\* A rejected route has no order left to keep.
LEMMA RejectStageOrder ==
    ASSUME TypeOK, OrderInv, NEW s \in Slots, RejectStage(s)
    PROVE  OrderInv'
  <1>1. PICK i \in Routes, k \in Stages :
           /\ RouteMoved(i, "rejected")
           /\ SameAsked(i)
           /\ \A l \in Stages : route'[i].steps[l].status =
                 IF l = k THEN "rejected"
                 ELSE IF route[i].steps[l].status = "pending" THEN "skipped"
                 ELSE route[i].steps[l].status
    BY RejectStageEffect
  <1>2. OrderSound(i)'
    BY <1>1 DEF RouteMoved, OrderSound
  <1>3. \A j \in Routes \ {i} : OrderSound(j)'
    BY <1>1, OrderFrame DEF RouteMoved
  <1>4. QED
    BY <1>2, <1>3 DEF OrderInv

\* The route finishes with every stage approved: the one it stood at was the last.
LEMMA FinishRouteOrder ==
    ASSUME TypeOK, OrderInv, NEW s \in Slots, FinishRoute(s)
    PROVE  OrderInv'
  <1>1. inflight[s].on \in Requests
    BY DecidingType DEF FinishRoute
  <1>2. PICK i \in Routes, k \in Stages :
           /\ WaitsOn(i, k, inflight[s].on)
           /\ RouteMoved(i, "approved")
           /\ \A l \in Stages : route'[i].steps[l].status =
                 IF l = k THEN "approved" ELSE route[i].steps[l].status
           /\ Undecided(route'[i].steps) = {}
    BY FinishRouteEffect
  <1>3. PICK n \in Stages : StandsAt(i, n)
    BY <1>1, <1>2, StandsBeyond
  <1>4. \A j \in Stages : route'[i].steps[j].status \notin {"pending", "in_progress"}
    BY <1>2 DEF Undecided
  <1>5. k = n
    BY <1>2, <1>3, <1>4 DEF StandsAt
  <1>6. ASSUME NEW j \in Stages
        PROVE  route'[i].steps[j].status = "approved"
    <2>1. j < n \/ j = n \/ j > n
      BY RouteAssumption DEF Stages
    <2>2. ~(j > n)
      BY <1>2, <1>3, <1>4, <1>5, RouteAssumption DEF StandsAt, Stages
    <2>3. QED
      BY <1>2, <1>3, <1>5, <2>1, <2>2 DEF StandsAt
  <1>7. OrderSound(i)'
    BY <1>2, <1>6 DEF RouteMoved, OrderSound
  <1>8. \A j \in Routes \ {i} : OrderSound(j)'
    BY <1>2, OrderFrame DEF RouteMoved
  <1>9. QED
    BY <1>7, <1>8 DEF OrderInv

\* The stage opened is the one after the stage approved, or, when the decision came
\* late for a stage already approved, the one the route stands at.
LEMMA ApproveStageOrder ==
    ASSUME TypeOK, OrderInv, NEW s \in Slots, ApproveStage(s)
    PROVE  OrderInv'
  <1>1. inflight[s].on \in Requests
    BY DecidingType DEF ApproveStage
  <1>2. PICK i \in Routes, k \in Stages, next \in Stages, f \in Requests :
           /\ WaitsOn(i, k, inflight[s].on)
           /\ RouteMoved(i, "in_progress")
           /\ next # k
           /\ route[i].steps[next].status \in {"pending", "in_progress"}
           /\ \A j \in Stages : j < next /\ j # k =>
                 route[i].steps[j].status \notin {"pending", "in_progress"}
           /\ \A l \in Stages : /\ route'[i].steps[l].status =
                                      IF l = next THEN "in_progress"
                                      ELSE IF l = k THEN "approved"
                                      ELSE route[i].steps[l].status
                                /\ route'[i].steps[l].request =
                                      IF l = next THEN f ELSE route[i].steps[l].request
    BY ApproveStageEffect
  <1>3. PICK n \in Stages : /\ StandsAt(i, n)
                            /\ k <= n
                            /\ k # n => route[i].steps[k].status = "approved"
    BY <1>1, <1>2, StandsBeyond
  <1>4. n \in Nat /\ k \in Nat /\ next \in Nat /\ Stages \subseteq Nat
    BY RouteAssumption DEF Stages
  <1>5. n <= next
    BY <1>2, <1>3, <1>4 DEF StandsAt
  <1>6. k # n => next = n
    BY <1>2, <1>3, <1>4, <1>5 DEF StandsAt
  <1>7. StandsAt(i, next)'
    <2>1. ASSUME NEW j \in Stages, j < next
          PROVE  route'[i].steps[j].status = "approved"
      <3>1. CASE j = k
        BY <1>2, <1>4, <2>1, <3>1
      <3>2. CASE j # k
        <4>1. j < n
          BY <1>2, <1>3, <1>4, <1>6, <2>1, <3>2 DEF StandsAt
        <4>2. QED
          BY <1>2, <1>3, <1>4, <2>1, <3>2, <4>1 DEF StandsAt
      <3>3. QED
        BY <3>1, <3>2
    <2>2. ASSUME NEW j \in Stages, j > next
          PROVE  route'[i].steps[j].status = "pending"
      <3>1. j > n /\ j # k /\ j # next
        BY <1>3, <1>4, <1>5, <2>2
      <3>2. QED
        BY <1>2, <1>3, <3>1 DEF StandsAt
    <2>3. route'[i].steps[next].status = "in_progress"
      BY <1>2
    <2>4. QED
      BY <2>1, <2>2, <2>3 DEF StandsAt
  <1>8. OrderSound(i)'
    BY <1>2, <1>7 DEF RouteMoved, OrderSound, OrderInv
  <1>9. \A j \in Routes \ {i} : OrderSound(j)'
    BY <1>2, OrderFrame DEF RouteMoved
  <1>10. QED
    BY <1>8, <1>9 DEF OrderInv

\* A cancelled route has no order left to keep either.
LEMMA CancelOrder ==
    ASSUME TypeOK, OrderInv, NEW s \in Slots, Cancel(s)
    PROVE  OrderInv'
  <1> DEFINE h == inflight[s]
  <1>1. CASE h.route = 0
    BY <1>1, CancelEffect, OrderFrame DEF OrderInv
  <1>2. CASE h.route # 0
    <2>1. PICK i \in Routes :
             /\ RouteMoved(i, "cancelled")
             /\ SameAsked(i)
             /\ \A l \in Stages : route'[i].steps[l].status =
                   IF l \in h.openSteps THEN "skipped" ELSE route[i].steps[l].status
      BY <1>2, CancelEffect
    <2>2. OrderSound(i)'
      BY <2>1 DEF RouteMoved, OrderSound, SameAsked, OrderInv
    <2>3. \A j \in Routes \ {i} : OrderSound(j)'
      BY <2>1, OrderFrame DEF RouteMoved
    <2>4. QED
      BY <2>2, <2>3 DEF OrderInv
  <1>3. QED
    BY <1>1, <1>2

\* A new route stands at its first stage.
LEMMA StartRouteOrder ==
    ASSUME TypeOK, OrderInv, NEW r, NEW u, StartRoute(r, u)
    PROVE  OrderInv'
  <1>1. PICK i \in Routes, f \in Requests :
           /\ \A j \in Routes \ {i} : route'[j] = route[j]
           /\ route'[i].status = "in_progress"
           /\ \A l \in Stages :
                 /\ route'[i].steps[l].status = IF l = 1 THEN "in_progress" ELSE "pending"
                 /\ route'[i].steps[l].request = IF l = 1 THEN f ELSE 0
    BY StartRouteEffect
  <1>2. 1 \in Stages /\ \A j \in Stages : j >= 1
    BY RouteAssumption DEF Stages
  <1>3. StandsAt(i, 1)'
    BY <1>1, <1>2 DEF StandsAt, Stages
  <1>4. OrderSound(i)'
    BY <1>1, <1>2, <1>3 DEF OrderSound
  <1>5. \A j \in Routes \ {i} : OrderSound(j)'
    BY <1>1, OrderFrame
  <1>6. QED
    BY <1>4, <1>5 DEF OrderInv

\* A deleted request moves no stage.
LEMMA DeleteRequestOrder ==
    ASSUME TypeOK, OrderInv, NEW u \in Users, NEW q \in Requests, DeleteRequest(u, q)
    PROVE  OrderInv'
  <1> SUFFICES ASSUME NEW i \in Routes PROVE OrderSound(i)'
    BY DEF OrderInv
  <1>1. /\ route'[i].status = route[i].status
        /\ \A l \in Stages :
              /\ route'[i].steps[l].status = route[i].steps[l].status
              /\ route'[i].steps[l].request =
                    IF route[i].steps[l].request = q THEN 0 ELSE route[i].steps[l].request
    BY DeleteRequestEffect
  <1>2. OrderSound(i)
    BY DEF OrderInv
  <1>3. \A k \in Stages : StandsAt(i, k) => StandsAt(i, k)'
    BY <1>1 DEF StandsAt
  <1>4. QED
    BY <1>1, <1>2, <1>3 DEF OrderSound

\* The order of the stages survives every step of every handler.
LEMMA NextOrder ==
    ASSUME TypeOK, OrderInv, [Next]_vars
    PROVE  OrderInv'
  <1>1. ASSUME UNCHANGED route
        PROVE  OrderInv'
    BY <1>1, OrderFrame DEF OrderInv
  <1>2. ASSUME NEW s \in Slots, Commit(s)
        PROVE  OrderInv'
    <2>1. CASE PartialVote(s) \/ DecideAlone(s)
      BY <1>1, <2>1 DEF PartialVote, DecideAlone
    <2>2. CASE RejectStage(s)
      BY <2>2, RejectStageOrder
    <2>3. CASE ApproveStage(s)
      BY <2>3, ApproveStageOrder
    <2>4. CASE FinishRoute(s)
      BY <2>4, FinishRouteOrder
    <2>5. CASE Cancel(s)
      BY <2>5, CancelOrder
    <2>6. CASE Transition(s)
      BY <1>1, <2>6, StartRouteOrder DEF Transition
    <2>7. CASE Start(s)
      BY <2>7, StartRouteOrder DEF Start
    <2>8. QED
      BY <1>2, <2>1, <2>2, <2>3, <2>4, <2>5, <2>6, <2>7 DEF Commit
  <1>3. ASSUME NEW s \in Slots, NEW u \in Users, Load(s, u)
        PROVE  OrderInv'
    BY <1>1, <1>3 DEF Load, LoadDecision, LoadCancel, LoadCancelRoute, LoadTransition,
       LoadStart, Loaded
  <1>4. ASSUME NEW u \in Users, NEW q \in Requests, DeleteRequest(u, q)
        PROVE  OrderInv'
    BY <1>4, DeleteRequestOrder
  <1>5. CASE \E s \in Slots : Rollback(s)
    BY <1>1, <1>5 DEF Rollback
  <1>6. CASE \E u \in Users, r \in Records, n \in ByHand : RaiseRequest(u, r, n)
    BY <1>1, <1>6 DEF RaiseRequest
  <1>7. CASE SwitchDefinition \/ UNCHANGED vars
    BY <1>1, <1>7 DEF SwitchDefinition, vars
  <1>8. QED
    BY <1>2, <1>3, <1>4, <1>5, <1>6, <1>7 DEF Next

\* The order of the stages is an invariant, whatever overlaps.
LEMMA OrderInvariant == Spec => [](TypeOK /\ OrderInv)
  <1>1. Init => OrderInv
    BY DEF Init, OrderInv, OrderSound, UnusedRoute
  <1>2. OrderInv /\ TypeOK /\ [Next]_vars => OrderInv'
    BY NextOrder
  <1>3. QED
    BY <1>1, <1>2, TypeCorrect, PTL DEF Spec

\* workflow_engine: however many handlers overlap - two deciding one stage, one
\* cancelling the route while another approves it - a live route has approved the
\* stages before the one it stands at and opened none after it, and an approved
\* route has approved them all.
THEOREM StagesAreTakenInOrder == Spec => []StagesInOrder
  <1>1. OrderInv => StagesInOrder
    BY DEF OrderInv, OrderSound, StandsAt, StagesInOrder
  <1>2. QED
    BY <1>1, OrderInvariant, PTL

-----------------------------------------------------------------------------
(***************************************************************************)
(* What the stages ask for                                                 *)
(***************************************************************************)
\* A request is asked for by one stage of one route at most.
OneStageEach ==
    \A i, j \in Routes, k, l \in Stages :
        /\ route[i].steps[k].request # 0
        /\ route[i].steps[k].request = route[j].steps[l].request
        => i = j /\ k = l

\* A live route was started by somebody.
RoutesStarted == \A i \in Routes : route[i].status = "in_progress" => route[i].startedBy \in Users

\* A stage's request asks for the stage's quorum.
StageQuorums ==
    \A i \in Routes, k \in Stages :
        LET q == route[i].steps[k].request IN q # 0 => request[q].required = Required[k]

\* The quorums that are ever asked for.
Quorums == {Required[k] : k \in Stages} \cup ByHand

\* A pending request was raised by somebody, for the quorum of a stage or one given by hand.
PendingRaised ==
    \A q \in Requests : request[q].status = "pending" =>
        request[q].maker \in Users /\ request[q].required \in Quorums

AskedInv == OneStageEach /\ RoutesStarted /\ StageQuorums /\ PendingRaised

\* What a step does to a request at most: it is raised, keeps what it asks for, or goes.
Stays(q) ==
    /\ request'[q].about = request[q].about
    /\ request'[q].maker = request[q].maker
    /\ request'[q].required = request[q].required
    /\ request'[q].status = "pending" => request[q].status = "pending"
Raised(q) ==
    /\ request[q].status = "unused"
    /\ request'[q].maker \in Users
    /\ request'[q].required \in Quorums
RowMove(q) == Stays(q) \/ Raised(q) \/ request'[q].status = "deleted"

\* Nor does a stage get another request than the one it has ...
NothingAsked ==
    \A i \in Routes, l \in Stages :
        /\ route'[i].steps[l].request \in {0, route[i].steps[l].request}
        /\ route'[i].steps[l].request # 0 => Stays(route[i].steps[l].request)

\* ... except for the one stage that a step opens on a new request.
Opens(n, m, f) ==
    /\ request[f].status = "unused"
    /\ request'[f].required = Required[m]
    /\ route'[n].steps[m].request = f
    /\ \A i \in Routes, l \in Stages : (i # n \/ l # m) =>
          route'[i].steps[l].request \in {0, route[i].steps[l].request}
    /\ \A q \in Requests \ {f} : Stays(q)

AskMove == NothingAsked \/ \E n \in Routes, m \in Stages, f \in Requests : Opens(n, m, f)

\* The request of a stage is a request that was raised.
LEMMA StageRequest ==
    ASSUME QuorumInv, NEW i \in Routes, NEW k \in Stages, route[i].steps[k].request # 0
    PROVE  /\ route[i].steps[k].request \in Requests
           /\ request[route[i].steps[k].request].status \notin {"unused", "deleted"}
  <1>1. TypeOK
    BY DEF QuorumInv
  <1>2. route[i].steps[k].request \in Requests
    BY <1>1, StepsType, BoundAssumption DEF StepRow
  <1>3. QED
    BY <1>2 DEF QuorumInv, StepsSound, StepSound

\* A vote leaves every request what it asks for, and raises none.
LEMMA VotedStays ==
    ASSUME TypeOK, NEW s \in Slots, Deciding(s),
           request' = [request EXCEPT ![inflight[s].on] = Voted(inflight[s])]
    PROVE  \A q \in Requests : Stays(q)
  <1>1. OnlyVoted(s)
    BY VotedOnly
  <1>2. QED
    BY <1>1, VotedFields DEF OnlyVoted, Stays

\* When no request is raised and no stage gets another, the stages ask what they did.
LEMMA QuietMove ==
    ASSUME QuorumInv, \A q \in Requests : Stays(q),
           \A i \in Routes, l \in Stages :
               route'[i].steps[l].request = route[i].steps[l].request
    PROVE  AskMove /\ \A q \in Requests : RowMove(q)
  <1>1. NothingAsked
    BY StageRequest DEF NothingAsked
  <1>2. QED
    BY <1>1 DEF AskMove, RowMove

\* A quorum that a stage asks for is one of those ever asked for.
LEMMA StageQuorum == \A k \in Stages : Required[k] \in Quorums
  BY DEF Quorums

\* Opening the next stage raises one request, for that stage.
LEMMA ApproveStageAsks ==
    ASSUME QuorumInv, RoutesStarted, NEW s \in Slots, ApproveStage(s)
    PROVE  AskMove /\ \A q \in Requests : RowMove(q)
  <1>1. TypeOK /\ Deciding(s) /\ inflight[s].on \in Requests
    BY DecidingType DEF QuorumInv, ApproveStage
  <1>2. PICK i \in Routes, k \in Stages, next \in Stages, f \in Requests :
           /\ WaitsOn(i, k, inflight[s].on)
           /\ RouteMoved(i, "in_progress")
           /\ request[f].status = "unused"
           /\ \A l \in Stages : route'[i].steps[l].request =
                                      IF l = next THEN f ELSE route[i].steps[l].request
           /\ \A q \in Requests : request'[q] =
                 IF q = f THEN NewRequest(route[i].about, route[i].startedBy, Required[next])
                 ELSE IF q = inflight[s].on THEN Voted(inflight[s])
                 ELSE request[q]
    BY <1>1, ApproveStageEffect
  <1>3. route[i].startedBy \in Users
    BY <1>2 DEF RoutesStarted, WaitsOn
  <1>4. /\ request'[f].maker \in Users
        /\ request'[f].required = Required[next]
    BY <1>2, <1>3 DEF NewRequest
  <1>5. \A q \in Requests \ {f} : Stays(q)
    BY <1>1, <1>2, VotedFields DEF Stays
  <1>6. Opens(i, next, f)
    BY <1>2, <1>4, <1>5 DEF Opens, RouteMoved
  <1>7. QED
    BY <1>2, <1>4, <1>5, <1>6, StageQuorum DEF AskMove, RowMove, Raised

\* So does starting a route, for its first stage.
LEMMA StartRouteAsks ==
    ASSUME QuorumInv, NEW r, NEW u \in Users, StartRoute(r, u)
    PROVE  AskMove /\ \A q \in Requests : RowMove(q)
  <1>1. TypeOK /\ 1 \in Stages
    BY RouteAssumption DEF QuorumInv, Stages
  <1>2. PICK i \in Routes, f \in Requests :
           /\ \A j \in Routes \ {i} : route'[j] = route[j]
           /\ \A l \in Stages : route'[i].steps[l].request = IF l = 1 THEN f ELSE 0
           /\ OnlyRaised(f, r, u, Required[1])
    BY <1>1, StartRouteEffect
  <1>3. /\ request[f].status = "unused"
        /\ request'[f].maker = u
        /\ request'[f].required = Required[1]
    BY <1>2 DEF OnlyRaised, NewRequest
  <1>4. \A q \in Requests \ {f} : Stays(q)
    BY <1>2 DEF OnlyRaised, Stays
  <1>5. Opens(i, 1, f)
    BY <1>1, <1>2, <1>3, <1>4 DEF Opens
  <1>6. QED
    BY <1>1, <1>3, <1>4, <1>5, StageQuorum DEF AskMove, RowMove, Raised

\* A deleted request is asked for by no stage any more.
LEMMA DeleteRequestAsks ==
    ASSUME QuorumInv, NEW u \in Users, NEW q \in Requests, DeleteRequest(u, q)
    PROVE  AskMove /\ \A p \in Requests : RowMove(p)
  <1>1. TypeOK
    BY DEF QuorumInv
  <1>2. /\ request'[q].status = "deleted"
        /\ \A p \in Requests \ {q} : Stays(p)
        /\ \A i \in Routes, l \in Stages : route'[i].steps[l].request =
               IF route[i].steps[l].request = q THEN 0 ELSE route[i].steps[l].request
    BY <1>1, DeleteRequestEffect DEF Stays
  <1>3. NothingAsked
    BY <1>2, StageRequest DEF NothingAsked
  <1>4. QED
    BY <1>2, <1>3 DEF AskMove, RowMove

\* A request raised by hand is no stage.
LEMMA RaiseRequestAsks ==
    ASSUME QuorumInv, NEW u \in Users, NEW r \in Records, NEW n \in ByHand,
           RaiseRequest(u, r, n)
    PROVE  AskMove /\ \A q \in Requests : RowMove(q)
  <1>1. PICK f \in Requests : FreshRequest = f /\ request[f].status = "unused"
    BY FreshRequestUnused DEF RaiseRequest
  <1>2. OnlyRaised(f, r, u, n) /\ route' = route
    BY <1>1 DEF RaiseRequest, OnlyRaised, QuorumInv, TypeOK
  <1>3. Raised(f) /\ \A q \in Requests \ {f} : Stays(q)
    BY <1>1, <1>2 DEF OnlyRaised, NewRequest, Raised, Stays, Quorums
  <1>4. NothingAsked
    BY <1>1, <1>2, <1>3, StageRequest DEF NothingAsked
  <1>5. QED
    BY <1>3, <1>4 DEF AskMove, RowMove

\* So does every step of every handler: at most one stage gets a new request.
LEMMA NextAsks ==
    ASSUME QuorumInv, RoutesStarted, [Next]_vars
    PROVE  AskMove /\ \A q \in Requests : RowMove(q)
  <1>1. TypeOK
    BY DEF QuorumInv
  <1>2. ASSUME UNCHANGED <<request, route>>
        PROVE  AskMove /\ \A q \in Requests : RowMove(q)
    BY <1>2, QuietMove DEF Stays
  <1>3. ASSUME NEW s \in Slots, Commit(s)
        PROVE  AskMove /\ \A q \in Requests : RowMove(q)
    <2>1. CASE PartialVote(s) \/ DecideAlone(s)
      <3>1. \A q \in Requests : Stays(q)
        BY <1>1, <2>1, VotedStays DEF PartialVote, DecideAlone
      <3>2. QED
        BY <2>1, <3>1, QuietMove DEF PartialVote, DecideAlone
    <2>2. CASE RejectStage(s) \/ FinishRoute(s)
      <3>1. \A q \in Requests : Stays(q)
        BY <1>1, <2>2, VotedStays DEF RejectStage, FinishRoute
      <3>2. \E i \in Routes, status \in RouteStatus : RouteMoved(i, status) /\ SameAsked(i)
        BY <1>1, <2>2, RejectStageEffect, FinishRouteEffect DEF RouteStatus
      <3>3. QED
        BY <3>1, <3>2, QuietMove DEF RouteMoved, SameAsked
    <2>3. CASE ApproveStage(s)
      BY <2>3, ApproveStageAsks
    <2>4. CASE Cancel(s)
      <3>1. \A q \in Requests : Stays(q)
        BY <1>1, <2>4, CancelEffect DEF Stays
      <3>2. \/ route' = route
            \/ \E i \in Routes : RouteMoved(i, "cancelled") /\ SameAsked(i)
        BY <1>1, <2>4, CancelEffect
      <3>3. QED
        BY <3>1, <3>2, QuietMove DEF RouteMoved, SameAsked
    <2>5. CASE Transition(s)
      <3>1. CASE inflight[s].starts
        <4>1. inflight[s].by \in Users
          BY <1>1, <2>5 DEF TypeOK, Handler, Transition, Transitions
        <4>2. QED
          BY <2>5, <3>1, <4>1, StartRouteAsks DEF Transition
      <3>2. CASE ~inflight[s].starts
        BY <1>2, <2>5, <3>2 DEF Transition
      <3>3. QED
        BY <3>1, <3>2
    <2>6. CASE Start(s)
      <3>1. inflight[s].by \in Users
        BY <1>1, <2>6 DEF TypeOK, Handler, Start
      <3>2. QED
        BY <2>6, <3>1, StartRouteAsks DEF Start
    <2>7. QED
      BY <1>3, <2>1, <2>2, <2>3, <2>4, <2>5, <2>6 DEF Commit
  <1>4. ASSUME NEW s \in Slots, NEW u \in Users, Load(s, u)
        PROVE  UNCHANGED <<request, route>>
    BY <1>4 DEF Load, LoadDecision, LoadCancel, LoadCancelRoute, LoadTransition, LoadStart,
       Loaded
  <1>5. CASE \E s \in Slots : Rollback(s)
    BY <1>2, <1>5 DEF Rollback
  <1>6. CASE SwitchDefinition \/ UNCHANGED vars
    BY <1>2, <1>6 DEF SwitchDefinition, vars
  <1>7. QED
    BY <1>2, <1>3, <1>4, <1>5, <1>6, DeleteRequestAsks, RaiseRequestAsks DEF Next

\* A live route keeps who started it, and a new one has a starter.
LEMMA NextStarted ==
    ASSUME TypeOK, RoutesStarted, [Next]_vars
    PROVE  RoutesStarted'
  <1>1. ASSUME UNCHANGED route
        PROVE  RoutesStarted'
    BY <1>1 DEF RoutesStarted
  <1>2. ASSUME NEW i \in Routes, NEW status, RouteMoved(i, status),
               status # "in_progress" \/ route[i].status = "in_progress"
        PROVE  RoutesStarted'
    BY <1>2 DEF RouteMoved, RoutesStarted
  <1>3. ASSUME NEW r, NEW u \in Users, StartRoute(r, u)
        PROVE  RoutesStarted'
    <2>1. PICK i \in Routes : /\ \A j \in Routes \ {i} : route'[j] = route[j]
                              /\ route'[i].startedBy = u
      BY <1>3, StartRouteEffect
    <2>2. QED
      BY <2>1 DEF RoutesStarted
  <1>4. ASSUME NEW s \in Slots, Commit(s)
        PROVE  RoutesStarted'
    <2>1. CASE PartialVote(s) \/ DecideAlone(s)
      BY <1>1, <2>1 DEF PartialVote, DecideAlone
    <2>2. CASE RejectStage(s)
      BY <1>2, <2>2, RejectStageEffect DEF WaitsOn
    <2>3. CASE ApproveStage(s)
      BY <1>2, <2>3, ApproveStageEffect DEF WaitsOn
    <2>4. CASE FinishRoute(s)
      BY <1>2, <2>4, FinishRouteEffect DEF WaitsOn
    <2>5. CASE Cancel(s)
      BY <1>1, <1>2, <2>5, CancelEffect
    <2>6. CASE Transition(s)
      <3>1. inflight[s].by \in Users
        BY <2>6 DEF TypeOK, Handler, Transition, Transitions
      <3>2. QED
        BY <1>1, <1>3, <2>6, <3>1 DEF Transition
    <2>7. CASE Start(s)
      <3>1. inflight[s].by \in Users
        BY <2>7 DEF TypeOK, Handler, Start
      <3>2. QED
        BY <1>3, <2>7, <3>1 DEF Start
    <2>8. QED
      BY <1>4, <2>1, <2>2, <2>3, <2>4, <2>5, <2>6, <2>7 DEF Commit
  <1>5. ASSUME NEW s \in Slots, NEW u \in Users, Load(s, u)
        PROVE  RoutesStarted'
    BY <1>1, <1>5 DEF Load, LoadDecision, LoadCancel, LoadCancelRoute, LoadTransition,
       LoadStart, Loaded
  <1>6. ASSUME NEW u \in Users, NEW q \in Requests, DeleteRequest(u, q)
        PROVE  RoutesStarted'
    BY <1>6, DeleteRequestEffect DEF RoutesStarted
  <1>7. CASE \E s \in Slots : Rollback(s)
    BY <1>1, <1>7 DEF Rollback
  <1>8. CASE \E u \in Users, r \in Records, n \in ByHand : RaiseRequest(u, r, n)
    BY <1>1, <1>8 DEF RaiseRequest
  <1>9. CASE SwitchDefinition \/ UNCHANGED vars
    BY <1>1, <1>9 DEF SwitchDefinition, vars
  <1>10. QED
    BY <1>4, <1>5, <1>6, <1>7, <1>8, <1>9 DEF Next

\* What the stages ask for survives every step of every handler.
LEMMA NextAsked ==
    ASSUME QuorumInv, AskedInv, [Next]_vars
    PROVE  AskedInv'
  <1>1. AskMove /\ \A q \in Requests : RowMove(q)
    BY NextAsks DEF AskedInv
  <1>2. RoutesStarted'
    BY NextStarted DEF QuorumInv, AskedInv
  <1>3. PendingRaised'
    BY <1>1 DEF AskedInv, PendingRaised, RowMove, Stays, Raised
  <1>4. CASE NothingAsked
    <2>1. OneStageEach'
      <3> SUFFICES ASSUME NEW i \in Routes, NEW j \in Routes, NEW k \in Stages, NEW l \in Stages,
                          route'[i].steps[k].request # 0,
                          route'[i].steps[k].request = route'[j].steps[l].request
                   PROVE  i = j /\ k = l
        BY DEF OneStageEach
      <3>1. /\ route[i].steps[k].request # 0
            /\ route[i].steps[k].request = route[j].steps[l].request
        BY <1>4 DEF NothingAsked
      <3>2. QED
        BY <3>1 DEF AskedInv, OneStageEach
    <2>2. StageQuorums'
      BY <1>4 DEF AskedInv, StageQuorums, NothingAsked, Stays
    <2>3. QED
      BY <1>2, <1>3, <2>1, <2>2 DEF AskedInv
  <1>5. ASSUME NEW n \in Routes, NEW m \in Stages, NEW f \in Requests, Opens(n, m, f)
        PROVE  AskedInv'
    <2>1. \A i \in Routes, l \in Stages : route[i].steps[l].request # f
      BY <1>5, StageRequest, BoundAssumption DEF Opens
    <2>2. \A i \in Routes, l \in Stages : (i # n \/ l # m) => route'[i].steps[l].request # f
      BY <1>5, <2>1, BoundAssumption DEF Opens
    <2>3. OneStageEach'
      <3> SUFFICES ASSUME NEW i \in Routes, NEW j \in Routes, NEW k \in Stages, NEW l \in Stages,
                          route'[i].steps[k].request # 0,
                          route'[i].steps[k].request = route'[j].steps[l].request
                   PROVE  i = j /\ k = l
        BY DEF OneStageEach
      <3>1. CASE i = n /\ k = m
        BY <1>5, <2>2, <3>1 DEF Opens
      <3>2. CASE j = n /\ l = m
        BY <1>5, <2>2, <3>2 DEF Opens
      <3>3. CASE ~(i = n /\ k = m) /\ ~(j = n /\ l = m)
        <4>1. /\ route[i].steps[k].request # 0
              /\ route[i].steps[k].request = route[j].steps[l].request
          BY <1>5, <3>3 DEF Opens
        <4>2. QED
          BY <4>1 DEF AskedInv, OneStageEach
      <3>4. QED
        BY <3>1, <3>2, <3>3
    <2>4. StageQuorums'
      <3> SUFFICES ASSUME NEW i \in Routes, NEW k \in Stages, route'[i].steps[k].request # 0
                   PROVE  request'[route'[i].steps[k].request].required = Required[k]
        BY DEF StageQuorums
      <3>1. CASE i = n /\ k = m
        BY <1>5, <3>1 DEF Opens
      <3>2. CASE ~(i = n /\ k = m)
        <4>1. /\ route'[i].steps[k].request = route[i].steps[k].request
              /\ route[i].steps[k].request \in Requests \ {f}
          BY <1>5, <2>1, <3>2, StageRequest DEF Opens
        <4>2. QED
          BY <1>5, <4>1 DEF Opens, Stays, AskedInv, StageQuorums
      <3>3. QED
        BY <3>1, <3>2
    <2>5. QED
      BY <1>2, <1>3, <2>3, <2>4 DEF AskedInv
  <1>6. QED
    BY <1>1, <1>4, <1>5 DEF AskMove

\* A request belongs to one stage and asks for its quorum, whatever overlaps.
LEMMA AskedInvariant == Spec => [](QuorumInv /\ AskedInv)
  <1>1. Init => AskedInv
    <2> SUFFICES ASSUME Init PROVE AskedInv
      OBVIOUS
    <2>1. \A i \in Routes, k \in Stages : route[i].steps[k].request = 0
      BY DEF Init, UnusedRoute
    <2>2. \A i \in Routes : route[i].status = "unused"
      BY DEF Init, UnusedRoute
    <2>3. \A q \in Requests : request[q].status = "unused"
      BY DEF Init, UnusedRequest
    <2>4. QED
      BY <2>1, <2>2, <2>3 DEF AskedInv, OneStageEach, RoutesStarted, StageQuorums, PendingRaised
  <1>2. QuorumInv /\ AskedInv /\ [Next]_vars => AskedInv'
    BY NextAsked
  <1>3. QED
    BY <1>1, <1>2, QuorumInvariant, PTL DEF Spec

-----------------------------------------------------------------------------
(***************************************************************************)
(* What a live route waits on                                              *)
(***************************************************************************)
\* What holds of the routes whatever overlaps.
RoutesInv == QuorumInv /\ OrderInv /\ AskedInv

\* The pairs that wait on a request are the stages of live routes that do.
LEMMA StageOfPairs ==
    ASSUME NEW q
    PROVE  /\ \A p \in StageOf(q) : WaitsOn(p[1], p[2], q)
           /\ \A i, k : WaitsOn(i, k, q) => <<i, k>> \in StageOf(q)
           /\ StageOf(q) # {} => \E i, k : WaitsOn(i, k, q)
  <1>1. \A p \in StageOf(q) : WaitsOn(p[1], p[2], q)
    BY DEF StageOf, WaitsOn
  <1>2. ASSUME NEW i, NEW k, WaitsOn(i, k, q)
        PROVE  <<i, k>> \in StageOf(q)
    <2>1. <<i, k>> \in Routes \X Stages
      BY <1>2 DEF WaitsOn
    <2>2. QED
      BY <1>2, <2>1 DEF StageOf, WaitsOn
  <1>3. QED
    BY <1>1, <1>2

\* The stage a live route stands at has a pending request, or none.
LivePending ==
    \A i \in Routes, k \in Stages :
        LET q == route[i].steps[k].request IN
        /\ route[i].status = "in_progress"
        /\ route[i].steps[k].status = "in_progress"
        /\ q # 0
        => request[q].status = "pending"

\* A cancel in flight closes requests that were raised, and that only its own route may wait on.
CancelsOwn(h) ==
    \A q \in Requests : q \in h.openRequests \cup {h.on} =>
        /\ request[q].status # "unused"
        /\ \A i \in Routes, k \in Stages : WaitsOn(i, k, q) => i = h.route

WaitsInv ==
    /\ LivePending
    /\ \A s \in Slots : inflight[s].op = "cancel" => CancelsOwn(inflight[s])

\* No request becomes unused again, and a route comes to wait only on one just raised.
OnlyNewWaits ==
    /\ \A q \in Requests : request'[q].status = "unused" => request[q].status = "unused"
    /\ \A q \in Requests, i \in Routes, k \in Stages :
          request[q].status # "unused" /\ WaitsOn(i, k, q)' => WaitsOn(i, k, q)

\* What a cancel closes stays its own, whatever is done meanwhile.
LEMMA CancelsOwnKept ==
    ASSUME OnlyNewWaits, NEW h, CancelsOwn(h)
    PROVE  CancelsOwn(h)'
  BY DEF OnlyNewWaits, CancelsOwn

\* Stages that keep their status and request wait as they did, unless the request moved.
LEMMA PendingKept ==
    ASSUME RoutesInv, LivePending, NEW i \in Routes, NEW k \in Stages,
           route'[i] = route[i],
           \A q \in Requests : WaitsOn(i, k, q) /\ request[q].status = "pending"
                                  => request'[q].status = "pending"
    PROVE  LET q == route'[i].steps[k].request IN
           /\ route'[i].status = "in_progress"
           /\ route'[i].steps[k].status = "in_progress"
           /\ q # 0
           => request'[q].status = "pending"
  <1>1. SUFFICES ASSUME route[i].status = "in_progress", route[i].steps[k].status = "in_progress",
                        route[i].steps[k].request # 0
                 PROVE  request'[route[i].steps[k].request].status = "pending"
    OBVIOUS
  <1>2. PICK q \in Requests : q = route[i].steps[k].request
    BY <1>1, StageRequest DEF RoutesInv
  <1>3. WaitsOn(i, k, q) /\ request[q].status = "pending"
    BY <1>1, <1>2 DEF WaitsOn, LivePending
  <1>4. QED
    BY <1>2, <1>3

\* A request waited on by one route is waited on by no other.
LEMMA WaitsApart ==
    ASSUME RoutesInv, NEW q \in Requests,
           NEW i, NEW k, WaitsOn(i, k, q), NEW j, NEW l, WaitsOn(j, l, q)
    PROVE  i = j /\ k = l /\ request[q].status # "unused"
  <1>1. /\ i \in Routes /\ k \in Stages /\ j \in Routes /\ l \in Stages
        /\ route[i].steps[k].request = q /\ route[j].steps[l].request = q /\ q # 0
    BY BoundAssumption DEF WaitsOn
  <1>2. i = j /\ k = l
    BY <1>1 DEF RoutesInv, AskedInv, OneStageEach
  <1>3. request[q].status # "unused"
    BY <1>1, StageRequest DEF RoutesInv
  <1>4. QED
    BY <1>2, <1>3

\* A decision writes no status "unused".
LEMMA VotedUsed ==
    ASSUME RoutesInv, NEW s \in Slots, Deciding(s),
           request[inflight[s].on].status # "unused", OnlyVoted(s)
    PROVE  \A q \in Requests : request'[q].status = "unused" => request[q].status = "unused"
  <1>1. TypeOK
    BY DEF RoutesInv, QuorumInv
  <1>2. \/ Voted(inflight[s]).status \in {"approved", "rejected"}
        \/ Voted(inflight[s]).status = request[inflight[s].on].status
    BY <1>1, VotedFields
  <1>3. QED
    BY <1>2 DEF OnlyVoted

\* A partial vote, and a decision on a request no live route waits on.
LEMMA BesideRoutesWaits ==
    ASSUME RoutesInv, WaitsInv, NEW s \in Slots, PartialVote(s) \/ DecideAlone(s)
    PROVE  LivePending' /\ OnlyNewWaits
  <1> DEFINE h == inflight[s]
  <1>1. TypeOK /\ Deciding(s) /\ OnlyVoted(s) /\ route' = route
    BY VotedOnly DEF RoutesInv, QuorumInv, PartialVote, DecideAlone
  <1>2. h.on \in Requests
    BY <1>1, VotedFields
  <1>3. \A q \in Requests, i \in Routes, k \in Stages : WaitsOn(i, k, q)' <=> WaitsOn(i, k, q)
    BY <1>1 DEF WaitsOn
  <1>4. ASSUME NEW i \in Routes, NEW k \in Stages, NEW q \in Requests,
               WaitsOn(i, k, q), request[q].status = "pending"
        PROVE  request'[q].status = "pending"
    <2>1. CASE q # h.on
      BY <1>1, <1>4, <2>1 DEF OnlyVoted
    <2>2. CASE q = h.on
      <3>1. PartialVote(s)
        BY <1>4, <2>2, StageOfPairs DEF DecideAlone
      <3>2. Voted(h).status = request[h.on].status
        BY <1>1, <3>1, VotedFields DEF PartialVote
      <3>3. QED
        BY <1>1, <1>4, <2>2, <3>2 DEF OnlyVoted
    <2>3. QED
      BY <2>1, <2>2
  <1>5. LivePending'
    BY <1>1, <1>4, PendingKept DEF LivePending, WaitsInv
  <1>6. \A q \in Requests : request'[q].status = "unused" => request[q].status = "unused"
    <2>1. \/ Voted(h).status \in {"approved", "rejected"}
          \/ Voted(h).status = request[h.on].status
      BY <1>1, VotedFields
    <2>2. QED
      BY <1>1, <2>1 DEF OnlyVoted
  <1>7. QED
    BY <1>3, <1>5, <1>6 DEF OnlyNewWaits

\* The decision that ends a route closes the one request it was about.
LEMMA EndingWaits ==
    ASSUME RoutesInv, WaitsInv, NEW s \in Slots, RejectStage(s) \/ FinishRoute(s)
    PROVE  LivePending' /\ OnlyNewWaits
  <1> DEFINE h == inflight[s]
  <1>1. TypeOK /\ Deciding(s) /\ OnlyVoted(s)
    BY VotedOnly DEF RoutesInv, QuorumInv, RejectStage, FinishRoute
  <1>2. h.on \in Requests
    BY <1>1, VotedFields
  <1>3. PICK i \in Routes, k \in Stages, status \in {"rejected", "approved"} :
           /\ WaitsOn(i, k, h.on)
           /\ RouteMoved(i, status)
    BY <1>1, RejectStageEffect, FinishRouteEffect
  <1>4. ASSUME NEW j \in Routes \ {i}, NEW l \in Stages, NEW q \in Requests,
               WaitsOn(j, l, q), request[q].status = "pending"
        PROVE  request'[q].status = "pending"
    <2>1. q # h.on
      BY <1>2, <1>3, <1>4, WaitsApart
    <2>2. QED
      BY <1>1, <1>4, <2>1 DEF OnlyVoted
  <1>5. LivePending'
    <2>1. \A j \in Routes \ {i} : route'[j] = route[j]
      BY <1>3 DEF RouteMoved
    <2>2. route'[i].status # "in_progress"
      BY <1>3 DEF RouteMoved
    <2>3. QED
      BY <1>4, <2>1, <2>2, PendingKept DEF LivePending, WaitsInv
  <1>6. request[h.on].status # "unused"
    BY <1>2, <1>3, WaitsApart
  <1>7. \A q \in Requests, j \in Routes, l \in Stages : WaitsOn(j, l, q)' => WaitsOn(j, l, q)
    BY <1>3 DEF RouteMoved, WaitsOn
  <1>8. QED
    BY <1>1, <1>5, <1>6, <1>7, VotedUsed DEF OnlyNewWaits

\* A stage approved waits no more; the one opened waits on the request just raised.
LEMMA ApproveStageWaits ==
    ASSUME RoutesInv, WaitsInv, NEW s \in Slots, ApproveStage(s)
    PROVE  LivePending' /\ OnlyNewWaits
  <1> DEFINE h == inflight[s]
  <1>1. TypeOK /\ Deciding(s)
    BY DEF RoutesInv, QuorumInv, ApproveStage
  <1>2. h.on \in Requests /\ Voted(h).status = "approved"
    BY <1>1, VotedFields DEF ApproveStage
  <1>3. PICK i \in Routes, k \in Stages, next \in Stages, f \in Requests :
           /\ WaitsOn(i, k, h.on)
           /\ RouteMoved(i, "in_progress")
           /\ request[f].status = "unused"
           /\ next # k
           /\ \A l \in Stages : /\ route'[i].steps[l].status =
                                      IF l = next THEN "in_progress"
                                      ELSE IF l = k THEN "approved"
                                      ELSE route[i].steps[l].status
                                /\ route'[i].steps[l].request =
                                      IF l = next THEN f ELSE route[i].steps[l].request
           /\ \A q \in Requests : request'[q] =
                 IF q = f THEN NewRequest(route[i].about, route[i].startedBy, Required[next])
                 ELSE IF q = h.on THEN Voted(h)
                 ELSE request[q]
    BY <1>1, ApproveStageEffect
  <1>4. request'[f].status = "pending" /\ request'[h.on].status \in {"pending", "approved"}
        /\ \A q \in Requests \ {f, h.on} : request'[q] = request[q]
    BY <1>2, <1>3 DEF NewRequest
  <1>5. ASSUME NEW j \in Routes, NEW l \in Stages, NEW q \in Requests, WaitsOn(j, l, q),
               j # i \/ l # k
        PROVE  request'[q] = request[q]
    <2>1. q # h.on /\ q # f
      BY <1>2, <1>3, <1>5, WaitsApart
    <2>2. QED
      BY <1>4, <2>1
  <1>6. ASSUME NEW j \in Routes, NEW l \in Stages, route'[j].status = "in_progress",
               route'[j].steps[l].status = "in_progress", route'[j].steps[l].request # 0
        PROVE  request'[route'[j].steps[l].request].status = "pending"
    <2>1. CASE j # i
      <3>1. route'[j] = route[j]
        BY <1>3, <2>1 DEF RouteMoved
      <3>2. QED
        BY <1>5, <1>6, <2>1, <3>1, PendingKept DEF WaitsInv
    <2>2. CASE j = i /\ l = next
      BY <1>3, <1>4, <2>2
    <2>3. CASE j = i /\ l # next
      <3>1. l # k /\ route[i].steps[l].status = "in_progress"
            /\ route'[i].steps[l].request = route[i].steps[l].request
        BY <1>3, <1>6, <2>3
      <3>2. PICK q \in Requests : q = route[i].steps[l].request
        BY <1>6, <2>3, <3>1, StageRequest DEF RoutesInv
      <3>3. WaitsOn(i, l, q)
        BY <1>3, <3>2 DEF WaitsOn
      <3>4. request[q].status = "pending"
        BY <1>6, <2>3, <3>1, <3>2, <3>3 DEF WaitsInv, LivePending, WaitsOn
      <3>5. QED
        BY <1>5, <2>3, <3>1, <3>2, <3>3, <3>4
    <2>4. QED
      BY <2>1, <2>2, <2>3
  <1>7. LivePending'
    BY <1>6 DEF LivePending
  <1>8. \A q \in Requests : request'[q].status = "unused" => request[q].status = "unused"
    BY <1>4
  <1>9. ASSUME NEW q \in Requests, NEW j \in Routes, NEW l \in Stages,
               request[q].status # "unused", WaitsOn(j, l, q)'
        PROVE  WaitsOn(j, l, q)
    <2>1. CASE j # i
      BY <1>3, <1>9, <2>1 DEF RouteMoved, WaitsOn
    <2>2. CASE j = i
      BY <1>3, <1>9, <2>2 DEF WaitsOn
    <2>3. QED
      BY <2>1, <2>2
  <1>10. QED
    BY <1>7, <1>8, <1>9 DEF OnlyNewWaits

\* A cancel closes what its own route waits on, and the route.
LEMMA CancelWaits ==
    ASSUME RoutesInv, WaitsInv, NEW s \in Slots, Cancel(s)
    PROVE  LivePending' /\ OnlyNewWaits
  <1> DEFINE h == inflight[s]
             gone == h.openRequests \cup ({h.on} \ {0})
  <1>1. TypeOK
    BY DEF RoutesInv, QuorumInv
  <1>2. /\ h.op = "cancel"
        /\ h.route = 0 => route' = route
        /\ h.route # 0 => RouteMoved(h.route, "cancelled") /\ SameAsked(h.route) /\ h.route \in Routes
        /\ \A q \in Requests : request'[q].status = IF q \in gone THEN "cancelled"
                                                    ELSE request[q].status
    BY <1>1, CancelEffect
  <1>3. ASSUME NEW j \in Routes, NEW l \in Stages, NEW q \in Requests,
               WaitsOn(j, l, q), j # h.route
        PROVE  request'[q].status = request[q].status
    <2>1. q \notin gone
      BY <1>2, <1>3 DEF WaitsInv, CancelsOwn
    <2>2. QED
      BY <1>2, <2>1
  <1>4. \A j \in Routes : j # h.route => route'[j] = route[j]
    BY <1>2 DEF RouteMoved
  <1>5. \A j \in Routes : j = h.route => route'[j].status = "cancelled"
    BY <1>2, BoundAssumption DEF RouteMoved
  <1>6. LivePending'
    <2> SUFFICES ASSUME NEW j \in Routes, NEW l \in Stages, route'[j].status = "in_progress",
                        route'[j].steps[l].status = "in_progress", route'[j].steps[l].request # 0
                 PROVE  request'[route'[j].steps[l].request].status = "pending"
      BY DEF LivePending
    <2>1. j # h.route /\ route'[j] = route[j]
      BY <1>4, <1>5
    <2>2. QED
      BY <1>3, <2>1, PendingKept DEF WaitsInv
  <1>7. \A q \in Requests, j \in Routes, l \in Stages : WaitsOn(j, l, q)' => WaitsOn(j, l, q)
    BY <1>4, <1>5 DEF WaitsOn
  <1>8. QED
    BY <1>2, <1>6, <1>7 DEF OnlyNewWaits

\* A new route waits on the request just raised.
LEMMA StartRouteWaits ==
    ASSUME RoutesInv, WaitsInv, NEW r, NEW u, StartRoute(r, u)
    PROVE  LivePending' /\ OnlyNewWaits
  <1>1. PICK i \in Routes, f \in Requests :
           /\ \A j \in Routes \ {i} : route'[j] = route[j]
           /\ \A l \in Stages :
                 /\ route'[i].steps[l].status = IF l = 1 THEN "in_progress" ELSE "pending"
                 /\ route'[i].steps[l].request = IF l = 1 THEN f ELSE 0
           /\ OnlyRaised(f, r, u, Required[1])
    BY StartRouteEffect DEF RoutesInv, QuorumInv
  <1>2. /\ request[f].status = "unused"
        /\ request'[f].status = "pending"
        /\ \A q \in Requests \ {f} : request'[q] = request[q]
    BY <1>1 DEF OnlyRaised, NewRequest
  <1>3. ASSUME NEW j \in Routes, NEW l \in Stages, route'[j].status = "in_progress",
               route'[j].steps[l].status = "in_progress", route'[j].steps[l].request # 0
        PROVE  request'[route'[j].steps[l].request].status = "pending"
    <2>1. CASE j = i
      BY <1>1, <1>2, <1>3, <2>1
    <2>2. CASE j # i
      BY <1>1, <1>2, <1>3, <2>2, PendingKept DEF WaitsInv
    <2>3. QED
      BY <2>1, <2>2
  <1>4. LivePending'
    BY <1>3 DEF LivePending
  <1>5. ASSUME NEW q \in Requests, NEW j \in Routes, NEW l \in Stages,
               request[q].status # "unused", WaitsOn(j, l, q)'
        PROVE  WaitsOn(j, l, q)
    <2>1. j # i
      BY <1>1, <1>2, <1>5, BoundAssumption DEF WaitsOn
    <2>2. QED
      BY <1>1, <1>5, <2>1 DEF WaitsOn
  <1>6. QED
    BY <1>2, <1>4, <1>5 DEF OnlyNewWaits

\* A deleted request leaves its stage with none; a raised one is nobody's stage.
LEMMA MeanwhileWaits ==
    ASSUME RoutesInv, WaitsInv,
           \/ \E u \in Users, q \in Requests : DeleteRequest(u, q)
           \/ \E u \in Users, r \in Records, n \in ByHand : RaiseRequest(u, r, n)
    PROVE  LivePending' /\ OnlyNewWaits
  <1>1. TypeOK
    BY DEF RoutesInv, QuorumInv
  <1>2. ASSUME NEW u \in Users, NEW q \in Requests, DeleteRequest(u, q)
        PROVE  LivePending' /\ OnlyNewWaits
    <2>1. /\ \A i \in Routes :
                /\ route'[i].status = route[i].status
                /\ \A l \in Stages :
                      /\ route'[i].steps[l].status = route[i].steps[l].status
                      /\ route'[i].steps[l].request =
                            IF route[i].steps[l].request = q THEN 0 ELSE route[i].steps[l].request
          /\ request'[q].status = "deleted"
          /\ \A p \in Requests \ {q} : request'[p] = request[p]
      BY <1>1, <1>2, DeleteRequestEffect
    <2>2. ASSUME NEW j \in Routes, NEW l \in Stages, route'[j].status = "in_progress",
                 route'[j].steps[l].status = "in_progress", route'[j].steps[l].request # 0
          PROVE  request'[route'[j].steps[l].request].status = "pending"
      <3>1. route[j].steps[l].request # q /\ route'[j].steps[l].request = route[j].steps[l].request
        BY <2>1, <2>2
      <3>2. route[j].steps[l].request \in Requests
        BY <2>2, <3>1, StageRequest DEF RoutesInv
      <3>3. request[route[j].steps[l].request].status = "pending"
        BY <2>1, <2>2, <3>1 DEF WaitsInv, LivePending
      <3>4. QED
        BY <2>1, <3>1, <3>2, <3>3
    <2>3. LivePending'
      BY <2>2 DEF LivePending
    <2>4. \A p \in Requests, j \in Routes, l \in Stages : WaitsOn(j, l, p)' => WaitsOn(j, l, p)
      BY <2>1, BoundAssumption DEF WaitsOn
    <2>5. QED
      BY <2>1, <2>3, <2>4 DEF OnlyNewWaits
  <1>3. ASSUME NEW u \in Users, NEW r \in Records, NEW n \in ByHand, RaiseRequest(u, r, n)
        PROVE  LivePending' /\ OnlyNewWaits
    <2>1. PICK f \in Requests : FreshRequest = f /\ request[f].status = "unused"
      BY <1>3, FreshRequestUnused DEF RaiseRequest
    <2>2. route' = route /\ \A q \in Requests \ {f} : request'[q] = request[q]
      BY <1>1, <1>3, <2>1 DEF RaiseRequest, TypeOK
    <2>3. LivePending'
      BY <2>1, <2>2, PendingKept DEF LivePending, WaitsInv
    <2>4. \A q \in Requests, j \in Routes, l \in Stages : WaitsOn(j, l, q)' => WaitsOn(j, l, q)
      BY <2>2 DEF WaitsOn
    <2>5. QED
      BY <2>1, <2>2, <2>3, <2>4 DEF OnlyNewWaits
  <1>4. QED
    BY <1>2, <1>3

\* What a cancel loads is of its own route.
LEMMA LoadCancelsOwn ==
    ASSUME RoutesInv, NEW s \in Slots, NEW u \in Users, Load(s, u)
    PROVE  /\ UNCHANGED <<request, route>>
           /\ \E h : /\ Loaded(s, h)
                     /\ h.op = "cancel" => CancelsOwn(h)
  <1>1. ASSUME NEW i \in Routes, NEW q \in Requests \cup {0}, route[i].status = "in_progress",
               q # 0 => \E k \in Stages : route[i].steps[k].request = q
        PROVE  CancelsOwn(Cancelling(u, q, i))
    <2> DEFINE h == Cancelling(u, q, i)
    <2>1. /\ h.route = i /\ h.on = q
          /\ \A p \in h.openRequests : \E k \in Stages : route[i].steps[k].request = p
      BY DEF Cancelling, Undecided
    <2>2. ASSUME NEW p \in Requests, p \in h.openRequests \cup {h.on}
          PROVE  /\ request[p].status # "unused"
                 /\ \A j \in Routes, l \in Stages : WaitsOn(j, l, p) => j = h.route
      <3>1. p # 0
        BY BoundAssumption
      <3>2. PICK k \in Stages : WaitsOn(i, k, p)
        BY <1>1, <2>1, <2>2, <3>1 DEF WaitsOn
      <3>3. QED
        BY <2>1, <3>2, WaitsApart
    <2> HIDE DEF h
    <2>3. CancelsOwn(h)
      BY <2>2 DEF CancelsOwn
    <2>4. QED
      BY <2>3 DEF h
  <1>2. ASSUME NEW q \in Requests, LoadCancel(s, u, q)
        PROVE  \E h : Loaded(s, h) /\ (h.op = "cancel" => CancelsOwn(h))
    <2>1. ASSUME StageOf(q) = {}, NEW h,
                 h = [op |-> "cancel", by |-> u, on |-> q, route |-> 0,
                      openSteps |-> {}, openRequests |-> {}]
          PROVE  CancelsOwn(h)
      <3>1. h.on = q /\ h.openRequests = {}
        BY <2>1
      <3>2. \A i \in Routes, k \in Stages : ~WaitsOn(i, k, q)
        BY <2>1, StageOfPairs
      <3>3. request[q].status # "unused"
        BY <1>2 DEF LoadCancel
      <3>4. QED
        BY <3>1, <3>2, <3>3 DEF CancelsOwn
    <2>2. ASSUME NEW p \in StageOf(q)
          PROVE  CancelsOwn(Cancelling(u, q, p[1]))
      <3>1. /\ p[1] \in Routes /\ p[2] \in Stages
            /\ route[p[1]].status = "in_progress" /\ route[p[1]].steps[p[2]].request = q
        BY StageOfPairs DEF WaitsOn
      <3>2. QED
        BY <1>1, <3>1
    <2>3. QED
      BY <1>2, <2>1, <2>2 DEF LoadCancel
  <1>3. ASSUME NEW i \in Routes, LoadCancelRoute(s, u, i)
        PROVE  \E h : Loaded(s, h) /\ (h.op = "cancel" => CancelsOwn(h))
    <2>1. CancelsOwn(Cancelling(u, 0, i))
      BY <1>1, <1>3 DEF LoadCancelRoute
    <2>2. QED
      BY <1>3, <2>1 DEF LoadCancelRoute
  <1>4. ASSUME NEW q \in Requests, NEW yes \in BOOLEAN, LoadDecision(s, u, q, yes)
        PROVE  \E h : Loaded(s, h) /\ (h.op = "cancel" => CancelsOwn(h))
    BY <1>4 DEF LoadDecision
  <1>5. ASSUME NEW r \in Records, NEW a \in DOMAIN Transitions, LoadTransition(s, u, r, a)
        PROVE  \E h : Loaded(s, h) /\ (h.op = "cancel" => CancelsOwn(h))
    <2>1. a # "cancel"
      BY DEF Transitions
    <2>2. QED
      BY <1>5, <2>1 DEF LoadTransition
  <1>6. ASSUME NEW r \in Records, LoadStart(s, u, r)
        PROVE  \E h : Loaded(s, h) /\ (h.op = "cancel" => CancelsOwn(h))
    BY <1>6 DEF LoadStart
  <1>7. \E h : Loaded(s, h) /\ (h.op = "cancel" => CancelsOwn(h))
    BY <1>2, <1>3, <1>4, <1>5, <1>6 DEF Load
  <1>8. QED
    BY <1>7 DEF Loaded

\* Whatever overlaps, a live route keeps waiting.
LEMMA NextWaits ==
    ASSUME RoutesInv, WaitsInv, [Next]_vars
    PROVE  WaitsInv'
  <1>1. TypeOK
    BY DEF RoutesInv, QuorumInv
  <1>2. ASSUME LivePending', OnlyNewWaits,
               \A t \in Slots : inflight'[t] \in {inflight[t], Idle}
        PROVE  WaitsInv'
    <2> SUFFICES ASSUME NEW t \in Slots, inflight'[t].op = "cancel"
                 PROVE  CancelsOwn(inflight[t])'
      BY <1>2 DEF WaitsInv
    <2>1. inflight'[t] = inflight[t]
      BY <1>2 DEF Idle
    <2>2. CancelsOwn(inflight[t])
      BY <2>1 DEF WaitsInv
    <2>3. QED
      BY <1>2, <2>1, <2>2 DEF OnlyNewWaits, CancelsOwn
  <1>3. UNCHANGED <<request, route>> => LivePending' /\ OnlyNewWaits
    BY DEF WaitsInv, LivePending, OnlyNewWaits, WaitsOn
  <1>4. ASSUME NEW s \in Slots, Commit(s)
        PROVE  WaitsInv'
    <2>1. Done(s)
      BY <1>4 DEF Commit, PartialVote, DecideAlone, RejectStage, ApproveStage, FinishRoute,
         Deciding, Cancel, Transition, Start
    <2>2. CASE Transition(s)
      BY <1>3, <2>2, StartRouteWaits, <1>2, <2>1, <1>1 DEF Transition, Done, TypeOK
    <2>3. CASE Start(s)
      BY <2>3, StartRouteWaits, <1>2, <2>1, <1>1 DEF Start, Done, TypeOK
    <2>4. CASE ~Transition(s) /\ ~Start(s)
      <3>1. LivePending' /\ OnlyNewWaits
        BY <1>4, <2>4, BesideRoutesWaits, EndingWaits, ApproveStageWaits, CancelWaits DEF Commit
      <3>2. QED
        BY <1>1, <1>2, <2>1, <3>1 DEF Done, TypeOK
    <2>5. QED
      BY <2>2, <2>3, <2>4
  <1>5. ASSUME NEW s \in Slots, NEW u \in Users, Load(s, u)
        PROVE  WaitsInv'
    <2>1. PICK h : Loaded(s, h) /\ (h.op = "cancel" => CancelsOwn(h))
      BY <1>5, LoadCancelsOwn
    <2>2. LivePending' /\ OnlyNewWaits
      BY <1>3, <1>5, LoadCancelsOwn
    <2>3. ASSUME NEW t \in Slots, inflight'[t].op = "cancel"
          PROVE  CancelsOwn(inflight[t])'
      <3>1. CASE t = s
        <4>1. inflight'[t] = h
          BY <1>1, <2>1, <3>1 DEF Loaded, TypeOK
        <4>2. QED
          BY <2>1, <2>2, <2>3, <4>1 DEF OnlyNewWaits, CancelsOwn
      <3>2. CASE t # s
        <4>1. inflight'[t] = inflight[t]
          BY <1>1, <2>1, <3>2 DEF Loaded, TypeOK
        <4>2. CancelsOwn(inflight[t])
          BY <2>3, <4>1 DEF WaitsInv
        <4>3. QED
          BY <2>2, <4>1, <4>2 DEF OnlyNewWaits, CancelsOwn
      <3>3. QED
        BY <3>1, <3>2
    <2>4. QED
      BY <2>2, <2>3 DEF WaitsInv
  <1>6. ASSUME NEW s \in Slots, Rollback(s)
        PROVE  WaitsInv'
    BY <1>1, <1>2, <1>3, <1>6 DEF Rollback, Done, TypeOK
  <1>7. CASE \/ \E u \in Users, q \in Requests : DeleteRequest(u, q)
             \/ \E u \in Users, r \in Records, n \in ByHand : RaiseRequest(u, r, n)
    <2>1. inflight' = inflight
      BY <1>7 DEF DeleteRequest, RaiseRequest
    <2>2. QED
      BY <1>2, <1>7, <2>1, MeanwhileWaits
  <1>8. CASE SwitchDefinition \/ UNCHANGED vars
    BY <1>2, <1>3, <1>8 DEF SwitchDefinition, vars
  <1>9. QED
    BY <1>4, <1>5, <1>6, <1>7, <1>8 DEF Next

\* What holds of the routes, and what they wait on, is invariant.
LEMMA WaitsInvariant == Spec => [](RoutesInv /\ WaitsInv)
  <1>1. Init => WaitsInv
    BY DEF Init, WaitsInv, LivePending, UnusedRoute, Idle
  <1>2. RoutesInv /\ WaitsInv /\ [Next]_vars => WaitsInv'
    BY NextWaits
  <1>3. Spec => []RoutesInv
    <2>1. (TypeOK /\ OrderInv) /\ (QuorumInv /\ AskedInv) => RoutesInv
      BY DEF RoutesInv
    <2>2. QED
      BY <2>1, OrderInvariant, AskedInvariant, PTL
  <1>4. QED
    BY <1>1, <1>2, <1>3, PTL DEF Spec

\* _open_stage: however many handlers overlap, the stage a live route stands at waits on a
\* pending request about the route's record, unless that request was deleted.
THEOREM LiveRoutesWait == Spec => []LiveRouteWaits
  <1>1. ASSUME RoutesInv, WaitsInv, NEW i \in Routes, route[i].status = "in_progress",
               route[i].steps[CurrentStep(route[i].steps)].request # 0
        PROVE  LET q == route[i].steps[CurrentStep(route[i].steps)].request IN
               request[q].status = "pending" /\ request[q].about = route[i].about
    <2> DEFINE n == CurrentStep(route[i].steps)
    <2>1. PICK k \in Stages : StandsAt(i, k)
      BY <1>1 DEF RoutesInv, OrderInv, OrderSound
    <2>2. k \in Undecided(route[i].steps) /\ \A j \in Undecided(route[i].steps) : k <= j
      BY <2>1, RouteAssumption DEF StandsAt, Undecided, Stages
    <2>3. n \in Undecided(route[i].steps) /\ \A j \in Undecided(route[i].steps) : n <= j
      BY <2>2 DEF CurrentStep
    <2>4. n = k
      <3> HIDE DEF n
      <3>1. n \in Nat /\ k \in Nat
        BY <2>1, <2>3, RouteAssumption DEF Undecided, Stages
      <3>2. QED
        BY <2>2, <2>3, <3>1
    <2> HIDE DEF n
    <2>5. StepSound(i, k)
      BY <1>1, <2>1 DEF RoutesInv, QuorumInv, StepsSound
    <2>6. route[i].steps[k].request # 0
      BY <1>1, <2>4 DEF n
    <2>7. request[route[i].steps[k].request].status = "pending"
          /\ request[route[i].steps[k].request].about = route[i].about
      BY <1>1, <2>1, <2>5, <2>6 DEF WaitsInv, LivePending, StepSound, StandsAt
    <2>8. QED
      BY <2>4, <2>7 DEF n
  <1>2. RoutesInv /\ WaitsInv => LiveRouteWaits
    BY <1>1 DEF LiveRouteWaits
  <1>3. QED
    BY <1>2, WaitsInvariant, PTL

-----------------------------------------------------------------------------
(***************************************************************************)
(* One handler at a time: nothing is left open behind a route              *)
(***************************************************************************)
\* The handlers run one after the other; requests are still raised and deleted, and
\* definitions switched, between the two steps of one.
OneHandler == \A s, t \in Slots : s = t

\* What a handler in flight loaded is still so when it commits, but for a request
\* deleted meanwhile.
CancelFresh(h) ==
    /\ h.route = 0 => StageOf(h.on) = {} /\ h.openRequests = {}
    /\ h.route # 0 =>
          /\ route[h.route].status = "in_progress"
          /\ h.openSteps = Undecided(route[h.route].steps)
          /\ \A k \in h.openSteps : LET q == route[h.route].steps[k].request IN
                q # 0 /\ request[q].status = "pending" => q \in h.openRequests
          /\ \A q \in h.openRequests \cup ({h.on} \ {0}) :
                \A p \in StageOf(q) : p[1] = h.route
HandlerFresh(s) ==
    LET h == inflight[s] IN
    /\ h.op = "decide" => request[h.on].status \in {"pending", "deleted"}
    /\ h.op = "cancel" => CancelFresh(h)
HandlersFresh == \A s \in Slots : HandlerFresh(s)

\* Only the stage a live route stands at has a request that is still pending.
StageSettled(i, k) ==
    LET step == route[i].steps[k] IN
    step.request # 0 =>
        IF route[i].status = "in_progress" /\ step.status = "in_progress"
        THEN request[step.request].status = "pending"
        ELSE request[step.request].status # "pending"
StagesSettled == \A i \in Routes, k \in Stages : StageSettled(i, k)

\* A route that has ended has decided or skipped every stage.
RouteSettled(i) ==
    route[i].status \in {"approved", "rejected", "cancelled"} => Undecided(route[i].steps) = {}
RoutesSettled == \A i \in Routes : RouteSettled(i)

\* A pending request is a stage of a live route, or was raised by hand.
PendingIsStage ==
    \A q \in Requests : request[q].status = "pending" =>
        StageOf(q) # {} \/ request[q].required \in ByHand

SettledInv == StagesSettled /\ RoutesSettled /\ PendingIsStage

\* A live route whose stage waits on a pending request stands at that stage.
LEMMA StandsWhereAsked ==
    ASSUME RoutesInv, StagesSettled, NEW i, NEW k, NEW q \in Requests, WaitsOn(i, k, q),
           request[q].status = "pending"
    PROVE  /\ StandsAt(i, k)
           /\ \A j \in Stages \ {k} : \/ route[i].steps[j].status = "approved"
                                      \/ /\ route[i].steps[j].status = "pending"
                                         /\ route[i].steps[j].request = 0
           /\ \A j \in Routes, l \in Stages :
                 route[j].steps[l].request = q => j = i /\ l = k
  <1>1. i \in Routes /\ k \in Stages /\ route[i].steps[k].request = q /\ q # 0
    BY BoundAssumption DEF WaitsOn
  <1>2. PICK n \in Stages : /\ StandsAt(i, n)
                            /\ k # n => route[i].steps[k].status = "approved"
    BY StandsBeyond DEF RoutesInv
  <1>3. route[i].steps[k].status = "in_progress"
    BY <1>1 DEF StagesSettled, StageSettled
  <1>4. k = n
    BY <1>2, <1>3
  <1>5. \A j \in Stages \ {k} : j < k \/ j > k
    BY <1>1, RouteAssumption DEF Stages
  <1>6. \A j \in Stages \ {k} : \/ route[i].steps[j].status = "approved"
                                \/ route[i].steps[j].status = "pending"
    BY <1>2, <1>4, <1>5 DEF StandsAt
  <1>7. \A j \in Stages : route[i].steps[j].status = "pending" => route[i].steps[j].request = 0
    BY <1>1 DEF RoutesInv, OrderInv, OrderSound
  <1>8. \A j \in Routes, l \in Stages : route[j].steps[l].request = q => j = i /\ l = k
    BY <1>1 DEF RoutesInv, AskedInv, OneStageEach
  <1>9. QED
    BY <1>2, <1>4, <1>6, <1>7, <1>8

\* When a stage is settled is told by the status of its route, of itself and of its request.
LEMMA SettledFrame ==
    ASSUME RoutesInv, StagesSettled, NEW i \in Routes, NEW k \in Stages,
           route'[i].status = route[i].status,
           route'[i].steps[k].status = route[i].steps[k].status,
           route'[i].steps[k].request \in {0, route[i].steps[k].request},
           route[i].steps[k].request # 0 =>
               \/ route'[i].steps[k].request = 0
               \/ request'[route[i].steps[k].request].status
                     = request[route[i].steps[k].request].status
    PROVE  StageSettled(i, k)'
  BY DEF StagesSettled, StageSettled

\* A partial vote changes no status.
LEMMA PartialVoteSettled ==
    ASSUME RoutesInv, SettledInv, HandlersFresh, NEW s \in Slots, PartialVote(s)
    PROVE  SettledInv'
  <1>1. TypeOK /\ Deciding(s)
    BY DEF RoutesInv, QuorumInv, PartialVote
  <1>2. \A q \in Requests : /\ request'[q].status = request[q].status
                            /\ request'[q].required = request[q].required
    BY <1>1, VotedFields, VotedOnly DEF PartialVote, OnlyVoted
  <1>3. route' = route
    BY DEF PartialVote
  <1>4. StagesSettled'
    <2> SUFFICES ASSUME NEW i \in Routes, NEW k \in Stages PROVE StageSettled(i, k)'
      BY DEF StagesSettled
    <2>1. route[i].steps[k].request # 0 => route[i].steps[k].request \in Requests
      BY StageRequest DEF RoutesInv
    <2>2. QED
      BY <1>2, <1>3, <2>1, SettledFrame DEF SettledInv
  <1>5. RoutesSettled'
    BY <1>3 DEF SettledInv, RoutesSettled, RouteSettled
  <1>6. PendingIsStage'
    BY <1>2, <1>3 DEF SettledInv, PendingIsStage, StageOf
  <1>7. QED
    BY <1>4, <1>5, <1>6 DEF SettledInv

\* A request that is no stage of a live route is settled beside the routes.
LEMMA DecideAloneSettled ==
    ASSUME RoutesInv, SettledInv, HandlersFresh, NEW s \in Slots, DecideAlone(s)
    PROVE  SettledInv'
  <1> DEFINE h == inflight[s]
  <1>1. TypeOK /\ Deciding(s) /\ OnlyVoted(s)
    BY VotedOnly DEF RoutesInv, QuorumInv, DecideAlone
  <1>2. h.on \in Requests /\ Voted(h).status \in {"approved", "rejected"}
    BY <1>1, VotedFields DEF DecideAlone
  <1>3. route' = route /\ StageOf(h.on) = {}
    BY DEF DecideAlone
  <1>4. StagesSettled'
    <2> SUFFICES ASSUME NEW i \in Routes, NEW k \in Stages, route[i].steps[k].request # 0
                 PROVE  StageSettled(i, k)'
      BY <1>3 DEF StagesSettled, StageSettled
    <2>1. route[i].steps[k].request \in Requests
      BY StageRequest DEF RoutesInv
    <2>2. CASE route[i].steps[k].request = h.on
      <3>1. route[i].status # "in_progress"
        BY <1>3, <2>2, StageOfPairs DEF WaitsOn
      <3>2. QED
        BY <1>1, <1>2, <1>3, <2>2, <3>1 DEF OnlyVoted, StageSettled
    <2>3. CASE route[i].steps[k].request # h.on
      BY <1>1, <1>3, <2>1, <2>3, SettledFrame DEF OnlyVoted, SettledInv
    <2>4. QED
      BY <2>2, <2>3
  <1>5. RoutesSettled'
    BY <1>3 DEF SettledInv, RoutesSettled, RouteSettled
  <1>6. PendingIsStage'
    BY <1>1, <1>2, <1>3 DEF SettledInv, PendingIsStage, StageOf, OnlyVoted
  <1>7. QED
    BY <1>4, <1>5, <1>6 DEF SettledInv

\* Route i stands at stage k, which waits on request q: no other stage has q, or waits.
OnlyWait(i, k, q) ==
    /\ request[q].status = "pending"
    /\ StandsAt(i, k)
    /\ \A l \in Stages \ {k} :
          /\ route[i].steps[l].status \in {"approved", "pending"}
          /\ route[i].steps[l].status = "pending" => route[i].steps[l].request = 0
          /\ route[i].steps[l].request # 0 =>
                request[route[i].steps[l].request].status # "pending"
    /\ \A j \in Routes, l \in Stages : route[j].steps[l].request = q => j = i /\ l = k
    /\ \A p \in Requests \ {q}, j \in Routes, l \in Stages :
          request[p].status = "pending" /\ WaitsOn(j, l, p) => j # i

\* The stage a decision is about is the one its route stands at, and no other stage of
\* that route has a pending request.
LEMMA DecidedStage ==
    ASSUME RoutesInv, SettledInv, HandlersFresh, NEW s \in Slots, Deciding(s),
           NEW i, NEW k, WaitsOn(i, k, inflight[s].on)
    PROVE  OnlyWait(i, k, inflight[s].on)
  <1> DEFINE h == inflight[s]
  <1>1. TypeOK /\ h.on \in Requests /\ h.op = "decide" /\ request[h.on].status # "deleted"
    BY DecidingType DEF RoutesInv, QuorumInv, Deciding
  <1>2. request[h.on].status = "pending"
    BY <1>1 DEF HandlersFresh, HandlerFresh
  <1>3. i \in Routes /\ k \in Stages
    BY DEF WaitsOn
  <1>4. /\ StandsAt(i, k)
        /\ \A l \in Stages \ {k} : \/ route[i].steps[l].status = "approved"
                                   \/ /\ route[i].steps[l].status = "pending"
                                      /\ route[i].steps[l].request = 0
        /\ \A j \in Routes, l \in Stages :
                 route[j].steps[l].request = h.on => j = i /\ l = k
    BY <1>1, <1>2, StandsWhereAsked DEF SettledInv
  <1>5. \A l \in Stages \ {k} : route[i].steps[l].request # 0 =>
            request[route[i].steps[l].request].status # "pending"
    BY <1>3, <1>4 DEF SettledInv, StagesSettled, StageSettled
  <1>6. ASSUME NEW q \in Requests \ {h.on}, NEW j, NEW l,
               request[q].status = "pending", WaitsOn(j, l, q)
        PROVE  j # i
    <2>1. q # 0 /\ l \in Stages /\ route[j].steps[l].request = q
      BY <1>6, BoundAssumption DEF WaitsOn
    <2>2. CASE j = i
      <3>1. l # k
        BY <1>6, <2>1, <2>2 DEF WaitsOn
      <3>2. QED
        BY <1>5, <1>6, <2>1, <2>2, <3>1
    <2>3. QED
      BY <2>2
  <1>7. QED
    BY <1>2, <1>4, <1>5, <1>6 DEF OnlyWait

\* A pending request that waits on another route than the one that moved still waits.
LEMMA StillWaits ==
    ASSUME NEW i, NEW q, \A j \in Routes \ {i} : route'[j] = route[j],
           NEW j, NEW l, WaitsOn(j, l, q), j # i
    PROVE  StageOf(q)' # {}
  <1>1. <<j, l>> \in Routes \X Stages
    BY DEF WaitsOn
  <1>2. route'[j] = route[j]
    BY DEF WaitsOn
  <1>3. <<j, l>> \in StageOf(q)'
    BY <1>1, <1>2 DEF WaitsOn, StageOf
  <1>4. QED
    BY <1>3

\* When a stage's route ends with its decision, so do all its stages and requests.
LEMMA EndedSettled ==
    ASSUME RoutesInv, SettledInv, HandlersFresh, NEW s \in Slots, Deciding(s),
           NEW i \in Routes, NEW k \in Stages, WaitsOn(i, k, inflight[s].on),
           NEW status \in {"approved", "rejected"}, RouteMoved(i, status), SameAsked(i),
           OnlyVoted(s), Voted(inflight[s]).status \in {"approved", "rejected"},
           Undecided(route'[i].steps) = {}
    PROVE  SettledInv'
  <1> DEFINE h == inflight[s]
  <1>1. /\ h.on \in Requests
        /\ \A l \in Stages \ {k} : route[i].steps[l].request # 0 =>
                 request[route[i].steps[l].request].status # "pending"
        /\ \A j \in Routes, l \in Stages :
                 route[j].steps[l].request = h.on => j = i /\ l = k
        /\ \A q \in Requests \ {h.on}, j \in Routes, l \in Stages :
                 request[q].status = "pending" /\ WaitsOn(j, l, q) => j # i
    <2>1. h.on \in Requests
      BY DecidingType DEF RoutesInv, QuorumInv
    <2>2. OnlyWait(i, k, h.on)
      BY DecidedStage
    <2>3. QED
      BY <2>1, <2>2 DEF OnlyWait
  <1>2. StagesSettled'
    <2> SUFFICES ASSUME NEW j \in Routes, NEW l \in Stages, route'[j].steps[l].request # 0
                 PROVE  StageSettled(j, l)'
      BY DEF StagesSettled, StageSettled
    <2>1. route'[j].steps[l].request = route[j].steps[l].request
      BY DEF RouteMoved, SameAsked
    <2>2. route[j].steps[l].request \in Requests
      BY <2>1, StageRequest DEF RoutesInv
    <2>3. CASE j = i /\ l = k
      <3>1. request'[h.on].status # "pending" /\ route[i].steps[k].request = h.on
        BY <1>1 DEF OnlyVoted, WaitsOn
      <3>2. QED
        BY <2>1, <2>3, <3>1 DEF StageSettled, RouteMoved
    <2>4. CASE j = i /\ l # k
      <3>1. request'[route[i].steps[l].request] = request[route[i].steps[l].request]
        BY <1>1, <2>2, <2>4 DEF OnlyVoted
      <3>2. request[route[i].steps[l].request].status # "pending"
        BY <1>1, <2>2, <2>4, BoundAssumption
      <3>3. QED
        BY <2>1, <2>4, <3>1, <3>2 DEF StageSettled, RouteMoved
    <2>5. CASE j # i
      <3>1. route'[j] = route[j] /\ request'[route[j].steps[l].request] = request[route[j].steps[l].request]
        BY <1>1, <2>2, <2>5 DEF OnlyVoted, RouteMoved
      <3>2. QED
        BY <3>1, SettledFrame DEF SettledInv
    <2>6. QED
      BY <2>3, <2>4, <2>5
  <1>3. RoutesSettled'
    <2> SUFFICES ASSUME NEW j \in Routes PROVE RouteSettled(j)'
      BY DEF RoutesSettled
    <2>1. CASE j = i
      BY <2>1 DEF RouteSettled, Undecided
    <2>2. CASE j # i
      BY <2>2 DEF RouteMoved, SettledInv, RoutesSettled, RouteSettled, Undecided
    <2>3. QED
      BY <2>1, <2>2
  <1>4. PendingIsStage'
    <2> SUFFICES ASSUME NEW q \in Requests, request'[q].status = "pending",
                        request'[q].required \notin ByHand
                 PROVE  StageOf(q)' # {}
      BY DEF PendingIsStage
    <2>1. q # h.on /\ request[q].status = "pending" /\ request[q].required \notin ByHand
      BY DEF OnlyVoted
    <2>2. PICK j, l : WaitsOn(j, l, q)
      BY <2>1, StageOfPairs DEF SettledInv, PendingIsStage
    <2>3. j # i
      BY <1>1, <2>1, <2>2 DEF WaitsOn
    <2>4. QED
      BY <2>2, <2>3, StillWaits DEF RouteMoved
  <1>5. QED
    BY <1>2, <1>3, <1>4 DEF SettledInv

\* One rejection settles the route.
LEMMA RejectStageSettled ==
    ASSUME RoutesInv, SettledInv, HandlersFresh, NEW s \in Slots, RejectStage(s)
    PROVE  SettledInv'
  <1>1. TypeOK /\ Deciding(s) /\ OnlyVoted(s) /\ ~inflight[s].yes
    BY VotedOnly DEF RoutesInv, QuorumInv, RejectStage
  <1>2. PICK i \in Routes, k \in Stages :
           /\ WaitsOn(i, k, inflight[s].on)
           /\ RouteMoved(i, "rejected")
           /\ SameAsked(i)
           /\ \A l \in Stages : route'[i].steps[l].status =
                 IF l = k THEN "rejected"
                 ELSE IF route[i].steps[l].status = "pending" THEN "skipped"
                 ELSE route[i].steps[l].status
    BY <1>1, RejectStageEffect
  <1>3. \A l \in Stages \ {k} : route[i].steps[l].status \in {"approved", "pending"}
    BY <1>1, <1>2, DecidedStage DEF OnlyWait
  <1>4. Undecided(route'[i].steps) = {}
    BY <1>2, <1>3 DEF Undecided
  <1>5. Voted(inflight[s]).status = "rejected"
    BY <1>1, VotedFields
  <1>6. QED
    BY <1>1, <1>2, <1>4, <1>5, EndedSettled

\* So does approving its last stage.
LEMMA FinishRouteSettled ==
    ASSUME RoutesInv, SettledInv, HandlersFresh, NEW s \in Slots, FinishRoute(s)
    PROVE  SettledInv'
  <1>1. TypeOK /\ Deciding(s) /\ OnlyVoted(s)
    BY VotedOnly DEF RoutesInv, QuorumInv, FinishRoute
  <1>2. PICK i \in Routes, k \in Stages :
           /\ WaitsOn(i, k, inflight[s].on)
           /\ RouteMoved(i, "approved")
           /\ SameAsked(i)
           /\ Undecided(route'[i].steps) = {}
    BY <1>1, FinishRouteEffect
  <1>3. Voted(inflight[s]).status = "approved"
    BY <1>1, VotedFields DEF FinishRoute
  <1>4. QED
    BY <1>1, <1>2, <1>3, EndedSettled

\* The next stage waits on a request of its own, the one approved on none.
LEMMA ApproveStageSettled ==
    ASSUME RoutesInv, SettledInv, HandlersFresh, NEW s \in Slots, ApproveStage(s)
    PROVE  SettledInv'
  <1> DEFINE h == inflight[s]
  <1>1. TypeOK /\ Deciding(s) /\ h.on \in Requests /\ Voted(h).status = "approved"
    BY VotedFields DEF RoutesInv, QuorumInv, ApproveStage
  <1>2. PICK i \in Routes, k \in Stages, next \in Stages, f \in Requests :
           /\ WaitsOn(i, k, h.on)
           /\ RouteMoved(i, "in_progress")
           /\ request[f].status = "unused"
           /\ next # k
           /\ route[i].steps[next].status \in {"pending", "in_progress"}
           /\ \A l \in Stages : /\ route'[i].steps[l].status =
                                      IF l = next THEN "in_progress"
                                      ELSE IF l = k THEN "approved"
                                      ELSE route[i].steps[l].status
                                /\ route'[i].steps[l].request =
                                      IF l = next THEN f ELSE route[i].steps[l].request
           /\ \A q \in Requests : request'[q] =
                 IF q = f THEN NewRequest(route[i].about, route[i].startedBy, Required[next])
                 ELSE IF q = h.on THEN Voted(h)
                 ELSE request[q]
    BY <1>1, ApproveStageEffect
  <1>3. /\ request[h.on].status = "pending"
        /\ \A l \in Stages \ {k} :
              /\ route[i].steps[l].status \in {"approved", "pending"}
              /\ route[i].steps[l].status = "pending" => route[i].steps[l].request = 0
              /\ route[i].steps[l].request # 0 =>
                    request[route[i].steps[l].request].status # "pending"
        /\ \A j \in Routes, l \in Stages :
              route[j].steps[l].request = h.on => j = i /\ l = k
        /\ \A q \in Requests \ {h.on}, j \in Routes, l \in Stages :
              request[q].status = "pending" /\ WaitsOn(j, l, q) => j # i
    <2>1. Deciding(s) /\ WaitsOn(i, k, inflight[s].on)
      BY <1>1, <1>2
    <2> HIDE <1>2
    <2>2. OnlyWait(i, k, inflight[s].on)
      BY <2>1, DecidedStage
    <2>3. QED
      BY <2>2 DEF OnlyWait
  <1>4. \A j \in Routes, l \in Stages : route[j].steps[l].request # f
    BY <1>2, StageRequest, BoundAssumption DEF RoutesInv
  <1>5. f # h.on /\ request'[f].status = "pending"
    BY <1>2, <1>3 DEF NewRequest
  <1>6. StagesSettled'
    <2> SUFFICES ASSUME NEW j \in Routes, NEW l \in Stages, route'[j].steps[l].request # 0
                 PROVE  StageSettled(j, l)'
      BY DEF StagesSettled, StageSettled
    <2>1. CASE j = i /\ l = next
      BY <1>2, <1>5, <2>1 DEF StageSettled, RouteMoved
    <2>2. CASE j = i /\ l = k
      <3>1. /\ route'[i].steps[k].request = h.on
            /\ route'[i].steps[k].status = "approved"
            /\ request'[h.on].status = "approved"
        BY <1>1, <1>2, <1>5 DEF WaitsOn
      <3>2. QED
        BY <2>2, <3>1 DEF StageSettled
    <2>3. CASE j = i /\ l # next /\ l # k
      <3>1. /\ route'[i].steps[l].request = route[i].steps[l].request
            /\ route'[i].steps[l].status = route[i].steps[l].status
        BY <1>2, <2>3
      <3>2. route[i].steps[l].status = "approved"
        BY <1>3, <2>3, <3>1
      <3>3. route[i].steps[l].request \in Requests /\ route[i].steps[l].request # h.on
        BY <1>3, <2>3, <3>1, StageRequest DEF RoutesInv
      <3>4. request'[route[i].steps[l].request] = request[route[i].steps[l].request]
        BY <1>2, <1>4, <3>3
      <3>5. request[route[i].steps[l].request].status # "pending"
        BY <1>3, <2>3, <3>1
      <3>6. QED
        BY <2>3, <3>1, <3>2, <3>4, <3>5 DEF StageSettled
    <2>4. CASE j # i
      <3>1. route'[j] = route[j]
        BY <1>2, <2>4 DEF RouteMoved
      <3>2. route[j].steps[l].request \in Requests /\ route[j].steps[l].request # h.on
        BY <1>3, <2>4, <3>1, StageRequest DEF RoutesInv
      <3>3. request'[route[j].steps[l].request] = request[route[j].steps[l].request]
        BY <1>2, <1>4, <3>2
      <3>4. QED
        BY <3>1, <3>3, SettledFrame DEF SettledInv
    <2>5. QED
      BY <2>1, <2>2, <2>3, <2>4
  <1>7. RoutesSettled'
    BY <1>2 DEF RouteMoved, SettledInv, RoutesSettled, RouteSettled, Undecided
  <1>8. PendingIsStage'
    <2> SUFFICES ASSUME NEW q \in Requests, request'[q].status = "pending",
                        request'[q].required \notin ByHand
                 PROVE  StageOf(q)' # {}
      BY DEF PendingIsStage
    <2>1. CASE q = f
      <3>1. <<i, next>> \in StageOf(f)'
        BY <1>2 DEF StageOf, RouteMoved
      <3>2. QED
        BY <2>1, <3>1
    <2>2. CASE q # f
      <3>1. q # h.on /\ request[q].status = "pending" /\ request[q].required \notin ByHand
        BY <1>1, <1>2, <2>2
      <3>2. PICK j, l : WaitsOn(j, l, q)
        BY <3>1, StageOfPairs DEF SettledInv, PendingIsStage
      <3>3. j # i
        BY <1>3, <3>1, <3>2 DEF WaitsOn
      <3>4. QED
        BY <1>2, <3>2, <3>3, StillWaits DEF RouteMoved
    <2>3. QED
      BY <2>1, <2>2
  <1>9. QED
    BY <1>6, <1>7, <1>8 DEF SettledInv

\* A new route waits on the new request of its first stage.
LEMMA StartRouteSettled ==
    ASSUME RoutesInv, SettledInv, NEW r, NEW u, StartRoute(r, u)
    PROVE  SettledInv'
  <1>1. PICK i \in Routes, f \in Requests :
           /\ route[i].status = "unused"
           /\ \A j \in Routes \ {i} : route'[j] = route[j]
           /\ route'[i].status = "in_progress"
           /\ \A l \in Stages :
                 /\ route'[i].steps[l].status = IF l = 1 THEN "in_progress" ELSE "pending"
                 /\ route'[i].steps[l].request = IF l = 1 THEN f ELSE 0
           /\ OnlyRaised(f, r, u, Required[1])
    BY StartRouteEffect DEF RoutesInv, QuorumInv
  <1>2. \A j \in Routes, l \in Stages : route[j].steps[l].request # f
    BY <1>1, StageRequest, BoundAssumption DEF RoutesInv, OnlyRaised
  <1>3. request'[f].status = "pending" /\ \A q \in Requests \ {f} : request'[q] = request[q]
    BY <1>1 DEF OnlyRaised, NewRequest
  <1>4. StagesSettled'
    <2> SUFFICES ASSUME NEW j \in Routes, NEW l \in Stages, route'[j].steps[l].request # 0
                 PROVE  StageSettled(j, l)'
      BY DEF StagesSettled, StageSettled
    <2>1. CASE j = i
      BY <1>1, <1>3, <2>1 DEF StageSettled
    <2>2. CASE j # i
      <3>1. route'[j] = route[j]
        BY <1>1, <2>2
      <3>2. route[j].steps[l].request \in Requests
        BY <3>1, StageRequest DEF RoutesInv
      <3>3. request'[route[j].steps[l].request] = request[route[j].steps[l].request]
        BY <1>2, <1>3, <3>2
      <3>4. QED
        BY <3>1, <3>3, SettledFrame DEF SettledInv
    <2>3. QED
      BY <2>1, <2>2
  <1>5. RoutesSettled'
    BY <1>1 DEF SettledInv, RoutesSettled, RouteSettled, Undecided
  <1>6. PendingIsStage'
    <2> SUFFICES ASSUME NEW q \in Requests, request'[q].status = "pending",
                        request'[q].required \notin ByHand
                 PROVE  StageOf(q)' # {}
      BY DEF PendingIsStage
    <2>1. CASE q = f
      <3>1. <<i, 1>> \in StageOf(f)'
        BY <1>1, RouteAssumption DEF StageOf, Stages
      <3>2. QED
        BY <2>1, <3>1
    <2>2. CASE q # f
      <3>1. request[q].status = "pending" /\ request[q].required \notin ByHand
        BY <1>3, <2>2
      <3>2. PICK j, l : WaitsOn(j, l, q)
        BY <3>1, StageOfPairs DEF SettledInv, PendingIsStage
      <3>3. j # i
        BY <1>1, <3>2 DEF WaitsOn
      <3>4. QED
        BY <1>1, <3>2, <3>3, StillWaits
    <2>3. QED
      BY <2>1, <2>2
  <1>7. QED
    BY <1>4, <1>5, <1>6 DEF SettledInv

\* A withdrawal settles what it names: the route it ends, or the request alone.
LEMMA CancelSettled ==
    ASSUME RoutesInv, SettledInv, HandlersFresh, NEW s \in Slots, Cancel(s)
    PROVE  SettledInv'
  <1> DEFINE h == inflight[s]
             gone == h.openRequests \cup ({h.on} \ {0})
  <1>1. /\ h.op = "cancel"
        /\ h.route = 0 => route' = route /\ h.on \in Requests
        /\ h.route # 0 =>
             /\ h.route \in Routes
             /\ RouteMoved(h.route, "cancelled")
             /\ SameAsked(h.route)
             /\ \A l \in Stages : route'[h.route].steps[l].status =
                   IF l \in h.openSteps THEN "skipped" ELSE route[h.route].steps[l].status
        /\ \A q \in Requests :
             /\ request'[q].status = IF q \in gone THEN "cancelled" ELSE request[q].status
             /\ request'[q].required = request[q].required
    BY CancelEffect DEF RoutesInv, QuorumInv
  <1>2. CancelFresh(h)
    BY <1>1 DEF HandlersFresh, HandlerFresh
  <1>3. CASE h.route = 0
    <2>1. route' = route /\ StageOf(h.on) = {} /\ gone = {h.on} \ {0}
      BY <1>1, <1>2, <1>3 DEF CancelFresh
    <2>2. \A q \in Requests, j \in Routes, l \in Stages : WaitsOn(j, l, q) => q \notin gone
      BY <2>1, StageOfPairs
    <2>3. StagesSettled'
      <3> SUFFICES ASSUME NEW j \in Routes, NEW l \in Stages, route[j].steps[l].request # 0
                   PROVE  StageSettled(j, l)'
        BY <2>1 DEF StagesSettled, StageSettled
      <3>1. route[j].steps[l].request \in Requests
        BY StageRequest DEF RoutesInv
      <3>2. CASE route[j].steps[l].request \in gone
        <4>1. route[j].status # "in_progress"
          BY <2>2, <3>1, <3>2 DEF WaitsOn
        <4>2. QED
          BY <1>1, <2>1, <3>1, <3>2, <4>1 DEF StageSettled
      <3>3. CASE route[j].steps[l].request \notin gone
        BY <1>1, <2>1, <3>1, <3>3, SettledFrame DEF SettledInv
      <3>4. QED
        BY <3>2, <3>3
    <2>4. RoutesSettled' /\ PendingIsStage'
      BY <1>1, <2>1 DEF SettledInv, RoutesSettled, RouteSettled, PendingIsStage, StageOf
    <2>5. QED
      BY <2>3, <2>4 DEF SettledInv
  <1>4. CASE h.route # 0
    <2>1. PICK i \in Routes : i = h.route
      BY <1>1, <1>4
    <2>2. /\ RouteMoved(i, "cancelled")
          /\ SameAsked(i)
          /\ \A l \in Stages : route'[i].steps[l].status =
                IF l \in h.openSteps THEN "skipped" ELSE route[i].steps[l].status
      BY <1>1, <1>4, <2>1
    <2>3. /\ route[i].status = "in_progress"
          /\ h.openSteps = Undecided(route[i].steps)
          /\ \A k \in h.openSteps : LET q == route[i].steps[k].request IN
                q # 0 /\ request[q].status = "pending" => q \in h.openRequests
          /\ \A q \in gone : \A p \in StageOf(q) : p[1] = i
      BY <1>2, <1>4, <2>1 DEF CancelFresh
    <2>4. \A q \in gone, j \in Routes, l \in Stages : WaitsOn(j, l, q) => j = i
      <3> SUFFICES ASSUME NEW q \in gone, NEW j, NEW l, WaitsOn(j, l, q) PROVE j = i
        OBVIOUS
      <3>1. <<j, l>> \in StageOf(q)
        BY StageOfPairs
      <3>2. <<j, l>>[1] = i
        BY <2>3, <3>1
      <3>3. QED
        BY <3>2
    <2> HIDE DEF gone
    <2>5. \A l \in Stages : LET q == route[i].steps[l].request IN
             q \in Requests => request'[q].status # "pending"
      <3> SUFFICES ASSUME NEW l \in Stages, NEW q \in Requests, route[i].steps[l].request = q,
                          request[q].status = "pending"
                   PROVE  q \in gone
        BY <1>1
      <3>1. route[i].steps[l].status = "in_progress"
        BY <2>3, BoundAssumption DEF SettledInv, StagesSettled, StageSettled
      <3>2. l \in h.openSteps
        BY <2>3, <3>1 DEF Undecided
      <3>3. QED
        BY <2>3, <3>2, BoundAssumption DEF gone
    <2>6. StagesSettled'
      <3> SUFFICES ASSUME NEW j \in Routes, NEW l \in Stages, route'[j].steps[l].request # 0
                   PROVE  StageSettled(j, l)'
        BY DEF StagesSettled, StageSettled
      <3>1. route'[j].steps[l].request = route[j].steps[l].request
        BY <2>2 DEF RouteMoved, SameAsked
      <3>2. route[j].steps[l].request \in Requests
        BY <3>1, StageRequest DEF RoutesInv
      <3>3. CASE j = i
        BY <2>2, <2>5, <3>1, <3>2, <3>3 DEF RouteMoved, StageSettled
      <3>4. CASE j # i /\ route[j].steps[l].request \in gone
        <4>1. route'[j].status # "in_progress"
          BY <2>2, <2>4, <3>2, <3>4 DEF WaitsOn, RouteMoved
        <4>2. request'[route[j].steps[l].request].status = "cancelled"
          BY <1>1, <3>2, <3>4
        <4>3. QED
          BY <3>1, <4>1, <4>2 DEF StageSettled
      <3>5. CASE j # i /\ route[j].steps[l].request \notin gone
        <4>1. /\ request'[route[j].steps[l].request].status = request[route[j].steps[l].request].status
              /\ route'[j] = route[j]
          BY <1>1, <2>2, <3>2, <3>5 DEF RouteMoved
        <4>2. QED
          BY <4>1, SettledFrame DEF SettledInv
      <3>6. QED
        BY <3>3, <3>4, <3>5
    <2>7. RoutesSettled'
      <3> SUFFICES ASSUME NEW j \in Routes PROVE RouteSettled(j)'
        BY DEF RoutesSettled
      <3>1. CASE j = i
        <4>1. \A l \in Stages : route'[i].steps[l].status \notin {"pending", "in_progress"}
          BY <2>2, <2>3 DEF Undecided
        <4>2. QED
          BY <3>1, <4>1 DEF RouteSettled, Undecided
      <3>2. CASE j # i
        BY <2>2, <3>2 DEF RouteMoved, SettledInv, RoutesSettled, RouteSettled, Undecided
      <3>3. QED
        BY <3>1, <3>2
    <2>8. PendingIsStage'
      <3> SUFFICES ASSUME NEW q \in Requests, request'[q].status = "pending",
                          request'[q].required \notin ByHand
                   PROVE  StageOf(q)' # {}
        BY DEF PendingIsStage
      <3>1. request[q].status = "pending" /\ request[q].required \notin ByHand
        BY <1>1
      <3>2. PICK j, l : WaitsOn(j, l, q)
        BY <3>1, StageOfPairs DEF SettledInv, PendingIsStage
      <3>3. j # i
        BY <2>5, <3>2 DEF WaitsOn
      <3>4. QED
        BY <2>2, <3>2, <3>3, StillWaits DEF RouteMoved
    <2>9. QED
      BY <2>6, <2>7, <2>8 DEF SettledInv
  <1>5. QED
    BY <1>3, <1>4

\* What happens to the requests and routes between the two steps of a handler: nothing
\* moves, stages may lose their request, and none has one raised since.
Meanwhile ==
    /\ \A i \in Routes :
          /\ route'[i].status = route[i].status
          /\ \A l \in Stages :
                /\ route'[i].steps[l].status = route[i].steps[l].status
                /\ route'[i].steps[l].request \in {0, route[i].steps[l].request}
                /\ route'[i].steps[l].request # 0 =>
                      request'[route[i].steps[l].request].status
                         = request[route[i].steps[l].request].status
    /\ \A q \in Requests : request[q].status \in {"pending", "deleted"} =>
          request'[q].status \in {request[q].status, "deleted"}

\* A handler in flight stays fresh meanwhile.
LEMMA MeanwhileFresh ==
    ASSUME TypeOK, HandlersFresh, Meanwhile, inflight' = inflight
    PROVE  HandlersFresh'
  <1> SUFFICES ASSUME NEW s \in Slots PROVE HandlerFresh(s)'
    BY DEF HandlersFresh
  <1> DEFINE h == inflight[s]
  <1>1. h \in Handler /\ HandlerFresh(s) /\ inflight'[s] = h
    BY DEF TypeOK, HandlersFresh
  <1>2. ASSUME h.op = "decide"
        PROVE  request'[h.on].status \in {"pending", "deleted"}
    <2>1. h.on \in Requests
      BY <1>1, <1>2 DEF Handler
    <2>2. QED
      BY <1>1, <1>2, <2>1 DEF HandlerFresh, Meanwhile
  <1>3. ASSUME NEW q \in 1..MaxRequests, NEW p \in StageOf(q)'
        PROVE  p \in StageOf(q)
    <2>1. p[1] \in Routes /\ p[2] \in Stages /\ p \in Routes \X Stages
          /\ route'[p[1]].steps[p[2]].request = q
          /\ route'[p[1]].status = "in_progress"
      BY <1>3 DEF StageOf
    <2>2. route[p[1]].steps[p[2]].request = q /\ route[p[1]].status = "in_progress"
      BY <2>1, BoundAssumption DEF Meanwhile
    <2>3. QED
      BY <2>1, <2>2 DEF StageOf
  <1>4. ASSUME h.op = "cancel"
        PROVE  CancelFresh(h)'
    <2>1. \/ h.on \in Requests /\ h.route \in 0..MaxRoutes
          \/ h.on = 0 /\ h.route \in Routes
      BY <1>1, <1>4 DEF Handler
    <2>2. h.openRequests \subseteq Requests /\ h.openSteps \subseteq Stages
      BY <1>1, <1>4 DEF Handler
    <2>3. CancelFresh(h)
      BY <1>1, <1>4 DEF HandlerFresh
    <2>4. ASSUME h.route = 0
          PROVE  StageOf(h.on)' = {} /\ h.openRequests = {}
      <3>1. h.on \in Requests
        BY <2>1, <2>4, BoundAssumption
      <3>2. QED
        BY <1>3, <2>3, <2>4, <3>1 DEF CancelFresh
    <2>5. ASSUME h.route # 0
          PROVE  /\ route'[h.route].status = "in_progress"
                 /\ h.openSteps = Undecided(route[h.route].steps)'
                 /\ \A k \in h.openSteps : LET q == route'[h.route].steps[k].request IN
                       q # 0 /\ request'[q].status = "pending" => q \in h.openRequests
                 /\ \A q \in h.openRequests \cup ({h.on} \ {0}) :
                       \A p \in StageOf(q)' : p[1] = h.route
      <3>1. PICK i \in Routes : i = h.route
        BY <2>1, <2>5, BoundAssumption
      <3>2. /\ route[i].status = "in_progress"
            /\ h.openSteps = Undecided(route[i].steps)
            /\ \A k \in h.openSteps : LET q == route[i].steps[k].request IN
                  q # 0 /\ request[q].status = "pending" => q \in h.openRequests
            /\ \A q \in h.openRequests \cup ({h.on} \ {0}) : \A p \in StageOf(q) : p[1] = i
        BY <2>3, <2>5, <3>1 DEF CancelFresh
      <3>3. Undecided(route[i].steps)' = Undecided(route[i].steps)
        BY DEF Meanwhile, Undecided
      <3>4. \A k \in h.openSteps : LET q == route'[i].steps[k].request IN
               q # 0 /\ request'[q].status = "pending" => q \in h.openRequests
        BY <2>2, <3>2 DEF Meanwhile
      <3>5. h.openRequests \cup ({h.on} \ {0}) \subseteq Requests
        BY <2>1, <2>2
      <3>6. \A q \in h.openRequests \cup ({h.on} \ {0}) : \A p \in StageOf(q)' : p[1] = i
        BY <1>3, <3>2, <3>5
      <3>7. route'[i].status = "in_progress"
        BY <3>2 DEF Meanwhile
      <3>8. QED
        BY <3>1, <3>2, <3>3, <3>4, <3>6, <3>7
    <2>6. QED
      BY <2>4, <2>5 DEF CancelFresh
  <1>5. QED
    BY <1>1, <1>2, <1>4 DEF HandlerFresh

\* Nor does any stage become unsettled meanwhile.
LEMMA MeanwhileSettled ==
    ASSUME RoutesInv, SettledInv, Meanwhile
    PROVE  StagesSettled' /\ RoutesSettled'
  <1>1. StagesSettled'
    <2> SUFFICES ASSUME NEW i \in Routes, NEW k \in Stages PROVE StageSettled(i, k)'
      BY DEF StagesSettled
    <2>1. QED
      BY SettledFrame DEF SettledInv, Meanwhile
  <1>2. RoutesSettled'
    BY DEF Meanwhile, SettledInv, RoutesSettled, RouteSettled, Undecided
  <1>3. QED
    BY <1>1, <1>2

\* Deleting a request is such a move, and leaves the other pending ones their stages.
LEMMA DeleteRequestSettled ==
    ASSUME RoutesInv, SettledInv, NEW u \in Users, NEW q \in Requests, DeleteRequest(u, q)
    PROVE  Meanwhile /\ SettledInv'
  <1>1. /\ \A i \in Routes :
             /\ route'[i].status = route[i].status
             /\ \A l \in Stages :
                   /\ route'[i].steps[l].status = route[i].steps[l].status
                   /\ route'[i].steps[l].request =
                         IF route[i].steps[l].request = q THEN 0 ELSE route[i].steps[l].request
        /\ request'[q].status = "deleted"
        /\ \A p \in Requests \ {q} : request'[p] = request[p]
    BY DeleteRequestEffect DEF RoutesInv, QuorumInv
  <1>2. Meanwhile
    BY <1>1, StageRequest DEF Meanwhile, RoutesInv
  <1>3. PendingIsStage'
    <2> SUFFICES ASSUME NEW p \in Requests, request'[p].status = "pending",
                        request'[p].required \notin ByHand
                 PROVE  StageOf(p)' # {}
      BY DEF PendingIsStage
    <2>1. p # q /\ request[p].status = "pending" /\ request[p].required \notin ByHand
      BY <1>1
    <2>2. PICK i, l : WaitsOn(i, l, p)
      BY <2>1, StageOfPairs DEF SettledInv, PendingIsStage
    <2>3. route'[i].status = "in_progress" /\ route'[i].steps[l].request = p
      BY <1>1, <2>1, <2>2 DEF WaitsOn
    <2>4. <<i, l>> \in StageOf(p)'
      BY <2>2, <2>3 DEF StageOf, WaitsOn
    <2>5. QED
      BY <2>4
  <1>4. QED
    BY <1>2, <1>3, MeanwhileSettled DEF SettledInv

\* So is raising one by hand.
LEMMA RaiseRequestSettled ==
    ASSUME RoutesInv, SettledInv, NEW u \in Users, NEW r \in Records, NEW n \in ByHand,
           RaiseRequest(u, r, n)
    PROVE  Meanwhile /\ SettledInv'
  <1>1. PICK f \in Requests : FreshRequest = f /\ request[f].status = "unused"
    BY FreshRequestUnused DEF RaiseRequest
  <1>2. /\ route' = route
        /\ \A q \in Requests \ {f} : request'[q] = request[q]
        /\ request'[f].required \in ByHand
    BY <1>1 DEF RaiseRequest, RoutesInv, QuorumInv, TypeOK, NewRequest
  <1>3. \A i \in Routes, l \in Stages : route[i].steps[l].request # f
    BY <1>1, StageRequest, BoundAssumption DEF RoutesInv
  <1>4. Meanwhile
    BY <1>1, <1>2, <1>3, StageRequest DEF Meanwhile, RoutesInv
  <1>5. PendingIsStage'
    BY <1>1, <1>2 DEF SettledInv, PendingIsStage, StageOf
  <1>6. QED
    BY <1>4, <1>5, MeanwhileSettled DEF SettledInv

\* A handler is fresh when it has loaded.
LEMMA LoadFresh ==
    ASSUME RoutesInv, OneHandler, NEW s \in Slots, NEW u \in Users, Load(s, u)
    PROVE  HandlersFresh' /\ UNCHANGED <<request, route>>
  <1>1. ASSUME NEW h, Loaded(s, h), h.op = "decide" => request[h.on].status = "pending",
               h.op = "cancel" => CancelFresh(h)
        PROVE  HandlersFresh' /\ UNCHANGED <<request, route>>
    <2> SUFFICES ASSUME NEW t \in Slots PROVE HandlerFresh(t)'
      BY <1>1 DEF Loaded, HandlersFresh
    <2>1. inflight'[t] = h
      BY <1>1 DEF Loaded, RoutesInv, QuorumInv, TypeOK, OneHandler
    <2>2. request' = request /\ route' = route
      BY <1>1 DEF Loaded
    <2>3. CancelFresh(h) => CancelFresh(h)'
      BY <2>2 DEF CancelFresh, StageOf, Undecided
    <2>4. QED
      BY <1>1, <2>1, <2>2, <2>3 DEF HandlerFresh
  <1>2. ASSUME NEW i \in Routes, NEW q \in Requests \cup {0}, route[i].status = "in_progress",
               q # 0 => \E k \in Stages : route[i].steps[k].request = q
        PROVE  CancelFresh(Cancelling(u, q, i))
    <2> DEFINE h == Cancelling(u, q, i)
               open == Undecided(route[i].steps)
    <2>1. /\ h.route = i /\ h.on = q /\ h.openSteps = open
          /\ h.openRequests = {p \in Requests : /\ request[p].status = "pending"
                                                /\ \E k \in open : route[i].steps[k].request = p}
      BY DEF Cancelling
    <2>2. i # 0 /\ open \subseteq Stages
      BY BoundAssumption DEF Undecided
    <2>3. ASSUME NEW k \in open, route[i].steps[k].request # 0,
                 request[route[i].steps[k].request].status = "pending"
          PROVE  route[i].steps[k].request \in h.openRequests
      BY <2>1, <2>2, <2>3, StageRequest DEF RoutesInv
    <2>4. ASSUME NEW p \in h.openRequests \cup ({q} \ {0}), NEW w \in StageOf(p)
          PROVE  w[1] = i
      <3>1. p \in Requests /\ \E k \in Stages : route[i].steps[k].request = p
        BY <1>2, <2>1, <2>2, <2>4
      <3>2. /\ w[1] \in Routes /\ w[2] \in Stages
            /\ route[w[1]].steps[w[2]].request = p
        BY <2>4 DEF StageOf
      <3>3. QED
        BY <3>1, <3>2, BoundAssumption DEF RoutesInv, AskedInv, OneStageEach
    <2> HIDE DEF h
    <2>5. CancelFresh(h)
      <3>1. \A k \in h.openSteps : LET p == route[h.route].steps[k].request IN
                p # 0 /\ request[p].status = "pending" => p \in h.openRequests
        BY <2>1, <2>3
      <3>2. \A p \in h.openRequests \cup ({h.on} \ {0}) : \A w \in StageOf(p) : w[1] = h.route
        BY <2>1, <2>4
      <3>3. QED
        BY <1>2, <2>1, <2>2, <3>1, <3>2 DEF CancelFresh
    <2>6. QED
      BY <2>5 DEF h
  <1>3. ASSUME NEW q \in Requests, NEW yes \in BOOLEAN, LoadDecision(s, u, q, yes)
        PROVE  HandlersFresh' /\ UNCHANGED <<request, route>>
    BY <1>1, <1>3 DEF LoadDecision
  <1>4. ASSUME NEW q \in Requests, LoadCancel(s, u, q)
        PROVE  HandlersFresh' /\ UNCHANGED <<request, route>>
    <2>1. CASE StageOf(q) = {} /\ Loaded(s, [op |-> "cancel", by |-> u, on |-> q, route |-> 0,
                                             openSteps |-> {}, openRequests |-> {}])
      BY <1>1, <2>1 DEF CancelFresh
    <2>2. ASSUME NEW p \in StageOf(q), Loaded(s, Cancelling(u, q, p[1]))
          PROVE  HandlersFresh' /\ UNCHANGED <<request, route>>
      <3>1. CancelFresh(Cancelling(u, q, p[1])) /\ Cancelling(u, q, p[1]).op = "cancel"
        BY <1>2 DEF StageOf, Cancelling
      <3>2. QED
        BY <1>1, <2>2, <3>1
    <2>3. QED
      BY <1>4, <2>1, <2>2 DEF LoadCancel
  <1>5. ASSUME NEW i \in Routes, LoadCancelRoute(s, u, i)
        PROVE  HandlersFresh' /\ UNCHANGED <<request, route>>
    <2>1. CancelFresh(Cancelling(u, 0, i)) /\ Cancelling(u, 0, i).op = "cancel"
      BY <1>2, <1>5 DEF LoadCancelRoute, Cancelling
    <2>2. QED
      BY <1>1, <1>5, <2>1 DEF LoadCancelRoute
  <1>6. ASSUME NEW r \in Records, NEW a \in DOMAIN Transitions, LoadTransition(s, u, r, a)
        PROVE  HandlersFresh' /\ UNCHANGED <<request, route>>
    <2>1. a \notin {"decide", "cancel"}
      BY DEF Transitions
    <2>2. QED
      BY <1>1, <1>6, <2>1 DEF LoadTransition
  <1>7. ASSUME NEW r \in Records, LoadStart(s, u, r)
        PROVE  HandlersFresh' /\ UNCHANGED <<request, route>>
    BY <1>1, <1>7 DEF LoadStart
  <1>8. QED
    BY <1>3, <1>4, <1>5, <1>6, <1>7 DEF Load

\* With one handler at a time, every step keeps the routes settled.
LEMMA NextSettled ==
    ASSUME OneHandler, RoutesInv, SettledInv, HandlersFresh, [Next]_vars
    PROVE  SettledInv' /\ HandlersFresh'
  <1>1. TypeOK
    BY DEF RoutesInv, QuorumInv
  <1>2. ASSUME UNCHANGED <<request, route>>
        PROVE  SettledInv'
    BY <1>2 DEF SettledInv, StagesSettled, StageSettled, RoutesSettled, RouteSettled,
       PendingIsStage, StageOf, Undecided
  <1>3. ASSUME NEW s \in Slots, Done(s)
        PROVE  HandlersFresh'
    <2> SUFFICES ASSUME NEW t \in Slots PROVE HandlerFresh(t)'
      BY DEF HandlersFresh
    <2>1. inflight'[t] = Idle
      BY <1>1, <1>3 DEF Done, TypeOK, OneHandler
    <2>2. QED
      BY <2>1 DEF HandlerFresh, Idle
  <1>4. ASSUME NEW s \in Slots, Commit(s)
        PROVE  SettledInv' /\ HandlersFresh'
    <2>1. Done(s)
      BY <1>4 DEF Commit, PartialVote, DecideAlone, RejectStage, ApproveStage, FinishRoute,
         Deciding, Cancel, Transition, Start
    <2>2. CASE Transition(s)
      <3>1. CASE inflight[s].starts
        BY <1>3, <2>1, <2>2, <3>1, StartRouteSettled DEF Transition
      <3>2. CASE ~inflight[s].starts
        BY <1>2, <1>3, <2>1, <2>2, <3>2 DEF Transition
      <3>3. QED
        BY <3>1, <3>2
    <2>3. CASE Start(s)
      BY <1>3, <2>1, <2>3, StartRouteSettled DEF Start
    <2>4. QED
      BY <1>3, <1>4, <2>1, <2>2, <2>3, PartialVoteSettled, DecideAloneSettled,
         RejectStageSettled, ApproveStageSettled, FinishRouteSettled, CancelSettled DEF Commit
  <1>5. ASSUME NEW s \in Slots, NEW u \in Users, Load(s, u)
        PROVE  SettledInv' /\ HandlersFresh'
    BY <1>2, <1>5, LoadFresh
  <1>6. CASE \E s \in Slots : Rollback(s)
    BY <1>2, <1>3, <1>6 DEF Rollback
  <1>7. ASSUME NEW u \in Users, NEW r \in Records, NEW n \in ByHand, RaiseRequest(u, r, n)
        PROVE  SettledInv' /\ HandlersFresh'
    <2>1. Meanwhile /\ SettledInv'
      BY <1>7, RaiseRequestSettled
    <2>2. inflight' = inflight
      BY <1>7 DEF RaiseRequest
    <2>3. QED
      BY <1>1, <2>1, <2>2, MeanwhileFresh
  <1>8. ASSUME NEW u \in Users, NEW q \in Requests, DeleteRequest(u, q)
        PROVE  SettledInv' /\ HandlersFresh'
    <2>1. Meanwhile /\ SettledInv'
      BY <1>8, DeleteRequestSettled
    <2>2. inflight' = inflight
      BY <1>8 DEF DeleteRequest
    <2>3. QED
      BY <1>1, <2>1, <2>2, MeanwhileFresh
  <1>9. CASE SwitchDefinition \/ UNCHANGED vars
    <2>1. UNCHANGED <<request, route, inflight>>
      BY <1>9 DEF SwitchDefinition, vars
    <2>2. HandlersFresh'
      BY <2>1 DEF HandlersFresh, HandlerFresh, CancelFresh, StageOf, Undecided
    <2>3. QED
      BY <1>2, <2>1, <2>2
  <1>10. QED
    BY <1>4, <1>5, <1>6, <1>7, <1>8, <1>9 DEF Next

\* With one handler at a time, the routes stay settled.
LEMMA SettledInvariant ==
    ASSUME OneHandler
    PROVE  Spec => [](RoutesInv /\ SettledInv /\ HandlersFresh)
  <1>1. Init => SettledInv /\ HandlersFresh
    <2> SUFFICES ASSUME Init PROVE SettledInv /\ HandlersFresh
      OBVIOUS
    <2>1. \A i \in Routes : route[i].status = "unused" /\ \A k \in Stages : route[i].steps[k].request = 0
      BY DEF Init, UnusedRoute
    <2>2. \A q \in Requests : request[q].status = "unused"
      BY DEF Init, UnusedRequest
    <2>3. \A s \in Slots : inflight[s].op = "idle"
      BY DEF Init, Idle
    <2>4. QED
      BY <2>1, <2>2, <2>3 DEF SettledInv, StagesSettled, StageSettled, RoutesSettled, RouteSettled,
         PendingIsStage, HandlersFresh, HandlerFresh
  <1>2. RoutesInv /\ SettledInv /\ HandlersFresh /\ [Next]_vars => SettledInv' /\ HandlersFresh'
    BY NextSettled
  <1>3. QED
    BY <1>1, <1>2, WaitsInvariant, PTL DEF Spec

\* on_approval_decided, cancel: with one handler at a time, a route that has ended leaves
\* no stage undecided and no request of its own that somebody could still decide.
THEOREM EndedRoutesAreSettled ==
    ASSUME OneHandler
    PROVE  Spec => []ClosedRouteIsSettled
  <1>1. ASSUME RoutesInv, SettledInv, NEW i \in Routes,
               route[i].status \in {"approved", "rejected", "cancelled"}
        PROVE  /\ Undecided(route[i].steps) = {}
               /\ \A k \in Stages : LET q == route[i].steps[k].request IN
                      q # 0 => request[q].status # "pending"
    <2>1. Undecided(route[i].steps) = {}
      BY <1>1 DEF SettledInv, RoutesSettled, RouteSettled
    <2>2. \A k \in Stages : StageSettled(i, k)
      BY <1>1 DEF SettledInv, StagesSettled
    <2>3. QED
      BY <1>1, <2>1, <2>2 DEF StageSettled
  <1>2. RoutesInv /\ SettledInv => ClosedRouteIsSettled
    BY <1>1 DEF ClosedRouteIsSettled
  <1>3. QED
    BY <1>2, SettledInvariant, PTL

\* A rejection or a withdrawal approves no record.
LEMMA RefusalApprovesNothing ==
    ASSUME TypeOK, NEW r0, NEW u, NEW q, WriteBack(r0, FALSE, u, q), NEW r \in Records
    PROVE  ~BecomesApproved(r)
  <1>1. CASE r # r0 \/ record' = record
    BY <1>1 DEF WriteBack, BecomesApproved, TypeOK
  <1>2. CASE r = r0 /\ record' # record
    <2>1. record'[r] = Moved(record[r], WriteBackTarget(record[r].state, FALSE), u, q)
      BY <1>2 DEF WriteBack, TypeOK
    <2>2. record[r] \in RecordRow
      BY DEF TypeOK
    <2>3. WriteBackTarget(record[r].state, FALSE) \in {"draft", record[r].state}
      BY DEF WriteBackTarget
    <2>4. record'[r].state \in {"draft", record[r].state}
      BY <2>1, <2>2, <2>3 DEF Moved, RecordRow
    <2>5. QED
      BY <2>4 DEF BecomesApproved
  <1>3. QED
    BY <1>1, <1>2

\* write_back: with one handler at a time and no request raised by hand, no request
\* approves a record past its live route: it does so in the step that finishes it.
THEOREM RoutesDecideTheirRecord ==
    ASSUME OneHandler, ByHand = {}
    PROVE  Spec => ApprovalFinishesRoute
  <1>1. ASSUME RoutesInv, SettledInv, HandlersFresh, [Next]_vars, NEW r \in Records,
               BecomesApproved(r), record'[r].by # 0
        PROVE  \E i \in LiveRoutes(r) : route'[i].status = "approved"
    <2>1. TypeOK
      BY <1>1 DEF RoutesInv, QuorumInv
    <2>2. record' # record
      BY <1>1 DEF BecomesApproved
    <2>3. PICK s \in Slots : Commit(s)
      BY <1>1, <2>2 DEF Next, vars, Load, LoadDecision, LoadCancel, LoadCancelRoute,
         LoadTransition, LoadStart, Loaded, Rollback, RaiseRequest, DeleteRequest, SwitchDefinition
    <2>4. CASE FinishRoute(s)
      <3>1. PICK i \in Routes, k \in Stages :
               /\ WaitsOn(i, k, inflight[s].on)
               /\ RouteMoved(i, "approved")
               /\ WriteBack(route[i].about, TRUE, inflight[s].by, inflight[s].on)
        BY <2>1, <2>4, FinishRouteEffect
      <3>2. r = route[i].about
        BY <1>1, <2>1, <3>1 DEF WriteBack, BecomesApproved, TypeOK
      <3>3. i \in LiveRoutes(r) /\ route'[i].status = "approved"
        BY <3>1, <3>2 DEF WaitsOn, RouteMoved, LiveRoutes
      <3>4. QED
        BY <3>3
    <2>5. CASE DecideAlone(s)
      <3>1. /\ inflight[s].on \in Requests /\ inflight[s].op = "decide"
            /\ request[inflight[s].on].status # "deleted"
            /\ StageOf(inflight[s].on) = {}
        BY <2>1, <2>5, VotedFields DEF DecideAlone
      <3>2. request[inflight[s].on].status = "pending"
        BY <1>1, <3>1 DEF HandlersFresh, HandlerFresh
      <3>3. QED
        BY <1>1, <3>1, <3>2 DEF SettledInv, PendingIsStage
    <2>6. CASE Transition(s)
      <3> DEFINE h == inflight[s]
                 to == Transitions[h.op].to
      <3>1. h.op \in DOMAIN Transitions /\ record' = [record EXCEPT ![h.on] = Moved(@, to, h.by, 0)]
        BY <2>6 DEF Transition
      <3>2. r = h.on /\ record'[r] = Moved(record[r], to, h.by, 0) /\ record[r] \in RecordRow
        BY <1>1, <2>1, <3>1 DEF BecomesApproved, TypeOK
      <3> HIDE DEF to
      <3>3. record'[r].state = to
        BY <3>2 DEF Moved, RecordRow
      <3>4. to = "approved"
        BY <1>1, <3>3 DEF BecomesApproved
      <3>5. record'[r].by = 0
        BY <3>2, <3>4 DEF Moved, RecordRow
      <3>6. QED
        BY <1>1, <3>5
    <2>7. CASE RejectStage(s)
      BY <1>1, <2>1, <2>7, RejectStageEffect, RefusalApprovesNothing
    <2>8. CASE Cancel(s)
      BY <1>1, <2>1, <2>8, RefusalApprovesNothing DEF Cancel
    <2>9. CASE PartialVote(s) \/ ApproveStage(s) \/ Start(s)
      BY <2>2, <2>9 DEF PartialVote, ApproveStage, Start
    <2>10. QED
      BY <2>3, <2>4, <2>5, <2>6, <2>7, <2>8, <2>9 DEF Commit
  <1>2. RoutesInv /\ SettledInv /\ HandlersFresh /\ [Next]_vars =>
          [\A r \in Records :
              LiveRoutes(r) # {} /\ BecomesApproved(r) /\ record'[r].by # 0
                  => \E i \in LiveRoutes(r) : route'[i].status = "approved"]_vars
    BY <1>1
  <1>3. QED
    BY <1>2, SettledInvariant, PTL DEF Spec, ApprovalFinishesRoute

-----------------------------------------------------------------------------
(***************************************************************************)
(* One handler at a time: somebody is left to decide                       *)
(***************************************************************************)
\* A pending request is short of its quorum, and nobody has refused it; who decides it
\* has seen the votes it has.
PendingShort ==
    \A q \in Requests : request[q].status = "pending" =>
        /\ Cardinality(request[q].approvers) < request[q].required
        /\ request[q].rejecters = {}
VotesSeen ==
    \A s \in Slots : LET h == inflight[s] IN
        h.op = "decide" /\ request[h.on].status = "pending" => h.saw = request[h.on].approvers
VotesInv == PendingShort /\ VotesSeen

\* But for a vote, a step leaves a pending request as it is, or raises it without votes.
RowVotes(q) ==
    request'[q].status = "pending" =>
        \/ request'[q] = request[q]
        \/ /\ request[q].status = "unused"
           /\ request'[q].approvers = {} /\ request'[q].rejecters = {}
           /\ request'[q].required \in Nat \ {0}

\* A decision that settles its request leaves it not pending.
LEMMA SettlingRows ==
    ASSUME TypeOK, NEW s \in Slots, Deciding(s), OnlyVoted(s),
           ~inflight[s].yes \/ Granted(inflight[s])
    PROVE  \A q \in Requests : RowVotes(q)
  <1>1. Voted(inflight[s]).status \in {"approved", "rejected"}
    BY VotedFields
  <1>2. QED
    BY <1>1 DEF OnlyVoted, RowVotes

\* A request is raised without votes.
LEMMA RaisedRows ==
    ASSUME NEW f, NEW r, NEW u, NEW n \in Nat \ {0}, OnlyRaised(f, r, u, n)
    PROVE  \A q \in Requests : RowVotes(q)
  BY DEF OnlyRaised, NewRequest, RowVotes

\* So it is with every step that is not a vote short of the quorum.
LEMMA NextRows ==
    ASSUME TypeOK, [Next]_vars
    PROVE  (\E s \in Slots : PartialVote(s)) \/ \A q \in Requests : RowVotes(q)
  <1>1. ASSUME UNCHANGED request
        PROVE  \A q \in Requests : RowVotes(q)
    BY <1>1 DEF RowVotes
  <1>2. ASSUME NEW r, NEW u, StartRoute(r, u)
        PROVE  \A q \in Requests : RowVotes(q)
    <2>1. Required[1] \in Nat \ {0}
      BY RouteAssumption DEF Stages
    <2>2. \E f \in Requests : OnlyRaised(f, r, u, Required[1])
      BY <1>2, StartRouteEffect
    <2>3. QED
      BY <2>1, <2>2, RaisedRows
  <1>3. ASSUME NEW s \in Slots, Commit(s), ~PartialVote(s)
        PROVE  \A q \in Requests : RowVotes(q)
    <2>1. CASE DecideAlone(s) \/ RejectStage(s) \/ FinishRoute(s)
      <3>1. Deciding(s) /\ OnlyVoted(s) /\ (~inflight[s].yes \/ Granted(inflight[s]))
        BY <2>1, VotedFields, VotedOnly DEF DecideAlone, RejectStage, FinishRoute
      <3>2. QED
        BY <3>1, SettlingRows
    <2>2. CASE ApproveStage(s)
      <3>1. Deciding(s) /\ Voted(inflight[s]).status = "approved"
        BY <2>2, VotedFields DEF ApproveStage
      <3>2. PICK i \in Routes, next \in Stages, f \in Requests :
               /\ request[f].status = "unused"
               /\ \A q \in Requests : request'[q] =
                     IF q = f THEN NewRequest(route[i].about, route[i].startedBy, Required[next])
                     ELSE IF q = inflight[s].on THEN Voted(inflight[s])
                     ELSE request[q]
        BY <2>2, ApproveStageEffect
      <3>3. Required[next] \in Nat \ {0}
        BY RouteAssumption
      <3>4. QED
        BY <3>1, <3>2, <3>3 DEF RowVotes, NewRequest
    <2>3. CASE Cancel(s)
      <3> DEFINE gone == inflight[s].openRequests \cup ({inflight[s].on} \ {0})
      <3>1. \A q \in Requests :
               request'[q].status = IF q \in gone THEN "cancelled" ELSE request[q].status
        BY <2>3, CancelEffect
      <3>2. \A q \in Requests : q \notin gone => request'[q] = request[q]
        BY <2>3 DEF Cancel
      <3>3. QED
        BY <3>1, <3>2 DEF RowVotes
    <2>4. CASE Transition(s)
      BY <1>1, <1>2, <2>4 DEF Transition
    <2>5. CASE Start(s)
      BY <1>2, <2>5 DEF Start
    <2>6. QED
      BY <1>3, <2>1, <2>2, <2>3, <2>4, <2>5 DEF Commit
  <1>4. ASSUME NEW s \in Slots, NEW u \in Users, Load(s, u)
        PROVE  UNCHANGED request
    BY <1>4 DEF Load, LoadDecision, LoadCancel, LoadCancelRoute, LoadTransition, LoadStart,
       Loaded
  <1>5. ASSUME NEW u \in Users, NEW r \in Records, NEW n \in ByHand, RaiseRequest(u, r, n)
        PROVE  \A q \in Requests : RowVotes(q)
    <2>1. PICK f \in Requests : FreshRequest = f /\ request[f].status = "unused"
      BY <1>5, FreshRequestUnused DEF RaiseRequest
    <2>2. OnlyRaised(f, r, u, n) /\ n \in Nat \ {0}
      BY <1>5, <2>1, RouteAssumption DEF RaiseRequest, OnlyRaised, TypeOK
    <2>3. QED
      BY <2>2, RaisedRows
  <1>6. ASSUME NEW u \in Users, NEW q \in Requests, DeleteRequest(u, q)
        PROVE  \A p \in Requests : RowVotes(p)
    BY <1>6, DeleteRequestEffect DEF RowVotes
  <1>7. CASE \E s \in Slots : Rollback(s)
    BY <1>1, <1>7 DEF Rollback
  <1>8. CASE SwitchDefinition \/ UNCHANGED vars
    BY <1>1, <1>8 DEF SwitchDefinition, vars
  <1>9. QED
    BY <1>1, <1>3, <1>4, <1>5, <1>6, <1>7, <1>8 DEF Next

\* A vote short of the quorum leaves the request short of it.
LEMMA PartialVoteShort ==
    ASSUME TypeOK, VotesInv, NEW s \in Slots, PartialVote(s)
    PROVE  PendingShort'
  <1> DEFINE h == inflight[s]
             row == request[h.on]
  <1>1. Deciding(s) /\ OnlyVoted(s) /\ h.yes /\ ~Granted(h)
    BY VotedOnly DEF PartialVote
  <1>2. /\ h.on \in Requests /\ h.op = "decide"
        /\ Voted(h).status = row.status /\ Voted(h).required = row.required
    BY <1>1, VotedFields
  <1>3. row \in RequestRow /\ h \in Handler
    BY <1>2 DEF TypeOK
  <1>4. h.by \in Users /\ h.saw \in SUBSET Users /\ row.required \in Nat
    BY <1>2, <1>3 DEF Handler, RequestRow
  <1>5. row = [status |-> row.status, about |-> row.about, maker |-> row.maker,
               required |-> row.required, approvers |-> row.approvers,
               rejecters |-> row.rejecters]
    BY <1>3 DEF RequestRow
  <1>6. /\ Voted(h).approvers = row.approvers \cup {h.by}
        /\ Voted(h).rejecters = row.rejecters
    BY <1>1, <1>5 DEF Voted
  <1>7. Cardinality(h.saw \cup {h.by}) < row.required
    <2>1. h.saw \cup {h.by} \in SUBSET Users
      BY <1>4
    <2>2. Cardinality(h.saw \cup {h.by}) \in Nat
      BY <2>1, MoreVotes
    <2>3. QED
      BY <1>1, <1>4, <2>2 DEF Granted
  <1> HIDE DEF h
  <1>8. SUFFICES ASSUME NEW q \in Requests, request'[q].status = "pending"
                 PROVE  /\ Cardinality(request'[q].approvers) < request'[q].required
                        /\ request'[q].rejecters = {}
    BY DEF PendingShort
  <1>9. CASE q = h.on
    <2>1. request'[q] = Voted(h) /\ row.status = "pending"
      BY <1>1, <1>2, <1>8, <1>9 DEF OnlyVoted, h
    <2>2. h.saw = row.approvers /\ row.rejecters = {}
      BY <1>2, <2>1 DEF VotesInv, VotesSeen, PendingShort, h
    <2>3. QED
      BY <1>2, <1>6, <1>7, <2>1, <2>2
  <1>10. CASE q # h.on
    <2>1. request'[q] = request[q]
      BY <1>1, <1>10 DEF OnlyVoted, h
    <2>2. QED
      BY <1>8, <2>1 DEF VotesInv, PendingShort
  <1>11. QED
    BY <1>9, <1>10

\* With one handler at a time, every step keeps the pending requests short and seen.
LEMMA NextVotes ==
    ASSUME OneHandler, RoutesInv, HandlersFresh, VotesInv, [Next]_vars
    PROVE  VotesInv'
  <1>1. TypeOK
    BY DEF RoutesInv, QuorumInv
  <1>2. ASSUME \A q \in Requests : RowVotes(q)
        PROVE  PendingShort'
    <2>1. SUFFICES ASSUME NEW q \in Requests, request'[q].status = "pending"
                   PROVE  /\ Cardinality(request'[q].approvers) < request'[q].required
                          /\ request'[q].rejecters = {}
      BY DEF PendingShort
    <2>2. CASE request'[q] = request[q]
      BY <2>1, <2>2 DEF VotesInv, PendingShort
    <2>3. CASE request'[q] # request[q]
      BY <1>2, <2>1, <2>3, FS_EmptySet DEF RowVotes
    <2>4. QED
      BY <2>2, <2>3
  <1>3. PendingShort'
    BY <1>1, <1>2, NextRows, PartialVoteShort
  <1>4. ASSUME NEW s \in Slots, Done(s)
        PROVE  VotesSeen'
    BY <1>1, <1>4 DEF Done, TypeOK, OneHandler, VotesSeen, Idle
  <1>5. ASSUME NEW s \in Slots, Commit(s)
        PROVE  Done(s)
    BY <1>5 DEF Commit, PartialVote, DecideAlone, RejectStage, ApproveStage, FinishRoute,
       Deciding, Cancel, Transition, Start
  <1>6. ASSUME NEW s \in Slots, NEW u \in Users, Load(s, u)
        PROVE  VotesSeen'
    <2>1. ASSUME NEW h, Loaded(s, h), h.op = "decide" => h.saw = request[h.on].approvers
          PROVE  VotesSeen'
      BY <1>1, <2>1 DEF Loaded, VotesSeen, TypeOK, OneHandler
    <2>2. ASSUME NEW h, Loaded(s, h), h.op # "decide"
          PROVE  VotesSeen'
      BY <2>1, <2>2
    <2>3. ASSUME NEW q \in Requests, NEW yes \in BOOLEAN, LoadDecision(s, u, q, yes)
          PROVE  VotesSeen'
      BY <2>1, <2>3 DEF LoadDecision
    <2>4. ASSUME NEW q \in Requests, LoadCancel(s, u, q)
          PROVE  VotesSeen'
      BY <2>2, <2>4 DEF LoadCancel, Cancelling
    <2>5. ASSUME NEW i \in Routes, LoadCancelRoute(s, u, i)
          PROVE  VotesSeen'
      BY <2>2, <2>5 DEF LoadCancelRoute, Cancelling
    <2>6. ASSUME NEW r \in Records, NEW a \in DOMAIN Transitions, LoadTransition(s, u, r, a)
          PROVE  VotesSeen'
      <3>1. a # "decide"
        BY DEF Transitions
      <3>2. QED
        BY <2>2, <2>6, <3>1 DEF LoadTransition
    <2>7. ASSUME NEW r \in Records, LoadStart(s, u, r)
          PROVE  VotesSeen'
      BY <2>2, <2>7 DEF LoadStart
    <2>8. QED
      BY <1>6, <2>3, <2>4, <2>5, <2>6, <2>7 DEF Load
  <1>7. ASSUME inflight' = inflight, \A q \in Requests : RowVotes(q)
        PROVE  VotesSeen'
    <2>1. SUFFICES ASSUME NEW s \in Slots, inflight[s].op = "decide",
                          request'[inflight[s].on].status = "pending"
                   PROVE  inflight[s].saw = request'[inflight[s].on].approvers
      BY <1>7 DEF VotesSeen
    <2>2. inflight[s].on \in Requests
      BY <1>1, <2>1 DEF TypeOK, Handler
    <2>3. request[inflight[s].on].status # "unused"
      BY <2>1 DEF HandlersFresh, HandlerFresh
    <2>4. request'[inflight[s].on] = request[inflight[s].on]
      BY <1>7, <2>1, <2>2, <2>3 DEF RowVotes
    <2>5. QED
      BY <2>1, <2>4 DEF VotesInv, VotesSeen
  <1>8. ASSUME \/ \E u \in Users, r \in Records, n \in ByHand : RaiseRequest(u, r, n)
               \/ \E u \in Users, q \in Requests : DeleteRequest(u, q)
               \/ SwitchDefinition \/ UNCHANGED vars
        PROVE  VotesSeen'
    <2>1. inflight' = inflight
      BY <1>8 DEF RaiseRequest, DeleteRequest, SwitchDefinition, vars
    <2>2. (\E s \in Slots : PartialVote(s)) => VotesSeen'
      BY <1>4 DEF PartialVote, Deciding
    <2>3. (\A q \in Requests : RowVotes(q)) => VotesSeen'
      BY <1>7, <2>1
    <2>4. QED
      BY <1>1, <2>2, <2>3, NextRows
  <1>9. ASSUME \E s \in Slots : Rollback(s)
        PROVE  VotesSeen'
    BY <1>4, <1>9 DEF Rollback
  <1>10. VotesSeen'
    BY <1>4, <1>5, <1>6, <1>8, <1>9 DEF Next
  <1>11. QED
    BY <1>3, <1>10 DEF VotesInv

\* With one handler at a time, what is pending is short of its votes.
LEMMA VotesInvariant ==
    ASSUME OneHandler
    PROVE  Spec => [](RoutesInv /\ SettledInv /\ VotesInv)
  <1>1. Init => VotesInv
    <2> SUFFICES ASSUME Init PROVE VotesInv
      OBVIOUS
    <2>1. \A q \in Requests : request[q].status = "unused"
      BY DEF Init, UnusedRequest
    <2>2. \A s \in Slots : inflight[s].op = "idle"
      BY DEF Init, Idle
    <2>3. QED
      BY <2>1, <2>2 DEF VotesInv, PendingShort, VotesSeen
  <1>2. RoutesInv /\ HandlersFresh /\ VotesInv /\ [Next]_vars => VotesInv'
    BY NextVotes
  <1>3. QED
    BY <1>1, <1>2, SettledInvariant, PTL DEF Spec

\* Who may decide a request of maker m: anyone who can approve, and for stage k the
\* holders of its role while one of them is not the maker.
Deciders(m) == {u \in Checkers : SoD => u # m}
StageDeciders(m, k) ==
    {u \in Deciders(m) : u \in Holders[k] \/ {v \in Holders[k] \cap Checkers : v # m} = {}}

\* The organisation is staffed for its routes: whoever makes a request, enough people may
\* decide it, and as many of them have a mandate where the decision finishes the review.
Staffed ==
    \A m \in Users :
        /\ \A k \in Stages : Cardinality(StageDeciders(m, k)) >= Required[k]
        /\ Cardinality(StageDeciders(m, NumStages) \cap Mandated) >= Required[NumStages]
        /\ \A n \in ByHand : Cardinality(Deciders(m) \cap Mandated) >= n

\* Of as many people as a request asks for, somebody has still to vote on it.
LEMMA SomebodyLeft ==
    ASSUME TypeOK, PendingShort, NEW q \in Requests, request[q].status = "pending",
           NEW some \in SUBSET Checkers, Cardinality(some) >= request[q].required,
           \A u \in some : (SoD => ~IsMaker(u, q)) /\ StageAllows(u, q)
    PROVE  /\ Cardinality({u \in Checkers : MayDecide(u, q)} \cup request[q].approvers)
                 >= request[q].required
           /\ \E u \in some : MayDecide(u, q)
  <1> DEFINE left == {u \in Checkers : MayDecide(u, q)}
             votes == request[q].approvers
  <1>1. votes \in SUBSET Users /\ request[q].required \in Nat
    BY DEF TypeOK, RequestRow
  <1>2. Cardinality(votes) < request[q].required /\ request[q].rejecters = {}
    BY DEF PendingShort
  <1>3. some \subseteq left \cup votes
    BY <1>2 DEF MayDecide
  <1>4. some \in SUBSET Users /\ left \cup votes \in SUBSET Users
    BY <1>1, SetsAssumption
  <1> HIDE DEF left, votes
  <1>5. Cardinality(left \cup votes) >= request[q].required
    <2>1. /\ Cardinality(some) \in Nat /\ Cardinality(left \cup votes) \in Nat
          /\ Cardinality(some) <= Cardinality(left \cup votes)
      BY <1>3, <1>4, MoreVotes
    <2>2. QED
      BY <1>1, <2>1
  <1>6. ~ some \subseteq votes
    <2>1. ASSUME some \subseteq votes
          PROVE  /\ Cardinality(some) \in Nat /\ Cardinality(votes) \in Nat
                 /\ Cardinality(some) <= Cardinality(votes)
      BY <1>1, <1>4, <2>1, MoreVotes
    <2>2. QED
      BY <1>1, <1>2, <2>1
  <1>7. \E u \in some : u \in left
    BY <1>3, <1>6
  <1>8. QED
    BY <1>5, <1>7 DEF left, votes

\* enforce_stage_role, authority_limits.enforce: when the routes are staffed and handlers do
\* not overlap, a pending request always has enough people left to make up its quorum, one
\* of whom may cast the vote that finishes the review.
THEOREM NoRequestIsStranded ==
    ASSUME OneHandler, Staffed
    PROVE  Spec => []PendingCanBeGranted
  <1>1. ASSUME RoutesInv, SettledInv, VotesInv, NEW q \in Requests, request[q].status = "pending"
        PROVE  LET left == {u \in Checkers : MayDecide(u, q)} IN
               /\ Cardinality(left \cup request[q].approvers) >= request[q].required
               /\ \E u \in left : FinishesReview(q) => u \in Mandated
    <2> DEFINE left == {u \in Checkers : MayDecide(u, q)}
               m == request[q].maker
    <2>1. TypeOK /\ PendingShort /\ m \in Users
      BY <1>1 DEF RoutesInv, QuorumInv, AskedInv, PendingRaised, VotesInv
    <2>2. ASSUME NEW some \in SUBSET Checkers, Cardinality(some) >= request[q].required,
                 \A u \in some : (SoD => ~IsMaker(u, q)) /\ StageAllows(u, q),
                 FinishesReview(q) => some \subseteq Mandated
          PROVE  /\ Cardinality(left \cup request[q].approvers) >= request[q].required
                 /\ \E u \in left : FinishesReview(q) => u \in Mandated
      <3>1. /\ Cardinality(left \cup request[q].approvers) >= request[q].required
            /\ \E u \in some : MayDecide(u, q)
        BY <1>1, <2>1, <2>2, SomebodyLeft
      <3>2. \E u \in some : u \in left
        BY <3>1
      <3>3. QED
        BY <2>2, <3>1, <3>2
    <2>3. CASE StageOf(q) # {}
      <3>1. PICK i, k : WaitsOn(i, k, q)
        BY <2>3, StageOfPairs
      <3>2. /\ i \in Routes /\ k \in Stages /\ route[i].steps[k].request = q /\ q # 0
            /\ <<i, k>> \in StageOf(q)
        BY <3>1, StageOfPairs, BoundAssumption DEF WaitsOn
      <3>3. request[q].required = Required[k]
        BY <1>1, <3>2 DEF RoutesInv, AskedInv, StageQuorums
      <3>4. /\ StandsAt(i, k)
            /\ \A j \in Routes, l \in Stages : route[j].steps[l].request = q => j = i /\ l = k
        BY <1>1, <3>1, StandsWhereAsked DEF SettledInv
      <3>5. \A u \in StageDeciders(m, k) : (SoD => ~IsMaker(u, q)) /\ StageAllows(u, q)
        BY <3>4 DEF StageDeciders, Deciders, StageAllows, IsMaker
      <3>6. StageDeciders(m, k) \in SUBSET Checkers
        BY DEF StageDeciders, Deciders
      <3>7. CASE k = NumStages
        <4>1. Cardinality(StageDeciders(m, k) \cap Mandated) >= request[q].required
          BY <2>1, <3>3, <3>7 DEF Staffed
        <4>2. StageDeciders(m, k) \cap Mandated \in SUBSET Checkers
          BY <3>6
        <4>3. QED
          BY <2>2, <3>5, <4>1, <4>2
      <3>8. CASE k # NumStages
        <4>1. NumStages \in Stages /\ k < NumStages
          BY <3>2, <3>8, RouteAssumption DEF Stages
        <4>2. route[i].steps[NumStages].status = "pending"
          BY <3>4, <4>1 DEF StandsAt
        <4>3. Approved(i, k)[NumStages].status = "pending"
          BY <2>1, <3>2, <3>8, <4>1, <4>2, StepsType DEF Approved
        <4>4. NumStages \in Undecided(Approved(i, k))
          BY <4>1, <4>3 DEF Undecided
        <4>5. Undecided(Approved(<<i, k>>[1], <<i, k>>[2])) # {}
          BY <4>4
        <4>6. ~FinishesReview(q)
          BY <3>2, <4>5 DEF FinishesReview
        <4>7. Cardinality(StageDeciders(m, k)) >= request[q].required
          BY <2>1, <3>2, <3>3 DEF Staffed
        <4>8. QED
          BY <2>2, <3>5, <3>6, <4>6, <4>7
      <3>9. QED
        BY <3>7, <3>8
    <2>4. CASE StageOf(q) = {}
      <3>1. request[q].required \in ByHand
        BY <1>1, <2>4 DEF SettledInv, PendingIsStage
      <3>2. \A i \in Routes, k \in Stages : route[i].steps[k].request # q
        <4> SUFFICES ASSUME NEW i \in Routes, NEW k \in Stages, route[i].steps[k].request = q
                     PROVE  FALSE
          OBVIOUS
        <4>1. route[i].status = "in_progress"
          BY <1>1, BoundAssumption DEF SettledInv, StagesSettled, StageSettled
        <4>2. WaitsOn(i, k, q)
          BY <4>1 DEF WaitsOn
        <4>3. QED
          BY <2>4, <4>2, StageOfPairs
      <3>3. \A u \in Deciders(m) \cap Mandated : (SoD => ~IsMaker(u, q)) /\ StageAllows(u, q)
        BY <3>2 DEF Deciders, IsMaker, StageAllows
      <3>4. /\ Deciders(m) \cap Mandated \in SUBSET Checkers
            /\ Cardinality(Deciders(m) \cap Mandated) >= request[q].required
        BY <2>1, <3>1 DEF Deciders, Staffed
      <3>5. QED
        BY <2>2, <3>3, <3>4
    <2>5. QED
      BY <2>3, <2>4
  <1>2. RoutesInv /\ SettledInv /\ VotesInv => PendingCanBeGranted
    BY <1>1 DEF PendingCanBeGranted
  <1>3. QED
    BY <1>2, VotesInvariant, PTL

-----------------------------------------------------------------------------
(***************************************************************************)
(* One handler at a time: a route is a staged sign-off                     *)
(***************************************************************************)
\* The stages of route i that are signed, and what the sign-off sees of all routes.
SignedStages(i) == {k \in Stages : route[i].steps[k].status = "approved"}
Outcome == [i \in Routes |-> route[i].status]
Signed  == [i \in Routes |-> Cardinality(SignedStages(i))]

\* A set of stages has at most as many as the route, and as many only when it has all.
LEMMA StagesCounted ==
    ASSUME NEW signed \in SUBSET Stages
    PROVE  /\ IsFiniteSet(signed)
           /\ Cardinality(signed) \in Nat
           /\ Cardinality(Stages) = NumStages
           /\ Cardinality(signed) = NumStages => signed = Stages
  <1>1. IsFiniteSet(Stages) /\ Cardinality(Stages) = NumStages
    BY RouteAssumption, FS_Interval DEF Stages
  <1>2. QED
    BY <1>1, FS_Subset, FS_CardinalityType

\* The sign-off stutters when no route and no stage changes status.
LEMMA SignOffStutters ==
    ASSUME \A i \in Routes : /\ route'[i].status = route[i].status
                             /\ \A l \in Stages : route'[i].steps[l].status = route[i].steps[l].status
    PROVE  Outcome' = Outcome /\ Signed' = Signed
  <1>1. \A i \in Routes : SignedStages(i)' = SignedStages(i)
    BY DEF SignedStages
  <1>2. QED
    BY <1>1 DEF Outcome, Signed

\* When one route moves, so does its entry in the sign-off and no other.
LEMMA SignOffMoves ==
    ASSUME NEW i \in Routes, \A j \in Routes \ {i} : route'[j] = route[j]
    PROVE  /\ Outcome' = [Outcome EXCEPT ![i] = route'[i].status]
           /\ Signed' = [Signed EXCEPT ![i] = Cardinality(SignedStages(i)')]
  <1>1. \A j \in Routes \ {i} : SignedStages(j)' = SignedStages(j)
    BY DEF SignedStages
  <1>2. QED
    BY <1>1 DEF Outcome, Signed

\* A stage that is approved signs the route's next stage.
LEMMA SignsNext ==
    ASSUME NEW i \in Routes, \A j \in Routes \ {i} : route'[j] = route[j],
           route[i].status = "in_progress",
           NEW k \in Stages, route[i].steps[k].status # "approved",
           SignedStages(i)' = SignedStages(i) \cup {k},
           route'[i].status = IF SignedStages(i)' = Stages THEN "approved" ELSE "in_progress"
    PROVE  SignOff!Sign(i)
  <1>1. SignedStages(i) \in SUBSET Stages /\ SignedStages(i)' \in SUBSET Stages
        /\ k \notin SignedStages(i)
    BY DEF SignedStages
  <1>2. /\ Cardinality(SignedStages(i)') = Cardinality(SignedStages(i)) + 1
        /\ Cardinality(SignedStages(i)') = NumStages <=> SignedStages(i)' = Stages
    BY <1>1, StagesCounted, FS_AddElement
  <1>3. /\ Outcome' = [Outcome EXCEPT ![i] = route'[i].status]
        /\ Signed' = [Signed EXCEPT ![i] = Cardinality(SignedStages(i)')]
    BY SignOffMoves
  <1>4. /\ Outcome[i] = "in_progress"
        /\ Signed[i] = Cardinality(SignedStages(i))
    BY DEF Outcome, Signed
  <1>5. /\ Signed' = [Signed EXCEPT ![i] = Signed[i] + 1]
        /\ Outcome' = [Outcome EXCEPT ![i] = IF Signed[i] + 1 = NumStages THEN "approved"
                                             ELSE Outcome[i]]
    BY <1>2, <1>3, <1>4
  <1>6. QED
    BY <1>4, <1>5 DEF SignOff!Sign, Outcome, Signed, SignedStages

\* A route that ends unsigned is refused or withdrawn.
LEMMA EndsUnsigned ==
    ASSUME NEW i \in Routes, \A j \in Routes \ {i} : route'[j] = route[j],
           route[i].status = "in_progress", SignedStages(i)' = SignedStages(i)
    PROVE  /\ route'[i].status = "rejected" => SignOff!Refuse(i)
           /\ route'[i].status = "cancelled" => SignOff!Withdraw(i)
  <1>1. /\ Outcome' = [Outcome EXCEPT ![i] = route'[i].status]
        /\ Signed' = [Signed EXCEPT ![i] = Signed[i]]
    BY SignOffMoves DEF Signed
  <1>2. Signed' = Signed /\ Outcome[i] = "in_progress"
    BY <1>1 DEF Signed, Outcome
  <1>3. QED
    BY <1>1, <1>2 DEF SignOff!Refuse, SignOff!Withdraw, Outcome, Signed, SignedStages

\* A step of the sign-off, or none.
SignOffStep == SignOff!Next \/ (Outcome' = Outcome /\ Signed' = Signed)

\* RejectStage refuses the route: its stage was not signed, those not opened are skipped.
LEMMA RejectStageRefuses ==
    ASSUME RoutesInv, SettledInv, HandlersFresh, NEW s \in Slots, RejectStage(s)
    PROVE  SignOffStep
  <1>1. TypeOK /\ Deciding(s)
    BY DEF RoutesInv, QuorumInv, RejectStage
  <1>2. PICK i \in Routes, k \in Stages :
           /\ WaitsOn(i, k, inflight[s].on)
           /\ RouteMoved(i, "rejected")
           /\ \A l \in Stages : route'[i].steps[l].status =
                 IF l = k THEN "rejected"
                 ELSE IF route[i].steps[l].status = "pending" THEN "skipped"
                 ELSE route[i].steps[l].status
    BY <1>1, RejectStageEffect
  <1>3. route[i].steps[k].status = "in_progress"
    BY <1>1, <1>2, DecidedStage DEF OnlyWait, StandsAt
  <1>4. SignedStages(i)' = SignedStages(i)
    BY <1>2, <1>3 DEF SignedStages
  <1>5. SignOff!Refuse(i)
    BY <1>2, <1>4, EndsUnsigned DEF RouteMoved, WaitsOn
  <1>6. QED
    BY <1>5 DEF SignOff!Next, SignOffStep

\* ApproveStage signs the stage, and one is left to sign.
LEMMA ApproveStageSigns ==
    ASSUME RoutesInv, SettledInv, HandlersFresh, NEW s \in Slots, ApproveStage(s)
    PROVE  SignOffStep
  <1>1. TypeOK /\ Deciding(s)
    BY DEF RoutesInv, QuorumInv, ApproveStage
  <1>2. PICK i \in Routes, k \in Stages, next \in Stages, f \in Requests :
           /\ WaitsOn(i, k, inflight[s].on)
           /\ RouteMoved(i, "in_progress")
           /\ next # k
           /\ route[i].steps[next].status \in {"pending", "in_progress"}
           /\ \A l \in Stages : route'[i].steps[l].status =
                                      IF l = next THEN "in_progress"
                                      ELSE IF l = k THEN "approved"
                                      ELSE route[i].steps[l].status
    BY <1>1, ApproveStageEffect
  <1>3. route[i].steps[k].status = "in_progress"
    BY <1>1, <1>2, DecidedStage DEF OnlyWait, StandsAt
  <1>4. SignedStages(i)' = SignedStages(i) \cup {k} /\ next \notin SignedStages(i)'
    BY <1>2 DEF SignedStages
  <1>5. SignedStages(i)' # Stages
    BY <1>4
  <1>6. SignOff!Sign(i)
    BY <1>2, <1>3, <1>4, <1>5, SignsNext DEF RouteMoved, WaitsOn
  <1>7. QED
    BY <1>6 DEF SignOff!Next, SignOffStep

\* FinishRoute signs the last stage.
LEMMA FinishRouteSigns ==
    ASSUME RoutesInv, SettledInv, HandlersFresh, NEW s \in Slots, FinishRoute(s)
    PROVE  SignOffStep
  <1>1. TypeOK /\ Deciding(s)
    BY DEF RoutesInv, QuorumInv, FinishRoute
  <1>2. PICK i \in Routes, k \in Stages :
           /\ WaitsOn(i, k, inflight[s].on)
           /\ RouteMoved(i, "approved")
           /\ \A l \in Stages : route'[i].steps[l].status =
                 IF l = k THEN "approved" ELSE route[i].steps[l].status
           /\ Undecided(route'[i].steps) = {}
    BY <1>1, FinishRouteEffect
  <1>3. /\ route[i].steps[k].status = "in_progress"
        /\ \A l \in Stages \ {k} : route[i].steps[l].status \in {"approved", "pending"}
    BY <1>1, <1>2, DecidedStage DEF OnlyWait, StandsAt
  <1>4. SignedStages(i)' = SignedStages(i) \cup {k}
    BY <1>2 DEF SignedStages
  <1>5. SignedStages(i)' = Stages
    BY <1>2, <1>3 DEF SignedStages, Undecided
  <1>6. SignOff!Sign(i)
    BY <1>2, <1>3, <1>4, <1>5, SignsNext DEF RouteMoved, WaitsOn
  <1>7. QED
    BY <1>6 DEF SignOff!Next, SignOffStep

\* Cancel withdraws a live route, whose signed stages stay signed.
LEMMA CancelWithdraws ==
    ASSUME RoutesInv, SettledInv, HandlersFresh, NEW s \in Slots, Cancel(s)
    PROVE  SignOffStep
  <1> DEFINE h == inflight[s]
  <1>1. TypeOK /\ h.op = "cancel" /\ CancelFresh(h)
    BY DEF RoutesInv, QuorumInv, Cancel, HandlersFresh, HandlerFresh
  <1>2. CASE h.route = 0
    BY <1>1, <1>2, CancelEffect, SignOffStutters DEF SignOffStep
  <1>3. CASE h.route # 0
    <2>1. PICK i \in Routes :
             /\ i = h.route
             /\ RouteMoved(i, "cancelled")
             /\ \A l \in Stages : route'[i].steps[l].status =
                   IF l \in h.openSteps THEN "skipped" ELSE route[i].steps[l].status
      BY <1>1, <1>3, CancelEffect
    <2>2. route[i].status = "in_progress" /\ h.openSteps = Undecided(route[i].steps)
      BY <1>1, <1>3, <2>1 DEF CancelFresh
    <2>3. SignedStages(i)' = SignedStages(i)
      BY <2>1, <2>2 DEF SignedStages, Undecided
    <2>4. SignOff!Withdraw(i)
      BY <2>1, <2>2, <2>3, EndsUnsigned DEF RouteMoved
    <2>5. QED
      BY <2>4 DEF SignOff!Next, SignOffStep
  <1>4. QED
    BY <1>2, <1>3

\* StartRoute opens a route, none of whose stages is signed.
LEMMA StartRouteOpens ==
    ASSUME RoutesInv, NEW r, NEW u, StartRoute(r, u)
    PROVE  SignOffStep
  <1>1. PICK i \in Routes :
           /\ route[i].status = "unused"
           /\ \A j \in Routes \ {i} : route'[j] = route[j]
           /\ route'[i].status = "in_progress"
           /\ \A l \in Stages :
                 route'[i].steps[l].status = IF l = 1 THEN "in_progress" ELSE "pending"
    BY StartRouteEffect DEF RoutesInv, QuorumInv
  <1>2. \A l \in Stages : route[i].steps[l].status = "pending"
    BY <1>1 DEF RoutesInv, OrderInv, OrderSound
  <1>3. SignedStages(i)' = SignedStages(i)
    BY <1>1, <1>2 DEF SignedStages
  <1>4. /\ Outcome' = [Outcome EXCEPT ![i] = "in_progress"]
        /\ Signed' = [Signed EXCEPT ![i] = Signed[i]]
    BY <1>1, <1>3, SignOffMoves DEF Signed
  <1>5. Outcome[i] = "unused" /\ Signed' = Signed
    BY <1>1, <1>4 DEF Outcome, Signed
  <1>6. SignOff!Open(i)
    BY <1>4, <1>5 DEF SignOff!Open, Outcome, Signed, SignedStages
  <1>7. QED
    BY <1>6 DEF SignOff!Next, SignOffStep

\* With one handler at a time, every step is a step of the sign-off or none.
LEMMA NextSigns ==
    ASSUME RoutesInv, SettledInv, HandlersFresh, [Next]_vars
    PROVE  SignOffStep
  <1>1. ASSUME UNCHANGED route
        PROVE  SignOffStep
    BY <1>1, SignOffStutters DEF SignOffStep
  <1>2. ASSUME NEW s \in Slots, Commit(s)
        PROVE  SignOffStep
    <2>1. CASE PartialVote(s) \/ DecideAlone(s)
      BY <1>1, <2>1 DEF PartialVote, DecideAlone
    <2>2. CASE Transition(s)
      BY <1>1, <2>2, StartRouteOpens DEF Transition
    <2>3. CASE Start(s)
      BY <2>3, StartRouteOpens DEF Start
    <2>4. QED
      BY <1>2, <2>1, <2>2, <2>3, RejectStageRefuses, ApproveStageSigns, FinishRouteSigns,
         CancelWithdraws DEF Commit
  <1>3. ASSUME NEW u \in Users, NEW q \in Requests, DeleteRequest(u, q)
        PROVE  SignOffStep
    BY <1>3, DeleteRequestEffect, SignOffStutters DEF SignOffStep, RoutesInv, QuorumInv
  <1>4. CASE \/ \E s \in Slots, u \in Users : Load(s, u)
             \/ \E s \in Slots : Rollback(s)
             \/ \E u \in Users, r \in Records, n \in ByHand : RaiseRequest(u, r, n)
             \/ SwitchDefinition \/ UNCHANGED vars
    BY <1>1, <1>4 DEF Load, LoadDecision, LoadCancel, LoadCancelRoute, LoadTransition, LoadStart,
       Loaded, Rollback, RaiseRequest, SwitchDefinition, vars
  <1>5. QED
    BY <1>2, <1>3, <1>4 DEF Next

\* workflow_engine: with one handler at a time, a route is a staged sign-off: start opens it,
\* on_approval_decided signs or refuses the stage it stands at, cancel withdraws it, and
\* once it has ended nothing moves it.
THEOREM RoutesAreStagedSignOffs ==
    ASSUME OneHandler
    PROVE  Spec => ImplementsSignOff
  <1>1. Init => SignOff!Init
    <2> SUFFICES ASSUME Init PROVE SignOff!Init
      OBVIOUS
    <2>1. \A i \in Routes : /\ route[i].status = "unused"
                            /\ \A k \in Stages : route[i].steps[k].status = "pending"
      BY DEF Init, UnusedRoute
    <2>2. \A i \in Routes : {k \in Stages : route[i].steps[k].status = "approved"} = {}
      BY <2>1
    <2>3. Cardinality({}) = 0
      BY FS_EmptySet
    <2>4. QED
      BY <2>1, <2>2, <2>3 DEF SignOff!Init
  <1>2. RoutesInv /\ SettledInv /\ HandlersFresh /\ [Next]_vars =>
          [SignOff!Next]_<<[i \in Routes |-> route[i].status],
                           [i \in Routes |-> Cardinality({k \in Stages :
                                                 route[i].steps[k].status = "approved"})]>>
    BY NextSigns DEF SignOffStep, Outcome, Signed, SignedStages
  <1>3. QED
    BY <1>1, <1>2, SettledInvariant, PTL DEF Spec, ImplementsSignOff, SignOff!Spec
=============================================================================
