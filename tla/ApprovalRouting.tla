--------------------------- MODULE ApprovalRouting ---------------------------
(***************************************************************************)
(* Approval requests (maker-checker, N-eyes), the routes that chain them   *)
(* into stages, and the lifecycle of the record they decide.               *)
(*                                                                         *)
(* A request of the API is one PostgreSQL transaction under READ COMMITTED *)
(* and takes no row lock on what it reads.  A handler is therefore two     *)
(* steps: "Load..." reads the rows it bases its decision on and makes its  *)
(* checks; the step named after the handler writes and commits.  Between   *)
(* the two, the handlers in other Slots may commit.  What a handler reads  *)
(* again after its first flush it reads in its second step.                *)
(***************************************************************************)
EXTENDS Naturals, FiniteSets

CONSTANTS
    Users,
    Writers,      \* hold workflow:write and the module's write permission
    Checkers,     \* hold workflow:approve
    Admins,       \* hold automation:manage, which route design and any withdrawal need
    Mandated,     \* the users whose delegation of authority covers the record
    Records,
    EnteredBy,    \* EnteredBy[r]: the user who created the record (its maker)
    NumStages,    \* stages of the route's definition
    Required,     \* Required[k]: approvals stage k needs
    ByHand,       \* the numbers of approvals asked for in requests raised by hand
    Holders,      \* Holders[k]: who holds the role stage k names; {}: no role
    SoD,          \* settings.enforce_segregation_of_duties
    MaxRequests,  \* bound: approval requests ever raised
    MaxRoutes,    \* bound: routes ever started
    Slots,        \* handlers that may be in flight at the same time
    Nobody

Stages   == 1..NumStages
Requests == 1..MaxRequests
Routes   == 1..MaxRoutes

ASSUME SetsAssumption ==
    /\ IsFiniteSet(Users)
    /\ Writers \subseteq Users
    /\ Checkers \subseteq Users
    /\ Admins \subseteq Users
    /\ Mandated \subseteq Users
    /\ EnteredBy \in [Records -> Users]
    /\ Nobody \notin Users
    /\ Nobody \notin Records

ASSUME RouteAssumption ==
    /\ NumStages \in Nat \ {0}
    /\ Required \in [Stages -> Nat \ {0}]
    /\ ByHand \subseteq Nat \ {0}
    /\ Holders \in [Stages -> SUBSET Users]

ASSUME BoundAssumption ==
    /\ MaxRequests \in Nat
    /\ MaxRoutes \in Nat

ASSUME SoDAssumption == SoD \in BOOLEAN

VARIABLES
    record,    \* the record's state, its last submitter, and what approved it
    request,   \* approval_requests with their approval_actions
    route,     \* workflow_instances with their steps
    enabled,   \* whether the record type's definition is switched on
    inflight   \* per slot, what the handler running there has loaded

vars == <<record, request, route, enabled, inflight>>

-----------------------------------------------------------------------------
(***************************************************************************)
(* Rows                                                                    *)
(***************************************************************************)
RecordStates  == {"draft", "in_review", "approved", "retired"}
RequestStatus == {"unused", "pending", "approved", "rejected", "cancelled", "deleted"}
RouteStatus   == {"unused", "in_progress", "approved", "rejected", "cancelled"}
StepStatus    == {"pending", "in_progress", "approved", "rejected", "skipped"}

\* A record.  submitter is the latest workflow_submit entry of its audit trail;
\* by names the decision behind the approval: 0 for one taken on the record,
\* else the approval request.
RecordRow == [state : RecordStates, submitter : Users \cup {Nobody}, by : 0..MaxRequests]

RequestRow == [status : RequestStatus, about : Records \cup {Nobody},
               maker : Users \cup {Nobody}, required : Nat,
               approvers : SUBSET Users, rejecters : SUBSET Users]

StepRow == [status : StepStatus, request : 0..MaxRequests]   \* 0: NULL

RouteRow == [status : RouteStatus, about : Records \cup {Nobody},
             startedBy : Users \cup {Nobody}, steps : [Stages -> StepRow]]

Idle == [op |-> "idle"]

\* What a handler holds between its two steps.
Handler ==
    [op : {"idle"}]
      \cup [op : {"decide"}, by : Users, on : Requests, yes : BOOLEAN, saw : SUBSET Users]
      \cup [op : {"cancel"}, by : Users, on : Requests, route : 0..MaxRoutes,
            openSteps : SUBSET Stages, openRequests : SUBSET Requests]
      \cup [op : {"cancel"}, by : Users, on : {0}, route : Routes,
            openSteps : SUBSET Stages, openRequests : SUBSET Requests]
      \cup [op : {"start", "submit", "approve", "reject", "revise", "retire"},
            by : Users, on : Records, starts : BOOLEAN]

UnusedRequest == [status |-> "unused", about |-> Nobody, maker |-> Nobody,
                  required |-> 0, approvers |-> {}, rejecters |-> {}]

UnusedRoute == [status |-> "unused", about |-> Nobody, startedBy |-> Nobody,
                steps |-> [k \in Stages |-> [status |-> "pending", request |-> 0]]]

NewRequest(r, maker, required) ==
    [status |-> "pending", about |-> r, maker |-> maker, required |-> required,
     approvers |-> {}, rejecters |-> {}]

Init ==
    /\ record = [r \in Records |-> [state |-> "draft", submitter |-> Nobody, by |-> 0]]
    /\ request = [q \in Requests |-> UnusedRequest]
    /\ route = [i \in Routes |-> UnusedRoute]
    /\ enabled \in BOOLEAN
    /\ inflight = [s \in Slots |-> Idle]

-----------------------------------------------------------------------------
(***************************************************************************)
(* What a handler may read                                                 *)
(***************************************************************************)
RequestsLeft == \E q \in Requests : request[q].status = "unused"
RoutesLeft   == \E i \in Routes : route[i].status = "unused"
FreshRequest == CHOOSE q \in Requests : request[q].status = "unused"
FreshRoute   == CHOOSE i \in Routes : route[i].status = "unused"

LiveRoutes(r) == {i \in Routes : route[i].status = "in_progress" /\ route[i].about = r}

\* The stage of a live route that waits on request q: none or one pair <<i, k>>.
StageOfFirst(q) == {p \in Routes \X {1} :               \* mutant: first stage only
                   /\ route[p[1]].steps[p[2]].request = q
                   /\ route[p[1]].status = "in_progress"}
StageOf(q) == {p \in Routes \X Stages :
                   /\ route[p[1]].steps[p[2]].request = q
                   /\ route[p[1]].status = "in_progress"}

\* Steps that are not decided yet, and the one the route stands at.
Undecided(steps) == {k \in Stages : steps[k].status \in {"pending", "in_progress"}}
CurrentStep(steps) == CHOOSE k \in Undecided(steps) : \A j \in Undecided(steps) : k <= j

IsMaker(u, q) == request[q].maker = u
MayCancel(u, q) == u \in Admins \/ IsMaker(u, q)

\* A stage that names a role is decided by a holder of it, while somebody other
\* than the maker holds it and can approve; otherwise by anyone who can approve.
StageAllowsMakerCounts(u, q) ==                      \* mutant: the maker counts as a holder
    \A i \in Routes, k \in Stages :
        route[i].steps[k].request = q =>
            u \in Holders[k] \/ Holders[k] \cap Checkers = {}
StageAllows(u, q) ==
    \A i \in Routes, k \in Stages :
        route[i].steps[k].request = q =>
            \/ u \in Holders[k]
            \/ {v \in Holders[k] \cap Checkers : ~IsMaker(v, q)} = {}

\* Four eyes on the record itself: neither who entered it nor who submitted it.
Independent(u, r) == SoD => u \notin {EnteredBy[r], record[r].submitter}

Transitions == [submit  |-> [from |-> "draft",     to |-> "in_review"],
                approve |-> [from |-> "in_review", to |-> "approved"],
                reject  |-> [from |-> "in_review", to |-> "draft"],
                retire  |-> [from |-> "approved",  to |-> "retired"],
                revise  |-> [from |-> "approved",  to |-> "draft"]]

\* The state an approvals decision moves a record to: its own state when the
\* decision leaves it alone (an approved or retired record, or a rejected draft).
WriteBackTargetRejected(state, approved) ==          \* mutant: a state of its own
    CASE approved /\ state \in {"draft", "in_review"} -> "approved"
      [] ~approved /\ state = "in_review" -> "rejected"
      [] OTHER -> state
WriteBackTarget(state, approved) ==
    CASE approved /\ state \in {"draft", "in_review"} -> "approved"
      [] ~approved /\ state = "in_review" -> "draft"
      [] OTHER -> state

-----------------------------------------------------------------------------
(***************************************************************************)
(* Parts of handlers                                                       *)
(***************************************************************************)
Loaded(s, h) ==
    /\ inflight[s] = Idle
    /\ inflight' = [inflight EXCEPT ![s] = h]
    /\ UNCHANGED <<record, request, route, enabled>>

Done(s) == inflight' = [inflight EXCEPT ![s] = Idle]

\* Any refusal, error or crash before the commit: nothing was written.
Rollback(s) ==
    /\ inflight[s] # Idle
    /\ Done(s)
    /\ UNCHANGED <<record, request, route, enabled>>

\* A record's row moved to a state: a submission is signed by u, an approval names
\* the request q it was taken on.
Moved(row, target, u, q) ==
    CASE target = "in_review" -> [row EXCEPT !.state = target, !.submitter = u]
      [] target = "approved" -> [row EXCEPT !.state = target, !.by = q]
      [] OTHER -> [row EXCEPT !.state = target]

\* The outcome of the decision of u on request q, written onto record r.  An
\* approval that finishes the record's review needs the decider's mandate.
WriteBack(r, approved, u, q) ==
    LET target == WriteBackTarget(record[r].state, approved) IN
    IF target = record[r].state
    THEN record' = record
    ELSE /\ target = "approved" => u \in Mandated
         /\ record' = [record EXCEPT ![r] = Moved(@, target, u, q)]

\* The steps of a new route on record r, whose first stage is open on request q.
AllStagesOpen(q) ==                                  \* mutant: stages in parallel
    [k \in Stages |-> [status |-> "in_progress", request |-> q]]
FirstStageOpen(q) ==
    [k \in Stages |-> IF k = 1 THEN [status |-> "in_progress", request |-> q]
                      ELSE [status |-> "pending", request |-> 0]]

StartRoute(r, u) ==
    /\ RoutesLeft
    /\ RequestsLeft
    /\ route' = [route EXCEPT ![FreshRoute] =
                    [status |-> "in_progress", about |-> r, startedBy |-> u,
                     steps |-> FirstStageOpen(FreshRequest)]]
    /\ request' = [request EXCEPT ![FreshRequest] = NewRequest(r, u, Required[1])]

-----------------------------------------------------------------------------
(***************************************************************************)
(* Deciding a request                                                      *)
(***************************************************************************)
\* Who may vote on it: a checker, not its maker, whom its stage allows, once.
MayDecide(u, q) ==
    /\ u \in Checkers
    /\ SoD => ~IsMaker(u, q)
    /\ StageAllows(u, q)
    /\ u \notin request[q].approvers \cup request[q].rejecters

LoadDecision(s, u, q, yes) ==
    /\ request[q].status = "pending"
    /\ MayDecide(u, q)
    /\ Loaded(s, [op |-> "decide", by |-> u, on |-> q, yes |-> yes,
                  saw |-> request[q].approvers])

\* The approvals the handler counts: those it loaded and the one it adds.
GrantedUnder(h) == Cardinality(h.saw \cup {h.by}) + 1 >= request[h.on].required    \* mutant
Granted(h) == Cardinality(h.saw \cup {h.by}) >= request[h.on].required

\* The row of the request once the vote and its outcome are written.  A vote that
\* does not decide leaves the status column out of its UPDATE.
Voted(h) ==
    [request[h.on] EXCEPT
        !.approvers = IF h.yes THEN @ \cup {h.by} ELSE @,
        !.rejecters = IF h.yes THEN @ ELSE @ \cup {h.by},
        !.status = IF ~h.yes THEN "rejected"
                   ELSE IF Granted(h) THEN "approved" ELSE @]

Deciding(s) ==
    /\ inflight[s].op = "decide"
    /\ request[inflight[s].on].status # "deleted"
    /\ Done(s)
    /\ UNCHANGED enabled

\* A vote short of the number required: still gathering.
PartialVote(s) ==
    LET h == inflight[s] IN
    /\ Deciding(s)
    /\ h.yes /\ ~Granted(h)
    /\ request' = [request EXCEPT ![h.on] = Voted(h)]
    /\ UNCHANGED <<record, route>>

\* The request is no stage of a live route: its outcome goes to the record.
DecideAloneEarly(s) ==                               \* mutant: a partial vote is written back
    LET h == inflight[s] IN
    /\ Deciding(s)
    /\ StageOf(h.on) = {}
    /\ request' = [request EXCEPT ![h.on] = Voted(h)]
    /\ WriteBack(request[h.on].about, h.yes, h.by, h.on)
    /\ UNCHANGED route
DecideAlone(s) ==
    LET h == inflight[s] IN
    /\ Deciding(s)
    /\ h.yes => Granted(h)
    /\ StageOf(h.on) = {}
    /\ request' = [request EXCEPT ![h.on] = Voted(h)]
    /\ WriteBack(request[h.on].about, h.yes, h.by, h.on)
    /\ UNCHANGED route

\* One rejection ends the route.
RejectStage(s) ==
    LET h == inflight[s] IN
    /\ Deciding(s)
    /\ ~h.yes
    /\ request' = [request EXCEPT ![h.on] = Voted(h)]
    /\ \E p \in StageOf(h.on) :
         LET i == p[1]  k == p[2] IN
         /\ route' = [route EXCEPT
                ![i].status = "rejected",
                ![i].steps = [j \in Stages |->
                    IF j = k THEN [@[j] EXCEPT !.status = "rejected"]
                    ELSE IF @[j].status = "pending" THEN [@[j] EXCEPT !.status = "skipped"]
                    ELSE @[j]]]
         /\ WriteBack(route[i].about, FALSE, h.by, h.on)

\* The steps of route i once the stage k is approved.
Approved(i, k) == [route[i].steps EXCEPT ![k].status = "approved"]

\* A stage is approved and another is undecided: the next one is opened, with a
\* request of its own raised in the name of the route's starter.
ApproveStage(s) ==
    LET h == inflight[s] IN
    /\ Deciding(s)
    /\ h.yes /\ Granted(h)
    /\ RequestsLeft
    /\ \E p \in StageOf(h.on) :
         LET i == p[1]
             steps == Approved(i, p[2])
             next == CurrentStep(steps)
         IN /\ Undecided(steps) # {}
            /\ route' = [route EXCEPT ![i].steps =
                   [steps EXCEPT ![next] = [status |-> "in_progress", request |-> FreshRequest]]]
            /\ request' = [request EXCEPT
                   ![h.on] = Voted(h),
                   ![FreshRequest] = NewRequest(route[i].about, route[i].startedBy, Required[next])]
    /\ UNCHANGED record

\* The last stage is approved: the route is, and the record takes the outcome.
FinishRoute(s) ==
    LET h == inflight[s] IN
    /\ Deciding(s)
    /\ h.yes /\ Granted(h)
    /\ request' = [request EXCEPT ![h.on] = Voted(h)]
    /\ \E p \in StageOf(h.on) :
         LET i == p[1]
             steps == Approved(i, p[2])
         IN /\ Undecided(steps) = {}
            /\ route' = [route EXCEPT ![i].status = "approved", ![i].steps = steps]
            /\ WriteBack(route[i].about, TRUE, h.by, h.on)

-----------------------------------------------------------------------------
(***************************************************************************)
(* Raising, withdrawing and deleting a request                             *)
(***************************************************************************)
\* A request raised by hand against a record (or by another register's code).
RaiseRequest(u, r, n) ==
    /\ u \in Writers
    /\ RequestsLeft
    /\ request' = [request EXCEPT ![FreshRequest] = NewRequest(r, u, n)]
    /\ UNCHANGED <<record, route, enabled, inflight>>

\* The steps a cancellation will skip and the requests it will cancel.
CancellingSteps(u, q, i) ==                          \* mutant: their requests stay open
    [op |-> "cancel", by |-> u, on |-> q, route |-> i,
     openSteps |-> Undecided(route[i].steps), openRequests |-> {}]
Cancelling(u, q, i) ==
    LET open == Undecided(route[i].steps) IN
    [op |-> "cancel", by |-> u, on |-> q, route |-> i, openSteps |-> open,
     openRequests |-> {p \in Requests : /\ request[p].status = "pending"
                                        /\ \E k \in open : route[i].steps[k].request = p}]

\* The maker or an administrator withdraws a pending request, and with it the
\* live route it is a stage of.
LoadCancelAlone(s, u, q) ==                          \* mutant: the route is left live
    /\ u \in Writers
    /\ request[q].status = "pending"
    /\ MayCancel(u, q)
    /\ Loaded(s, [op |-> "cancel", by |-> u, on |-> q, route |-> 0,
                  openSteps |-> {}, openRequests |-> {}])
LoadCancel(s, u, q) ==
    /\ u \in Writers
    /\ request[q].status = "pending"
    /\ MayCancel(u, q)
    /\ \/ /\ StageOf(q) = {}
          /\ Loaded(s, [op |-> "cancel", by |-> u, on |-> q, route |-> 0,
                        openSteps |-> {}, openRequests |-> {}])
       \/ \E p \in StageOf(q) : Loaded(s, Cancelling(u, q, p[1]))

\* "Cancel route" on the record: asks for workflow:write only.
LoadCancelRouteAnytime(s, u, i) ==                   \* mutant: an ended route too
    /\ u \in Writers
    /\ route[i].status # "unused"
    /\ Loaded(s, Cancelling(u, 0, i))
LoadCancelRoute(s, u, i) ==
    /\ u \in Writers
    /\ route[i].status = "in_progress"
    /\ Loaded(s, Cancelling(u, 0, i))

\* Abandon the route, its open stages and their requests; the record of a route,
\* or of a request that is no stage, goes back to draft if it was in review.
Cancel(s) ==
    LET h == inflight[s]
        gone == h.openRequests \cup ({h.on} \ {0})
        r == IF h.route = 0 THEN request[h.on].about ELSE route[h.route].about
    IN /\ h.op = "cancel"
       /\ \A q \in gone : request[q].status # "deleted"
       /\ request' = [q \in Requests |->
              IF q \in gone THEN [request[q] EXCEPT !.status = "cancelled"] ELSE request[q]]
       /\ route' = IF h.route = 0 THEN route
                   ELSE [route EXCEPT
                       ![h.route].status = "cancelled",
                       ![h.route].steps = [k \in Stages |->
                           IF k \in h.openSteps THEN [@[k] EXCEPT !.status = "skipped"] ELSE @[k]]]
       /\ WriteBack(r, FALSE, h.by, h.on)
       /\ Done(s)
       /\ UNCHANGED enabled

\* The row and its votes are gone; a step that pointed to it holds NULL.
DeleteRequest(u, q) ==
    /\ u \in Writers
    /\ request[q].status \notin {"unused", "deleted"}
    /\ MayCancel(u, q)
    /\ request' = [request EXCEPT ![q] = [UnusedRequest EXCEPT !.status = "deleted"]]
    /\ route' = [i \in Routes |-> [route[i] EXCEPT !.steps =
                    [k \in Stages |-> IF @[k].request = q THEN [@[k] EXCEPT !.request = 0]
                                      ELSE @[k]]]]
    /\ UNCHANGED <<record, enabled, inflight>>

-----------------------------------------------------------------------------
(***************************************************************************)
(* The record's lifecycle                                                  *)
(***************************************************************************)
WillStart(r) == enabled /\ LiveRoutes(r) = {}

\* Submit, revise and retire are the writer's; approve and reject are a checker's,
\* refused while a route is live and to whoever entered or submitted the record.
LoadTransition(s, u, r, a) ==
    /\ record[r].state = Transitions[a].from
    /\ IF a \in {"approve", "reject"}
       THEN u \in Checkers /\ LiveRoutes(r) = {} /\ Independent(u, r)
       ELSE u \in Writers
    /\ a = "approve" => u \in Mandated
    /\ Loaded(s, [op |-> a, by |-> u, on |-> r, starts |-> (a = "submit" /\ WillStart(r))])

\* "Send for approval" on a record that is not a draft: only the route starts.
LoadStart(s, u, r) ==
    /\ u \in Writers
    /\ record[r].state # "draft"
    /\ WillStart(r)
    /\ Loaded(s, [op |-> "start", by |-> u, on |-> r, starts |-> TRUE])

Transition(s) ==
    LET h == inflight[s] IN
    /\ h.op \in DOMAIN Transitions
    /\ record' = [record EXCEPT ![h.on] = Moved(@, Transitions[h.op].to, h.by, 0)]
    /\ IF h.starts THEN StartRoute(h.on, h.by) ELSE UNCHANGED <<request, route>>
    /\ Done(s)
    /\ UNCHANGED enabled

Start(s) ==
    LET h == inflight[s] IN
    /\ h.op = "start"
    /\ StartRoute(h.on, h.by)
    /\ Done(s)
    /\ UNCHANGED <<record, enabled>>

\* An administrator switches the record type's route on or off.
SwitchDefinition ==
    /\ enabled' = ~enabled
    /\ UNCHANGED <<record, request, route, inflight>>

Commit(s) ==
    \/ PartialVote(s) \/ DecideAlone(s) \/ RejectStage(s) \/ ApproveStage(s)
    \/ FinishRoute(s) \/ Cancel(s) \/ Transition(s) \/ Start(s)

Load(s, u) ==
    \/ \E q \in Requests, yes \in BOOLEAN : LoadDecision(s, u, q, yes)
    \/ \E q \in Requests : LoadCancel(s, u, q)
    \/ \E i \in Routes : LoadCancelRoute(s, u, i)
    \/ \E r \in Records, a \in DOMAIN Transitions : LoadTransition(s, u, r, a)
    \/ \E r \in Records : LoadStart(s, u, r)

Next ==
    \/ \E s \in Slots, u \in Users : Load(s, u)
    \/ \E s \in Slots : Commit(s) \/ Rollback(s)
    \/ \E u \in Users, r \in Records, n \in ByHand : RaiseRequest(u, r, n)
    \/ \E u \in Users, q \in Requests : DeleteRequest(u, q)
    \/ SwitchDefinition

Spec == Init /\ [][Next]_vars

-----------------------------------------------------------------------------
(***************************************************************************)
(* Properties                                                              *)
(***************************************************************************)
\* Every row has the shape its table and its handlers give it.
TypeOK ==
    /\ record \in [Records -> RecordRow]
    /\ request \in [Requests -> RequestRow]
    /\ route \in [Routes -> RouteRow]
    /\ enabled \in BOOLEAN
    /\ inflight \in [Slots -> Handler]

Quorum(q) ==
    /\ Cardinality(request[q].approvers) >= request[q].required
    /\ SoD => request[q].maker \notin request[q].approvers

\* decide_approval: however the votes of several checkers interleave, a request
\* reads approved only with the votes of as many different checkers as it asks
\* for, its maker not among them.
GrantedHasQuorum == \A q \in Requests : request[q].status = "approved" => Quorum(q)

\* write_back: a record approved through the inbox was approved by a request
\* about that very record that has its quorum (or has been deleted since).
ApprovalBacked ==
    \A r \in Records : record[r].by # 0 =>
        \/ request[record[r].by].status = "deleted"
        \/ request[record[r].by].about = r /\ Quorum(record[r].by)

\* workflow_engine: a live route has approved the stages before the one it
\* stands at and has not opened those after it; a route that reads approved has
\* approved every stage.
StagesInOrder ==
    \A i \in Routes :
        LET steps == route[i].steps IN
        /\ route[i].status = "in_progress" =>
             \E k \in Stages :
                 /\ steps[k].status = "in_progress"
                 /\ \A j \in Stages : /\ j < k => steps[j].status = "approved"
                                      /\ j > k => steps[j].status = "pending"
        /\ route[i].status = "approved" => \A k \in Stages : steps[k].status = "approved"

\* on_approval_decided, cancel: a route that has ended leaves no stage undecided
\* and no request of its own that somebody could still decide.
ClosedRouteIsSettled ==
    \A i \in Routes : route[i].status \in {"approved", "rejected", "cancelled"} =>
        /\ Undecided(route[i].steps) = {}
        /\ \A k \in Stages : LET q == route[i].steps[k].request IN
               q # 0 => request[q].status # "pending"

\* _open_stage: the stage a live route stands at waits on a pending request about
\* the route's record, unless that request was deleted.
LiveRouteWaits ==
    \A i \in Routes : route[i].status = "in_progress" =>
        LET q == route[i].steps[CurrentStep(route[i].steps)].request IN
        q # 0 => request[q].status = "pending" /\ request[q].about = route[i].about

BecomesApproved(r) == record[r].state # "approved" /\ record'[r].state = "approved"

\* write_back: while a route is live, a request approves the record only in the
\* step that finishes that route.
ApprovalFinishesRoute ==
    [][\A r \in Records :
          LiveRoutes(r) # {} /\ BecomesApproved(r) /\ record'[r].by # 0
              => \E i \in LiveRoutes(r) : route'[i].status = "approved"]_vars

\* Its grant would finish the review of its record: it is no stage, or the last one
\* left of its route, and the decision would move the record.
FinishesReview(q) ==
    LET state == record[request[q].about].state IN
    /\ \A p \in StageOf(q) : Undecided(Approved(p[1], p[2])) = {}
    /\ WriteBackTarget(state, TRUE) # state

\* enforce_stage_role, authority_limits.enforce: those who may still vote on a pending
\* request are enough to make up its quorum, and one of them may cast the last vote:
\* if that finishes the review of the record, with a mandate for it.
PendingCanBeGranted ==
    \A q \in Requests : request[q].status = "pending" =>
        LET left == {u \in Checkers : MayDecide(u, q)} IN
        /\ Cardinality(left \cup request[q].approvers) >= request[q].required
        /\ \E u \in left : FinishesReview(q) => u \in Mandated

\* The engine implements the staged sign-off: the stages signed are its approved
\* steps, the outcome is the status of the route.
SignOff == INSTANCE StagedSignOff WITH
    outcome <- [i \in Routes |-> route[i].status],
    signed <- [i \in Routes |->
                  Cardinality({k \in Stages : route[i].steps[k].status = "approved"})]

\* workflow_engine: start opens a route, on_approval_decided signs or refuses its
\* current stage, cancel withdraws it, and nothing else moves it.
ImplementsSignOff == SignOff!Spec
=============================================================================
