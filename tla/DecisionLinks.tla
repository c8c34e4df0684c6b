---------------------------- MODULE DecisionLinks ----------------------------
(***************************************************************************)
(* Deciding an approval request from an e-mail: the single-use links that  *)
(* are mailed when a request is raised and with a person's digest, their   *)
(* confirmation, expiry and purge.                                         *)
(*                                                                         *)
(* Every handler is one transaction.  A link's row is written in the       *)
(* transaction that mails it, so the mail is out before the row can be     *)
(* read.  A confirmation has three steps: it opens the link (and loads the *)
(* request with its votes), claims the row with one UPDATE, which waits    *)
(* for another open claim of it, and decides on what it loaded.            *)
(* What a decision does to routes and records is in ApprovalRouting.       *)
(***************************************************************************)
EXTENDS Naturals, FiniteSets, Functions

CONSTANTS
    Users,
    Requests,
    Maker,       \* Maker[q]: who raises request q
    Asked,       \* Asked[q]: the people request q waits on, by name or by role
    ByHand,      \* the numbers of approvals a request may ask for
    Leavers,     \* the users who may be deactivated or lose workflow:approve
    SoD,         \* settings.enforce_segregation_of_duties
    MaxLinks,    \* bound: links ever issued
    Slots        \* handlers and background jobs that may run at the same time

Links == 1..MaxLinks

ASSUME LinkAssumption ==
    /\ IsFiniteSet(Users)
    /\ Maker \in [Requests -> Users]
    /\ Asked \in [Requests -> SUBSET Users]
    /\ ByHand \subseteq Nat \ {0}
    /\ Leavers \subseteq Users
    /\ SoD \in BOOLEAN
    /\ MaxLinks \in Nat

VARIABLES
    enabled,   \* EMAIL_ACTIONS_ENABLED, read when the service starts
    able,      \* the active users who hold workflow:approve
    request,   \* approval_requests with their approval_actions
    link,      \* action_tokens, by id
    inbox,     \* the links that were delivered
    trail,     \* how many decide_by_email entries of the audit trail name a link
    queue,     \* requests whose decision e-mails a background task will send
    inflight   \* per slot, what the handler or job running there holds

vars == <<enabled, able, request, link, inbox, trail, queue, inflight>>

-----------------------------------------------------------------------------
(***************************************************************************)
(* Rows                                                                    *)
(***************************************************************************)
RequestStatus == {"unused", "pending", "approved", "rejected", "cancelled", "deleted"}

\* A request with its votes: how often each user's approval and rejection were recorded.
RequestRow == [status : RequestStatus, required : Nat, yes : [Users -> Nat], no : [Users -> Nat]]
Row(status, n) == [status |-> status, required |-> n, yes |-> [u \in Users |-> 0],
                   no |-> [u \in Users |-> 0]]

\* "unsaved": in an open transaction; "lost": in one that rolled back.  A link expires
\* TOKEN_TTL after it was minted and is stale TOKEN_RETENTION after that.
LinkRow ==
    [status : {"unused"}]
      \cup [status : {"unsaved", "saved", "lost", "purged"}, user : Users, on : Requests,
            age : {"valid", "expired", "stale"}, used : BOOLEAN]

Idle == [op |-> "idle"]
Handler ==
    [op : {"idle"}]
      \cup [op : {"raise"}, on : Requests, required : Nat]
      \cup [op : {"mail"}, todo : SUBSET (Users \X Requests),
            rows : SUBSET Links, purges : BOOLEAN]
      \cup [op : {"decide"}, by : Users, on : Requests, yes : BOOLEAN,
            via : 0..MaxLinks, claimed : BOOLEAN, saw : [Users -> Nat]]     \* via 0: in the app

Init ==
    /\ enabled \in BOOLEAN
    /\ able = Users
    /\ request = [q \in Requests |-> Row("unused", 0)]
    /\ link = [l \in Links |-> [status |-> "unused"]]
    /\ inbox = {}
    /\ trail = [l \in Links |-> 0]
    /\ queue = {}
    /\ inflight = [s \in Slots |-> Idle]

-----------------------------------------------------------------------------
(***************************************************************************)
(* What a handler reads                                                    *)
(***************************************************************************)
Approvers(yes) == {u \in Users : yes[u] > 0}
Voted(u, q) == request[q].yes[u] + request[q].no[u] > 0

\* decision_refusal gives no reason against the decision.
MayDecide(u, q) ==
    /\ u \in able
    /\ request[q].status = "pending"
    /\ SoD => u # Maker[q]
    /\ ~Voted(u, q)

\* The uncommitted claim of a link is a lock on its row.
HoldsClaim(s, l) == inflight[s].op = "decide" /\ inflight[s].via = l /\ inflight[s].claimed
Locked(l) == \E s \in Slots : HoldsClaim(s, l)

\* token_state of a link that opens.
Ready(l) ==
    /\ ~link[l].used
    /\ link[l].age = "valid"
    /\ MayDecide(link[l].user, link[l].on)

Begin(s, h) == inflight[s] = Idle /\ inflight' = [inflight EXCEPT ![s] = h]
End(s) == inflight' = [inflight EXCEPT ![s] = Idle]

\* The rows of a transaction that rolls back were never there.
Undo(rows) == [l \in Links |->
                  IF l \in rows THEN [link[l] EXCEPT !.status = "lost"] ELSE link[l]]
RowsOf(h) == IF h.op = "mail" THEN h.rows ELSE {}

-----------------------------------------------------------------------------
(***************************************************************************)
(* Raising a request and mailing those it waits on                         *)
(***************************************************************************)
LoadRaiseEager(s, q, n) ==                           \* mutant: the mail task starts at the flush
    /\ request[q].status = "unused"
    /\ \A v \in Slots : ~(inflight[v].op = "raise" /\ inflight[v].on = q)
    /\ Begin(s, [op |-> "raise", on |-> q, required |-> n])
    /\ queue' = queue \cup {q}
    /\ UNCHANGED <<enabled, able, request, link, inbox, trail>>
LoadRaise(s, q, n) ==
    /\ request[q].status = "unused"
    /\ \A v \in Slots : ~(inflight[v].op = "raise" /\ inflight[v].on = q)
    /\ Begin(s, [op |-> "raise", on |-> q, required |-> n])
    /\ UNCHANGED <<enabled, able, request, link, inbox, trail, queue>>

\* The hook on the commit starts the task that mails the decision makers.
CommitRaise(s) ==
    LET q == inflight[s].on IN
    /\ inflight[s].op = "raise"
    /\ End(s)
    /\ request' = [request EXCEPT ![q] = Row("pending", inflight[s].required)]
    /\ queue' = queue \cup {q}
    /\ UNCHANGED <<enabled, able, link, inbox, trail>>

\* The task's turn for request q.
LoadRound(s, q) ==
    LET makers == {u \in Asked[q] : enabled /\ MayDecide(u, q)} IN
    /\ q \in queue
    /\ queue' = queue \ {q}
    /\ Begin(s, [op |-> "mail", todo |-> makers \X {q}, rows |-> {}, purges |-> FALSE])
    /\ UNCHANGED <<enabled, able, request, link, inbox, trail>>

\* A sweep's digests.  Which of the people a request waits on have fresh news of it
\* is left open; those who may not decide it get no link.
LoadDigests(s, todo) ==
    /\ todo \subseteq {p \in Users \X Requests : enabled /\ p[1] \in Asked[p[2]] /\ MayDecide(p[1], p[2])}
    /\ Begin(s, [op |-> "mail", todo |-> todo, rows |-> {}, purges |-> TRUE])
    /\ UNCHANGED <<enabled, able, request, link, inbox, trail, queue>>

\* One person's e-mail: a link for each request it is about, then the send, which may fail.
MailTo(s, u) ==
    LET h == inflight[s]
        about == {p \in h.todo : p[1] = u}
    IN /\ h.op = "mail"
       /\ about # {}
       /\ \E new \in SUBSET {l \in Links : link[l].status = "unused"} :
            /\ \E on \in Bijection(new, {p[2] : p \in about}) :
                 link' = [l \in Links |->
                             IF l \in new
                             THEN [status |-> "unsaved", user |-> u, on |-> on[l],
                                   age |-> "valid", used |-> FALSE]
                             ELSE link[l]]
            /\ inbox' \in {inbox, inbox \cup new}
            /\ inflight' = [inflight EXCEPT ![s].todo = @ \ about, ![s].rows = @ \cup new]
       /\ UNCHANGED <<enabled, able, request, trail, queue>>

\* The commit of a round or of a sweep; a sweep has purged the old links too.
Purgeable == {l \in Links : link[l].status = "saved" /\ link[l].age = "stale"}

CommitMail(s) ==
    LET h == inflight[s]
        gone == IF h.purges THEN Purgeable ELSE {}
    IN /\ h.op = "mail"
       /\ h.todo = {}
       /\ \A l \in gone : ~Locked(l)
       /\ End(s)
       /\ link' = [l \in Links |->
                      IF l \in h.rows THEN [link[l] EXCEPT !.status = "saved"]
                      ELSE IF l \in gone THEN [link[l] EXCEPT !.status = "purged"]
                      ELSE link[l]]
       /\ UNCHANGED <<enabled, able, request, inbox, trail, queue>>

-----------------------------------------------------------------------------
(***************************************************************************)
(* Deciding                                                                *)
(***************************************************************************)
Deciding(u, q, yes, via, claimed) ==
    [op |-> "decide", by |-> u, on |-> q, yes |-> yes, via |-> via, claimed |-> claimed,
     saw |-> request[q].yes]

\* In the app, on a session of the user's own: nothing to claim.
LoadDecision(s, u, q, yes) ==
    /\ MayDecide(u, q)
    /\ Begin(s, Deciding(u, q, yes, 0, TRUE))
    /\ UNCHANGED <<enabled, able, request, link, inbox, trail, queue>>

\* From a delivered link that opens and is ready.  An Approve that approve_blocks refuses
\* ends here.
LoadConfirm(s, l, yes) ==
    /\ enabled
    /\ l \in inbox
    /\ link[l].status = "saved"
    /\ Ready(l)
    /\ Begin(s, Deciding(link[l].user, link[l].on, yes, l, FALSE))
    /\ UNCHANGED <<enabled, able, request, link, inbox, trail, queue>>

\* UPDATE ... WHERE used_at IS NULL, once no other transaction holds the row.
ClaimAnyway(s) ==                                    \* mutant: no WHERE used_at IS NULL
    LET h == inflight[s] IN
    /\ h.op = "decide" /\ ~h.claimed
    /\ ~Locked(h.via)
    /\ IF link[h.via].status = "saved"
       THEN inflight' = [inflight EXCEPT ![s].claimed = TRUE]
       ELSE End(s)
    /\ UNCHANGED <<enabled, able, request, link, inbox, trail, queue>>
ClaimWaitsForAll(s) ==                               \* mutant: an open link is a lock
    LET h == inflight[s] IN
    /\ h.op = "decide" /\ ~h.claimed
    /\ \A v \in Slots \ {s} : inflight[v].op = "decide" => inflight[v].via # h.via
    /\ IF link[h.via].status = "saved" /\ ~link[h.via].used
       THEN inflight' = [inflight EXCEPT ![s].claimed = TRUE]
       ELSE End(s)
    /\ UNCHANGED <<enabled, able, request, link, inbox, trail, queue>>
Claim(s) ==
    LET h == inflight[s] IN
    /\ h.op = "decide" /\ ~h.claimed
    /\ ~Locked(h.via)
    /\ IF link[h.via].status = "saved" /\ ~link[h.via].used
       THEN inflight' = [inflight EXCEPT ![s].claimed = TRUE]
       ELSE End(s)
    /\ UNCHANGED <<enabled, able, request, link, inbox, trail, queue>>

\* The approvals counted: the different people among the votes loaded and this one.
ReceivedVotes(h) == SumFunction(h.saw) + 1           \* mutant: votes, not people
Received(h) == Cardinality(Approvers(h.saw) \cup {h.by})

OutcomeUnderReview(h, status) ==                     \* mutant: a state of its own
    IF ~h.yes THEN "rejected"
    ELSE IF Received(h) >= request[h.on].required THEN "approved" ELSE "in_review"
Outcome(h, status) ==
    IF ~h.yes THEN "rejected"
    ELSE IF Received(h) >= request[h.on].required THEN "approved" ELSE status

\* decide_approval and the commit, with the claim if there is one.
Decide(s) ==
    LET h == inflight[s] IN
    /\ h.op = "decide" /\ h.claimed
    /\ request[h.on].status # "deleted"
    /\ End(s)
    /\ request' = [request EXCEPT
           ![h.on].yes[h.by] = IF h.yes THEN @ + 1 ELSE @,
           ![h.on].no[h.by] = IF h.yes THEN @ ELSE @ + 1,
           ![h.on].status = Outcome(h, @)]
    /\ link' = IF h.via = 0 THEN link ELSE [link EXCEPT ![h.via].used = TRUE]
    /\ trail' = IF h.via = 0 THEN trail ELSE [trail EXCEPT ![h.via] = @ + 1]
    /\ UNCHANGED <<enabled, able, inbox, queue>>

\* A refusal by decide_approval (a rejection without a reason, say) or by the record it
\* decides: all of it rolls back.
Refuse(s) ==
    LET h == inflight[s] IN
    /\ h.op = "decide" /\ h.claimed
    /\ End(s)
    /\ UNCHANGED <<enabled, able, request, link, inbox, trail, queue>>

-----------------------------------------------------------------------------
(***************************************************************************)
(* Around them                                                             *)
(***************************************************************************)
Withdraw(q) ==
    /\ request[q].status = "pending"
    /\ request' = [request EXCEPT ![q].status = "cancelled"]
    /\ UNCHANGED <<enabled, able, link, inbox, trail, queue, inflight>>

Delete(q) ==
    /\ request[q].status \notin {"unused", "deleted"}
    /\ request' = [request EXCEPT ![q] = Row("deleted", 0)]
    /\ UNCHANGED <<enabled, able, link, inbox, trail, queue, inflight>>

\* A user is deactivated or loses the permission.
Retire(u) ==
    /\ u \in able \cap Leavers
    /\ able' = able \ {u}
    /\ UNCHANGED <<enabled, request, link, inbox, trail, queue, inflight>>

\* An error or a lost connection before the commit.
Fail(s) ==
    /\ inflight[s] # Idle
    /\ link' = Undo(RowsOf(inflight[s]))
    /\ End(s)
    /\ UNCHANGED <<enabled, able, request, inbox, trail, queue>>

\* The service stops and starts again, perhaps with another setting: what was in
\* memory is gone, what was sent is sent.
Restart ==
    /\ enabled' \in BOOLEAN
    /\ queue' = {}
    /\ inflight' = [s \in Slots |-> Idle]
    /\ link' = Undo(UNION {RowsOf(inflight[s]) : s \in Slots})
    /\ UNCHANGED <<able, request, inbox, trail>>

\* Time passes: a link expires, and a month later the next sweep may purge it.
GrowOld(l) ==
    /\ link[l].status \in {"unsaved", "saved"} /\ link[l].age # "stale"
    /\ link' = [link EXCEPT ![l].age = IF @ = "valid" THEN "expired" ELSE "stale"]
    /\ UNCHANGED <<enabled, able, request, inbox, trail, queue, inflight>>

Next ==
    \/ \E s \in Slots :
         \/ \E q \in Requests : LoadRound(s, q) \/ \E n \in ByHand : LoadRaise(s, q, n)
         \/ \E todo \in SUBSET (Users \X Requests) : LoadDigests(s, todo)
         \/ \E u \in Users : MailTo(s, u)
         \/ \E u \in Users, q \in Requests, yes \in BOOLEAN :
                LoadDecision(s, u, q, yes)
         \/ \E l \in Links, yes \in BOOLEAN : LoadConfirm(s, l, yes)
         \/ CommitRaise(s) \/ CommitMail(s)
         \/ Claim(s) \/ Decide(s) \/ Refuse(s) \/ Fail(s)
    \/ \E q \in Requests : Withdraw(q) \/ Delete(q)
    \/ \E u \in Users : Retire(u)
    \/ \E l \in Links : GrowOld(l)
    \/ Restart

\* A handler that has begun runs to its end unless its process stops; PostgreSQL serves
\* those who wait for a row in turn.
Fairness == \A s \in Slots : SF_vars(Claim(s)) /\ WF_vars(Decide(s) \/ Refuse(s))

Spec == Init /\ [][Next]_vars /\ Fairness

-----------------------------------------------------------------------------
(***************************************************************************)
(* Properties                                                              *)
(***************************************************************************)
\* Every row and every handler in flight keeps its shape.
TypeOK ==
    /\ enabled \in BOOLEAN
    /\ able \subseteq Users
    /\ request \in [Requests -> RequestRow]
    /\ link \in [Links -> LinkRow]
    /\ inbox \subseteq Links
    /\ trail \in [Links -> Nat]
    /\ queue \subseteq Requests
    /\ inflight \in [Slots -> Handler]

\* claim, confirm_email_action: whatever is confirmed at the same time, refused or
\* rolled back, a link decides at most once, and it is used up exactly when it did.
LinkDecidesOnce ==
    \A l \in Links :
        /\ trail[l] <= 1
        /\ link[l].status = "saved" => (link[l].used <=> trail[l] = 1)

\* approvals_received: the same person deciding twice, through two links or a link and
\* the app, never stands in for another: a granted request has that many different
\* approvers, none of them its maker.
QuorumOfPeople ==
    \A q \in Requests : request[q].status = "approved" =>
        /\ Cardinality(Approvers(request[q].yes)) >= request[q].required
        /\ SoD => Maker[q] \notin Approvers(request[q].yes)

\* The commit hook: the task never looks for a request whose transaction is still open,
\* which it would not find and would not mail about.
MailAfterCommit == \A q \in queue : request[q].status # "unused"

\* A confirmation that waits for another one's claim is answered.
ConfirmAnswered == \A s \in Slots : inflight[s].op = "decide" ~> inflight[s].op # "decide"
==============================================================================
