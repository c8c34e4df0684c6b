------------------------- MODULE DecisionLinksProofs -------------------------
(***************************************************************************)
(* Theorems about DecisionLinks, for any users, requests, links and number *)
(* of handlers and mail jobs at once.                                      *)
(***************************************************************************)
EXTENDS DecisionLinks, FiniteSetTheorems, TLAPS

-----------------------------------------------------------------------------
(***************************************************************************)
(* Typing                                                                  *)
(***************************************************************************)
\* What a handler holds, by its kind.
LEMMA HandlerFields ==
    ASSUME NEW h \in Handler
    PROVE  /\ h.op = "raise" => h.on \in Requests /\ h.required \in Nat
           /\ h.op = "mail" => /\ h.todo \in SUBSET (Users \X Requests)
                               /\ h.rows \in SUBSET Links
                               /\ h.purges \in BOOLEAN
           /\ h.op = "decide" => /\ h.by \in Users /\ h.on \in Requests
                                 /\ h.yes \in BOOLEAN /\ h.via \in 0..MaxLinks
                                 /\ h.claimed \in BOOLEAN /\ h.saw \in [Users -> Nat]
  BY DEF Handler

\* A minted link has a user, a request, an age and a used flag.
LEMMA MintedFields ==
    ASSUME NEW row \in LinkRow, row.status # "unused"
    PROVE  /\ row.status \in {"unsaved", "saved", "lost", "purged"}
           /\ row.user \in Users /\ row.on \in Requests
           /\ row.age \in {"valid", "expired", "stale"} /\ row.used \in BOOLEAN
  BY DEF LinkRow

\* A minted link is a link row again after any change of status, age or use.
LEMMA MintedUpdates ==
    ASSUME NEW row \in LinkRow, row.status # "unused"
    PROVE  /\ \A status \in {"unsaved", "saved", "lost", "purged"} :
                  [row EXCEPT !.status = status] \in LinkRow
           /\ \A age \in {"valid", "expired", "stale"} : [row EXCEPT !.age = age] \in LinkRow
           /\ [row EXCEPT !.used = TRUE] \in LinkRow
  BY DEF LinkRow

\* A link whose claim can be open has been minted: what every typing step needs to know.
Owned ==
    /\ \A s \in Slots : inflight[s].op = "mail" =>
          \A l \in inflight[s].rows : link[l].status = "unsaved"
    /\ \A s \in Slots : inflight[s].op = "decide" /\ inflight[s].via # 0 =>
          link[inflight[s].via].status \in {"saved", "purged"}

\* Rows of different transactions are different rows.
RowsApart ==
    \A s, v \in Slots :
        s # v /\ inflight[s].op = "mail" /\ inflight[v].op = "mail" =>
            inflight[s].rows \cap inflight[v].rows = {}

\* An open claim is of a stored, unused link, and of nobody else's claim.
ClaimsApart ==
    \A s \in Slots, l \in Links : HoldsClaim(s, l) =>
        /\ link[l].status = "saved" /\ ~link[l].used
        /\ \A v \in Slots : HoldsClaim(v, l) => v = s

\* The audit trail of a link agrees with its row.
TrailAgrees ==
    \A l \in Links :
        /\ trail[l] <= 1
        /\ link[l].status \in {"unused", "unsaved", "lost"} => trail[l] = 0
        /\ link[l].status = "unsaved" => ~link[l].used
        /\ link[l].status = "saved" => (link[l].used <=> trail[l] = 1)

\* The inductive invariant behind LinkDecidesOnce.
ClaimInv == TypeOK /\ Owned /\ RowsApart /\ ClaimsApart /\ TrailAgrees

\* Everything starts with nothing in flight and no link minted.
LEMMA ClaimInvInit == Init => ClaimInv
  <1> SUFFICES ASSUME Init PROVE ClaimInv
    OBVIOUS
  <1>1. TypeOK
    BY LinkAssumption DEF Init, TypeOK, Row, RequestRow, RequestStatus, LinkRow, Handler, Idle
  <1>2. QED
    BY <1>1 DEF Init, ClaimInv, Owned, RowsApart, ClaimsApart, TrailAgrees, HoldsClaim, Idle

-----------------------------------------------------------------------------
(***************************************************************************)
(* Types are kept                                                          *)
(***************************************************************************)
\* Putting a handler into a slot keeps inflight's type.
LEMMA SlotType ==
    ASSUME TypeOK, NEW s \in Slots, NEW h \in Handler,
           inflight' = [inflight EXCEPT ![s] = h]
    PROVE  inflight' \in [Slots -> Handler]
  BY DEF TypeOK

\* A rollback keeps the links' type.
LEMMA UndoType ==
    ASSUME TypeOK, NEW rows \in SUBSET Links,
           \A l \in rows : link[l].status # "unused"
    PROVE  Undo(rows) \in [Links -> LinkRow]
  <1>1. ASSUME NEW l \in Links, l \in rows
        PROVE  [link[l] EXCEPT !.status = "lost"] \in LinkRow
    BY <1>1, MintedUpdates DEF TypeOK
  <1>2. QED
    BY <1>1 DEF Undo, TypeOK

\* A request as it is raised or deleted is a request row.
LEMMA RowType ==
    ASSUME NEW status \in RequestStatus, NEW n \in Nat
    PROVE  Row(status, n) \in RequestRow
  BY DEF Row, RequestRow

\* The idle slot is a handler.
LEMMA IdleType == Idle \in Handler
  BY DEF Idle, Handler

\* Raising a request and withdrawing it keep every type.
LEMMA RequestsType ==
    ASSUME TypeOK, \/ \E s \in Slots, q \in Requests, n \in ByHand : LoadRaise(s, q, n)
                   \/ \E s \in Slots : CommitRaise(s)
                   \/ \E q \in Requests : Withdraw(q) \/ Delete(q)
                   \/ \E u \in Users : Retire(u)
    PROVE  TypeOK'
  <1>1. CASE \E s \in Slots, q \in Requests, n \in ByHand : LoadRaise(s, q, n)
    <2>1. PICK s \in Slots, q \in Requests, n \in ByHand : LoadRaise(s, q, n)
      BY <1>1
    <2>2. [op |-> "raise", on |-> q, required |-> n] \in Handler
      BY LinkAssumption DEF Handler
    <2>3. inflight' \in [Slots -> Handler]
      BY <2>1, <2>2, SlotType DEF LoadRaise, Begin
    <2>4. QED
      BY <2>1, <2>3 DEF LoadRaise, TypeOK
  <1>2. CASE \E s \in Slots : CommitRaise(s)
    <2>1. PICK s \in Slots : CommitRaise(s)
      BY <1>2
    <2>2. inflight[s].on \in Requests /\ inflight[s].required \in Nat
      BY <2>1, HandlerFields DEF CommitRaise, TypeOK
    <2>3. inflight' \in [Slots -> Handler]
      BY <2>1, IdleType, SlotType DEF CommitRaise, End
    <2>4. Row("pending", inflight[s].required) \in RequestRow
      BY <2>2, RowType DEF RequestStatus
    <2>5. request' \in [Requests -> RequestRow]
      BY <2>1, <2>4 DEF CommitRaise, TypeOK
    <2>6. QED
      BY <2>1, <2>2, <2>3, <2>5 DEF CommitRaise, TypeOK
  <1>3. CASE \E q \in Requests : Withdraw(q)
    <2>1. PICK q \in Requests : Withdraw(q)
      BY <1>3
    <2>2. request[q] \in RequestRow
      BY DEF TypeOK
    <2>3. [request[q] EXCEPT !.status = "cancelled"] \in RequestRow
      BY <2>2 DEF RequestRow, RequestStatus
    <2>4. request' \in [Requests -> RequestRow]
      BY <2>1, <2>3 DEF Withdraw, TypeOK
    <2>5. QED
      BY <2>1, <2>4 DEF Withdraw, TypeOK
  <1>4. CASE \E q \in Requests : Delete(q)
    <2>1. Row("deleted", 0) \in RequestRow
      BY RowType DEF RequestStatus
    <2>2. QED
      BY <1>4, <2>1 DEF Delete, TypeOK
  <1>5. CASE \E u \in Users : Retire(u)
    BY <1>5 DEF Retire, TypeOK
  <1>6. QED
    BY <1>1, <1>2, <1>3, <1>4, <1>5

\* Mailing keeps every type.
LEMMA MailType ==
    ASSUME TypeOK, Owned, NEW s \in Slots,
           \/ \E q \in Requests : LoadRound(s, q)
           \/ \E todo \in SUBSET (Users \X Requests) : LoadDigests(s, todo)
           \/ \E u \in Users : MailTo(s, u)
           \/ CommitMail(s)
    PROVE  TypeOK'
  <1>1. CASE \E q \in Requests : LoadRound(s, q)
    <2>1. PICK q \in Requests : LoadRound(s, q)
      BY <1>1
    <2>2. PICK todo \in SUBSET (Users \X Requests) :
              inflight' = [inflight EXCEPT ![s] = [op |-> "mail", todo |-> todo, rows |-> {},
                                                   purges |-> FALSE]]
      BY <2>1, LinkAssumption DEF LoadRound, Begin
    <2>3. [op |-> "mail", todo |-> todo, rows |-> {}, purges |-> FALSE] \in Handler
      BY DEF Handler
    <2>4. inflight' \in [Slots -> Handler]
      BY <2>2, <2>3, SlotType
    <2>5. QED
      BY <2>1, <2>4 DEF LoadRound, TypeOK
  <1>2. CASE \E todo \in SUBSET (Users \X Requests) : LoadDigests(s, todo)
    <2>1. PICK todo \in SUBSET (Users \X Requests) : LoadDigests(s, todo)
      BY <1>2
    <2>2. [op |-> "mail", todo |-> todo, rows |-> {}, purges |-> TRUE] \in Handler
      BY DEF Handler
    <2>3. inflight' \in [Slots -> Handler]
      BY <2>1, <2>2, SlotType DEF LoadDigests, Begin
    <2>4. QED
      BY <2>1, <2>3 DEF LoadDigests, TypeOK
  <1>3. CASE \E u \in Users : MailTo(s, u)
    <2>1. PICK u \in Users : MailTo(s, u)
      BY <1>3
    <2> DEFINE about == {p \in inflight[s].todo : p[1] = u}
    <2>2. /\ inflight[s] \in Handler /\ inflight[s].op = "mail"
          /\ inflight[s].todo \in SUBSET (Users \X Requests)
          /\ inflight[s].rows \in SUBSET Links
      BY <2>1, HandlerFields DEF MailTo, TypeOK
    <2>3. PICK new \in SUBSET {l \in Links : link[l].status = "unused"} :
            /\ \E on \in Bijection(new, {p[2] : p \in about}) :
                 link' = [l \in Links |->
                             IF l \in new
                             THEN [status |-> "unsaved", user |-> u, on |-> on[l],
                                   age |-> "valid", used |-> FALSE]
                             ELSE link[l]]
            /\ inbox' \in {inbox, inbox \cup new}
            /\ inflight' = [inflight EXCEPT ![s].todo = @ \ about, ![s].rows = @ \cup new]
      BY <2>1 DEF MailTo
    <2>4. PICK on \in [new -> Requests] :
                 link' = [l \in Links |->
                             IF l \in new
                             THEN [status |-> "unsaved", user |-> u, on |-> on[l],
                                   age |-> "valid", used |-> FALSE]
                             ELSE link[l]]
      <3>1. PICK on \in Bijection(new, {p[2] : p \in about}) :
                 link' = [l \in Links |->
                             IF l \in new
                             THEN [status |-> "unsaved", user |-> u, on |-> on[l],
                                   age |-> "valid", used |-> FALSE]
                             ELSE link[l]]
        BY <2>3
      <3>2. {p[2] : p \in about} \subseteq Requests
        BY <2>2
      <3>3. on \in [new -> {p[2] : p \in about}]
        BY DEF Bijection, Injection
      <3>4. on \in [new -> Requests]
        <4> HIDE DEF about
        <4>1. QED
          BY <3>2, <3>3
      <3>5. QED
        BY <3>1, <3>4
    <2>5. link' \in [Links -> LinkRow]
      BY <2>4 DEF TypeOK, LinkRow
    <2>6. [inflight[s] EXCEPT !.todo = @ \ about, !.rows = @ \cup new] \in Handler
      BY <2>2 DEF Handler
    <2>7. inflight' \in [Slots -> Handler]
      BY <2>3, <2>6 DEF TypeOK
    <2>8. QED
      BY <2>1, <2>3, <2>5, <2>7 DEF MailTo, TypeOK
  <1>4. CASE CommitMail(s)
    <2>1. inflight' \in [Slots -> Handler]
      BY <1>4, IdleType, SlotType DEF CommitMail, End
    <2>2. \A l \in inflight[s].rows \cup Purgeable : link[l].status # "unused"
      BY <1>4 DEF CommitMail, Owned, Purgeable
    <2>3. ASSUME NEW l \in Links
          PROVE  link'[l] \in LinkRow
      BY <1>4, <2>2, MintedUpdates DEF CommitMail, TypeOK
    <2>4. link' \in [Links -> LinkRow]
      BY <1>4, <2>3 DEF CommitMail
    <2>5. QED
      BY <1>4, <2>1, <2>4 DEF CommitMail, TypeOK
  <1>5. QED
    BY <1>1, <1>2, <1>3, <1>4

\* A vote keeps a request a request row.
LEMMA DecidedRowType ==
    ASSUME NEW row \in RequestRow, NEW u \in Users, NEW yes \in BOOLEAN,
           NEW status \in RequestStatus
    PROVE  [row EXCEPT !.yes[u] = IF yes THEN @ + 1 ELSE @,
                       !.no[u] = IF yes THEN @ ELSE @ + 1, !.status = status] \in RequestRow
  <1>1. /\ [row.yes EXCEPT ![u] = IF yes THEN @ + 1 ELSE @] \in [Users -> Nat]
        /\ [row.no EXCEPT ![u] = IF yes THEN @ ELSE @ + 1] \in [Users -> Nat]
    BY DEF RequestRow
  <1>2. QED
    BY <1>1 DEF RequestRow

\* Deciding keeps every type.
LEMMA DecisionType ==
    ASSUME TypeOK, Owned, ClaimsApart, NEW s \in Slots,
           \/ \E u \in Users, q \in Requests, yes \in BOOLEAN : LoadDecision(s, u, q, yes)
           \/ \E l \in Links, yes \in BOOLEAN : LoadConfirm(s, l, yes)
           \/ Claim(s) \/ Decide(s) \/ Refuse(s)
    PROVE  TypeOK'
  <1>1. CASE \E u \in Users, q \in Requests, yes \in BOOLEAN : LoadDecision(s, u, q, yes)
    <2>1. PICK u \in Users, q \in Requests, yes \in BOOLEAN : LoadDecision(s, u, q, yes)
      BY <1>1
    <2>2. request[q].yes \in [Users -> Nat] /\ 0 \in 0..MaxLinks
      BY LinkAssumption DEF TypeOK, RequestRow
    <2>3. Deciding(u, q, yes, 0, TRUE) \in Handler
      BY <2>2 DEF Deciding, Handler
    <2>4. inflight' \in [Slots -> Handler]
      BY <2>1, <2>3, SlotType DEF LoadDecision, Begin
    <2>5. QED
      BY <2>1, <2>4 DEF LoadDecision, TypeOK
  <1>2. CASE \E l \in Links, yes \in BOOLEAN : LoadConfirm(s, l, yes)
    <2>1. PICK l \in Links, yes \in BOOLEAN : LoadConfirm(s, l, yes)
      BY <1>2
    <2>2. link[l].user \in Users /\ link[l].on \in Requests /\ l \in 0..MaxLinks
      BY <2>1, MintedFields, LinkAssumption DEF LoadConfirm, TypeOK, Links
    <2>3. request[link[l].on].yes \in [Users -> Nat]
      BY <2>2 DEF TypeOK, RequestRow
    <2>4. Deciding(link[l].user, link[l].on, yes, l, FALSE) \in Handler
      BY <2>2, <2>3 DEF Deciding, Handler
    <2>5. inflight' \in [Slots -> Handler]
      BY <2>1, <2>4, SlotType DEF LoadConfirm, Begin
    <2>6. QED
      BY <2>1, <2>5 DEF LoadConfirm, TypeOK
  <1>3. CASE Claim(s)
    <2>1. [inflight[s] EXCEPT !.claimed = TRUE] \in Handler
      BY <1>3 DEF Claim, TypeOK, Handler
    <2>2. inflight' \in [Slots -> Handler]
      BY <1>3, <2>1, IdleType DEF Claim, End, TypeOK
    <2>3. QED
      BY <1>3, <2>2 DEF Claim, TypeOK
  <1>4. CASE Decide(s)
    <2> DEFINE h == inflight[s]
    <2>1. /\ h.by \in Users /\ h.on \in Requests /\ h.yes \in BOOLEAN
          /\ h.via \in 0..MaxLinks
      BY <1>4, HandlerFields DEF Decide, TypeOK
    <2>2. inflight' \in [Slots -> Handler]
      BY <1>4, IdleType, SlotType DEF Decide, End
    <2>3. request[h.on] \in RequestRow /\ Outcome(h, request[h.on].status) \in RequestStatus
      BY <2>1 DEF TypeOK, RequestRow, RequestStatus, Outcome
    <2>4. request' \in [Requests -> RequestRow]
      <3> DEFINE row == [request[h.on] EXCEPT
                            !.yes[h.by] = IF h.yes THEN @ + 1 ELSE @,
                            !.no[h.by] = IF h.yes THEN @ ELSE @ + 1,
                            !.status = Outcome(h, request[h.on].status)]
      <3>1. row \in RequestRow
        BY <2>1, <2>3, DecidedRowType
      <3>2. request' = [request EXCEPT ![h.on] = row]
        BY <1>4, <2>1, <2>3 DEF Decide, TypeOK, RequestRow
      <3>3. QED
        BY <3>1, <3>2 DEF TypeOK
    <2>5. link' \in [Links -> LinkRow] /\ trail' \in [Links -> Nat]
      <3>1. CASE h.via = 0
        BY <1>4, <3>1 DEF Decide, TypeOK
      <3>2. CASE h.via # 0
        <4>1. h.via \in Links /\ link[h.via].status # "unused"
          <5>1. h.via \in Links
            BY <2>1, <3>2, LinkAssumption DEF Links
          <5>2. link[h.via].status \in {"saved", "purged"}
            BY <1>4, <3>2 DEF Decide, Owned
          <5>3. QED
            BY <5>1, <5>2
        <4>2. [link[h.via] EXCEPT !.used = TRUE] \in LinkRow
          BY <4>1, MintedUpdates DEF TypeOK
        <4>3. /\ link' = [link EXCEPT ![h.via] = [link[h.via] EXCEPT !.used = TRUE]]
              /\ trail' = [trail EXCEPT ![h.via] = trail[h.via] + 1]
          BY <1>4, <3>2, <4>1 DEF Decide
        <4>4. link \in [Links -> LinkRow] /\ trail \in [Links -> Nat]
          BY DEF TypeOK
        <4>5. link' \in [Links -> LinkRow]
          BY <4>1, <4>2, <4>3, <4>4
        <4>6. trail' \in [Links -> Nat]
          BY <4>1, <4>3, <4>4
        <4>7. QED
          BY <4>5, <4>6
      <3>3. QED
        BY <3>1, <3>2
    <2>6. QED
      BY <1>4, <2>2, <2>4, <2>5 DEF Decide, TypeOK
  <1>5. CASE Refuse(s)
    <2>1. inflight' \in [Slots -> Handler]
      BY <1>5, IdleType, SlotType DEF Refuse, End
    <2>2. QED
      BY <1>5, <2>1 DEF Refuse, TypeOK
  <1>6. QED
    BY <1>1, <1>2, <1>3, <1>4, <1>5

\* Failures, restarts and the passing of time keep every type.
LEMMA OutageType ==
    ASSUME TypeOK, Owned, \/ \E s \in Slots : Fail(s)
                          \/ Restart
                          \/ \E l \in Links : GrowOld(l)
    PROVE  TypeOK'
  <1>1. CASE \E s \in Slots : Fail(s)
    <2>1. PICK s \in Slots : Fail(s)
      BY <1>1
    <2>2. RowsOf(inflight[s]) \in SUBSET Links
          /\ \A l \in RowsOf(inflight[s]) : link[l].status # "unused"
      BY HandlerFields DEF RowsOf, TypeOK, Owned
    <2>3. link' \in [Links -> LinkRow]
      BY <2>1, <2>2, UndoType DEF Fail
    <2>4. inflight' \in [Slots -> Handler]
      BY <2>1, IdleType, SlotType DEF Fail, End
    <2>5. QED
      BY <2>1, <2>3, <2>4 DEF Fail, TypeOK
  <1>2. CASE Restart
    <2>1. /\ UNION {RowsOf(inflight[s]) : s \in Slots} \in SUBSET Links
          /\ \A l \in UNION {RowsOf(inflight[s]) : s \in Slots} : link[l].status # "unused"
      BY HandlerFields DEF RowsOf, TypeOK, Owned
    <2>2. link' \in [Links -> LinkRow]
      BY <1>2, <2>1, UndoType DEF Restart
    <2>3. inflight' \in [Slots -> Handler]
      BY <1>2, IdleType DEF Restart
    <2>4. QED
      BY <1>2, <2>2, <2>3 DEF Restart, TypeOK
  <1>3. CASE \E l \in Links : GrowOld(l)
    <2>1. PICK l \in Links : GrowOld(l)
      BY <1>3
    <2>2. [link[l] EXCEPT !.age = IF @ = "valid" THEN "expired" ELSE "stale"] \in LinkRow
      BY <2>1, MintedUpdates DEF GrowOld, TypeOK
    <2>3. link' \in [Links -> LinkRow]
      BY <2>1, <2>2 DEF GrowOld, TypeOK
    <2>4. QED
      BY <2>1, <2>3 DEF GrowOld, TypeOK
  <1>4. QED
    BY <1>1, <1>2, <1>3

-----------------------------------------------------------------------------
(***************************************************************************)
(* A link decides at most once                                             *)
(***************************************************************************)
\* Nothing about links changes.
LEMMA QuietKeepsClaims ==
    ASSUME ClaimInv, TypeOK', UNCHANGED <<link, trail, inflight>>
    PROVE  ClaimInv'
  BY DEF ClaimInv, Owned, RowsApart, ClaimsApart, TrailAgrees, HoldsClaim

\* A slot gets a handler that owns no new row and claims no link, or none at all.
LEMMA ReslotKeepsClaims ==
    ASSUME ClaimInv, TypeOK', UNCHANGED <<link, trail>>, NEW s \in Slots, NEW h,
           inflight' = [inflight EXCEPT ![s] = h],
           h.op = "mail" => h.rows = {},
           h.op = "decide" => \/ h.via = 0
                              \/ h.via \in Links /\ link[h.via].status = "saved" /\ ~h.claimed
    PROVE  ClaimInv'
  <1>1. /\ \A v \in Slots : inflight'[v] = IF v = s THEN h ELSE inflight[v]
        /\ TypeOK /\ Owned /\ RowsApart /\ ClaimsApart /\ TrailAgrees
    BY DEF ClaimInv, TypeOK
  <1>2. Owned'
    BY <1>1 DEF Owned
  <1>3. RowsApart'
    BY <1>1 DEF RowsApart
  <1>4. ClaimsApart'
    <2>1. 0 \notin Links
      BY DEF Links
    <2>2. ASSUME NEW v \in Slots, NEW l \in Links, HoldsClaim(v, l)'
          PROVE  v # s /\ HoldsClaim(v, l)
      BY <1>1, <2>1, <2>2 DEF HoldsClaim
    <2>3. QED
      BY <1>1, <2>2 DEF ClaimsApart
  <1>5. TrailAgrees'
    BY <1>1 DEF TrailAgrees
  <1>6. QED
    BY <1>2, <1>3, <1>4, <1>5 DEF ClaimInv

\* Raising, loading and refusing take no claim.
LEMMA LoadKeepsClaims ==
    ASSUME ClaimInv, TypeOK', NEW s \in Slots,
           \/ \E q \in Requests : LoadRound(s, q) \/ \E n \in ByHand : LoadRaise(s, q, n)
           \/ \E todo \in SUBSET (Users \X Requests) : LoadDigests(s, todo)
           \/ \E u \in Users, q \in Requests, yes \in BOOLEAN : LoadDecision(s, u, q, yes)
           \/ \E l \in Links, yes \in BOOLEAN : LoadConfirm(s, l, yes)
           \/ CommitRaise(s) \/ Refuse(s)
    PROVE  ClaimInv'
  <1>1. UNCHANGED <<link, trail>>
    BY DEF LoadRound, LoadRaise, LoadDigests, LoadDecision, LoadConfirm, CommitRaise, Refuse
  <1>2. CASE \E q \in Requests : LoadRound(s, q)
    <2>1. PICK q \in Requests : LoadRound(s, q)
      BY <1>2
    <2> DEFINE h == [op |-> "mail",
                    todo |-> {u \in Asked[q] : enabled /\ MayDecide(u, q)} \X {q},
                    rows |-> {}, purges |-> FALSE]
    <2>2. inflight' = [inflight EXCEPT ![s] = h]
      BY <2>1 DEF LoadRound, Begin
    <2>3. h.op = "mail" /\ h.rows = {}
      OBVIOUS
    <2> HIDE DEF h
    <2>4. QED
      BY <1>1, <2>2, <2>3, ReslotKeepsClaims
  <1>3. CASE \E q \in Requests, n \in ByHand : LoadRaise(s, q, n)
    <2>1. PICK q \in Requests, n \in ByHand : LoadRaise(s, q, n)
      BY <1>3
    <2> DEFINE h == [op |-> "raise", on |-> q, required |-> n]
    <2>2. inflight' = [inflight EXCEPT ![s] = h]
      BY <2>1 DEF LoadRaise, Begin
    <2>3. h.op = "raise"
      OBVIOUS
    <2> HIDE DEF h
    <2>4. QED
      BY <1>1, <2>2, <2>3, ReslotKeepsClaims
  <1>4. CASE \E todo \in SUBSET (Users \X Requests) : LoadDigests(s, todo)
    <2>1. PICK todo \in SUBSET (Users \X Requests) : LoadDigests(s, todo)
      BY <1>4
    <2> DEFINE h == [op |-> "mail", todo |-> todo, rows |-> {}, purges |-> TRUE]
    <2>2. inflight' = [inflight EXCEPT ![s] = h]
      BY <2>1 DEF LoadDigests, Begin
    <2>3. h.op = "mail" /\ h.rows = {}
      OBVIOUS
    <2> HIDE DEF h
    <2>4. QED
      BY <1>1, <2>2, <2>3, ReslotKeepsClaims
  <1>5. CASE \E u \in Users, q \in Requests, yes \in BOOLEAN : LoadDecision(s, u, q, yes)
    <2>1. PICK u \in Users, q \in Requests, yes \in BOOLEAN : LoadDecision(s, u, q, yes)
      BY <1>5
    <2> DEFINE h == Deciding(u, q, yes, 0, TRUE)
    <2>2. inflight' = [inflight EXCEPT ![s] = h]
      BY <2>1 DEF LoadDecision, Begin
    <2>3. h.op = "decide" /\ h.via = 0
      BY DEF Deciding
    <2> HIDE DEF h
    <2>4. QED
      BY <1>1, <2>2, <2>3, ReslotKeepsClaims
  <1>6. CASE \E l \in Links, yes \in BOOLEAN : LoadConfirm(s, l, yes)
    <2>1. PICK l \in Links, yes \in BOOLEAN : LoadConfirm(s, l, yes)
      BY <1>6
    <2> DEFINE h == Deciding(link[l].user, link[l].on, yes, l, FALSE)
    <2>2. inflight' = [inflight EXCEPT ![s] = h]
      BY <2>1 DEF LoadConfirm, Begin
    <2>3. h.op = "decide" /\ h.via = l /\ ~h.claimed /\ link[l].status = "saved"
      BY <2>1 DEF Deciding, LoadConfirm
    <2> HIDE DEF h
    <2>4. QED
      BY <1>1, <2>2, <2>3, ReslotKeepsClaims
  <1>7. CASE CommitRaise(s) \/ Refuse(s)
    <2>1. inflight' = [inflight EXCEPT ![s] = Idle]
      BY <1>7 DEF CommitRaise, Refuse, End
    <2>2. QED
      BY <1>1, <2>1, ReslotKeepsClaims DEF Idle
  <1>8. QED
    BY <1>2, <1>3, <1>4, <1>5, <1>6, <1>7

\* The UPDATE that claims a link waits for the claim before it and sees its outcome.
LEMMA ClaimKeepsClaims ==
    ASSUME ClaimInv, TypeOK', NEW s \in Slots, Claim(s)
    PROVE  ClaimInv'
  <1> DEFINE l == inflight[s].via
  <1>1. TypeOK /\ Owned /\ RowsApart /\ ClaimsApart /\ TrailAgrees
    BY DEF ClaimInv
  <1>2. UNCHANGED <<link, trail>> /\ inflight[s].op = "decide" /\ ~inflight[s].claimed
    BY DEF Claim
  <1>3. CASE link[l].status = "saved" /\ ~link[l].used
    <2>1. inflight' = [inflight EXCEPT ![s].claimed = TRUE] /\ ~Locked(l)
      BY <1>3 DEF Claim
    <2>2. \A v \in Slots : inflight'[v] = IF v = s THEN [inflight[s] EXCEPT !.claimed = TRUE]
                                          ELSE inflight[v]
      BY <1>1, <2>1 DEF TypeOK
    <2>3. inflight[s] \in Handler
      BY <1>1 DEF TypeOK
    <2>4. inflight'[s].op = "decide" /\ inflight'[s].via = l
      BY <1>2, <2>2, <2>3 DEF Handler
    <2>5. Owned'
      BY <1>1, <1>2, <2>2, <2>4 DEF Owned
    <2>6. RowsApart'
      BY <1>1, <1>2, <2>2, <2>4 DEF RowsApart
    <2>7. ClaimsApart'
      <3>1. ASSUME NEW v \in Slots, NEW k \in Links, HoldsClaim(v, k)', v # s
            PROVE  HoldsClaim(v, k) /\ k # l
        <4>1. HoldsClaim(v, k)
          BY <2>2, <3>1 DEF HoldsClaim
        <4>2. QED
          BY <2>1, <4>1 DEF Locked
      <3>2. ASSUME NEW k \in Links, HoldsClaim(s, k)'
            PROVE  k = l
        BY <2>4, <3>2 DEF HoldsClaim
      <3>3. ASSUME NEW v \in Slots, NEW k \in Links, HoldsClaim(v, k)'
            PROVE  /\ link'[k].status = "saved" /\ ~link'[k].used
                   /\ \A w \in Slots : HoldsClaim(w, k)' => w = v
        <4>1. CASE v = s
          BY <1>2, <1>3, <3>1, <3>2, <3>3, <4>1
        <4>2. CASE v # s
          BY <1>1, <1>2, <3>1, <3>2, <3>3, <4>2 DEF ClaimsApart
        <4>3. QED
          BY <4>1, <4>2
      <3>4. QED
        BY <3>3 DEF ClaimsApart
    <2>8. QED
      BY <1>1, <1>2, <2>5, <2>6, <2>7 DEF ClaimInv, TrailAgrees
  <1>4. CASE ~(link[l].status = "saved" /\ ~link[l].used)
    <2>1. inflight' = [inflight EXCEPT ![s] = Idle]
      BY <1>4 DEF Claim, End
    <2>2. QED
      BY <1>2, <2>1, ReslotKeepsClaims DEF Idle
  <1>5. QED
    BY <1>3, <1>4

\* Deciding uses up the claimed link and writes its one audit entry.
LEMMA DecideKeepsClaims ==
    ASSUME ClaimInv, TypeOK', NEW s \in Slots, Decide(s)
    PROVE  ClaimInv'
  <1> DEFINE l == inflight[s].via
  <1>1. TypeOK /\ Owned /\ RowsApart /\ ClaimsApart /\ TrailAgrees
    BY DEF ClaimInv
  <1>2. /\ inflight[s].op = "decide" /\ inflight[s].claimed
        /\ inflight' = [inflight EXCEPT ![s] = Idle]
    BY DEF Decide, End
  <1>3. CASE l = 0
    <2>1. UNCHANGED <<link, trail>>
      BY <1>3 DEF Decide
    <2>2. QED
      BY <1>2, <2>1, ReslotKeepsClaims DEF Idle
  <1>4. CASE l # 0
    <2>1. l \in Links
      BY <1>1, <1>2, <1>4, HandlerFields, LinkAssumption DEF TypeOK, Links
    <2>2. /\ link[l].status = "saved" /\ ~link[l].used
          /\ \A v \in Slots : HoldsClaim(v, l) => v = s
      BY <1>1, <1>2, <2>1 DEF ClaimsApart, HoldsClaim
    <2>3. /\ link' = [link EXCEPT ![l].used = TRUE]
          /\ trail' = [trail EXCEPT ![l] = @ + 1]
      BY <1>4 DEF Decide
    <2>4. /\ \A k \in Links : k # l => link'[k] = link[k] /\ trail'[k] = trail[k]
          /\ \A k \in Links : link'[k].status = link[k].status
          /\ link'[l].used = TRUE
      <3>1. link[l] \in LinkRow /\ link[l].status # "unused"
        BY <1>1, <2>1, <2>2 DEF TypeOK
      <3>2. link'[l].status = link[l].status /\ link'[l].used = TRUE
        BY <1>1, <2>1, <2>3, <3>1 DEF TypeOK, LinkRow
      <3>3. QED
        BY <1>1, <2>3, <3>2 DEF TypeOK
    <2>5. trail[l] = 0
      <3>1. trail[l] \in Nat /\ trail[l] <= 1 /\ trail[l] # 1
        BY <1>1, <2>1, <2>2 DEF TypeOK, TrailAgrees
      <3>2. QED
        BY <3>1
    <2>6. trail'[l] = 1
      BY <1>1, <2>1, <2>3, <2>5 DEF TypeOK
    <2>7. \A v \in Slots : inflight'[v] = IF v = s THEN Idle ELSE inflight[v]
      BY <1>1, <1>2 DEF TypeOK
    <2>8. Owned'
      <3>1. ASSUME NEW v \in Slots, inflight'[v].op = "mail", NEW k \in inflight'[v].rows
            PROVE  link'[k].status = "unsaved"
        <4>1. inflight[v].op = "mail" /\ k \in inflight[v].rows /\ inflight[v] \in Handler
          BY <1>1, <2>7, <3>1 DEF Idle, TypeOK
        <4>2. k \in Links
          BY <4>1, HandlerFields
        <4>3. QED
          BY <1>1, <2>4, <4>1, <4>2 DEF Owned
      <3>2. ASSUME NEW v \in Slots, inflight'[v].op = "decide", inflight'[v].via # 0
            PROVE  link'[inflight'[v].via].status \in {"saved", "purged"}
        <4>1. inflight[v].op = "decide" /\ inflight'[v] = inflight[v] /\ inflight[v] \in Handler
          BY <1>1, <2>7, <3>2 DEF Idle, TypeOK
        <4>2. inflight[v].via \in Links
          BY <3>2, <4>1, HandlerFields, LinkAssumption DEF Links
        <4>3. QED
          BY <1>1, <2>4, <3>2, <4>1, <4>2 DEF Owned
      <3>3. QED
        BY <3>1, <3>2 DEF Owned
    <2>9. RowsApart'
      BY <1>1, <2>7 DEF RowsApart, Idle
    <2>10. ClaimsApart'
      <3>1. ASSUME NEW v \in Slots, NEW k \in Links, HoldsClaim(v, k)'
            PROVE  HoldsClaim(v, k) /\ v # s
        BY <2>7, <3>1 DEF HoldsClaim, Idle
      <3>2. ASSUME NEW v \in Slots, NEW k \in Links, HoldsClaim(v, k)'
            PROVE  link'[k] = link[k]
        BY <2>2, <2>4, <3>1, <3>2
      <3>3. QED
        BY <1>1, <3>1, <3>2 DEF ClaimsApart
    <2>11. TrailAgrees'
      <3>1. ASSUME NEW k \in Links
            PROVE  /\ trail'[k] <= 1
                   /\ link'[k].status \in {"unused", "unsaved", "lost"} => trail'[k] = 0
                   /\ link'[k].status = "unsaved" => ~link'[k].used
                   /\ link'[k].status = "saved" => (link'[k].used <=> trail'[k] = 1)
        <4>1. CASE k = l
          BY <2>2, <2>4, <2>6, <4>1
        <4>2. CASE k # l
          BY <1>1, <2>4, <4>2 DEF TrailAgrees
        <4>3. QED
          BY <4>1, <4>2
      <3>2. QED
        BY <3>1 DEF TrailAgrees
    <2>12. QED
      BY <2>8, <2>9, <2>10, <2>11 DEF ClaimInv
  <1>5. QED
    BY <1>3, <1>4

\* An e-mail mints rows nobody owns yet.
LEMMA MailToKeepsClaims ==
    ASSUME ClaimInv, TypeOK', NEW s \in Slots, NEW u \in Users, MailTo(s, u)
    PROVE  ClaimInv'
  <1>1. TypeOK /\ Owned /\ RowsApart /\ ClaimsApart /\ TrailAgrees
    BY DEF ClaimInv
  <1> DEFINE about == {p \in inflight[s].todo : p[1] = u}
             Minted(on, new) ==
                link' = [l \in Links |->
                            IF l \in new
                            THEN [status |-> "unsaved", user |-> u, on |-> on[l],
                                  age |-> "valid", used |-> FALSE]
                            ELSE link[l]]
             Held(new) == inflight' = [inflight EXCEPT ![s].todo = @ \ about, ![s].rows = @ \cup new]
  <1>a. PICK new \in SUBSET {l \in Links : link[l].status = "unused"} :
          /\ \E on \in Bijection(new, {p[2] : p \in about}) : Minted(on, new)
          /\ Held(new)
    BY DEF MailTo
  <1>b. PICK on \in Bijection(new, {p[2] : p \in about}) : Minted(on, new)
    BY <1>a
  <1>2. \A l \in Links : IF l \in new
                         THEN link'[l].status = "unsaved" /\ link'[l].used = FALSE
                         ELSE link'[l] = link[l]
    BY <1>b
  <1>3. trail' = trail /\ inflight[s].op = "mail"
    BY DEF MailTo
  <1>4. /\ inflight'[s].op = "mail" /\ inflight'[s].rows = inflight[s].rows \cup new
        /\ \A v \in Slots : v # s => inflight'[v] = inflight[v]
    <2>1. inflight' = [inflight EXCEPT ![s].todo = @ \ about, ![s].rows = @ \cup new]
      BY <1>a
    <2>2. inflight[s] \in Handler
      BY <1>1 DEF TypeOK
    <2>3. inflight[s] \in [op : {"mail"}, todo : SUBSET (Users \X Requests),
                           rows : SUBSET Links, purges : BOOLEAN]
      BY <1>3, <2>2 DEF Handler
    <2>4. inflight'[s] = [inflight[s] EXCEPT !.todo = @ \ about, !.rows = @ \cup new]
      BY <1>1, <2>1 DEF TypeOK
    <2>5. inflight'[s].op = "mail" /\ inflight'[s].rows = inflight[s].rows \cup new
      BY <2>3, <2>4
    <2>6. QED
      BY <1>1, <2>1, <2>5 DEF TypeOK
  <1>5. \A l \in Links : l \in new => link[l].status = "unused"
    OBVIOUS
  <1>6. ASSUME NEW v \in Slots, inflight[v].op = "mail"
        PROVE  inflight[v].rows \subseteq Links /\ inflight[v].rows \cap new = {}
    <2>1. inflight[v].rows \subseteq Links
      BY <1>1, <1>6, HandlerFields DEF TypeOK
    <2>2. QED
      BY <1>1, <1>5, <1>6, <2>1 DEF Owned
  <1>7. ASSUME NEW v \in Slots, inflight[v].op = "decide", inflight[v].via # 0
        PROVE  inflight[v].via \in Links /\ inflight[v].via \notin new
    <2>1. inflight[v].via \in Links
      BY <1>1, <1>7, HandlerFields, LinkAssumption DEF TypeOK, Links
    <2>2. QED
      BY <1>1, <1>5, <1>7, <2>1 DEF Owned
  <1>8. Owned'
    <2>1. ASSUME NEW v \in Slots, inflight'[v].op = "mail", NEW l \in inflight'[v].rows
          PROVE  link'[l].status = "unsaved"
      <3>1. inflight[v].op = "mail"
        BY <1>3, <1>4, <2>1
      <3>2. l \in inflight[v].rows \/ l \in new
        BY <1>4, <2>1
      <3>3. QED
        BY <1>1, <1>2, <1>6, <3>1, <3>2 DEF Owned
    <2>2. ASSUME NEW v \in Slots, inflight'[v].op = "decide", inflight'[v].via # 0
          PROVE  link'[inflight'[v].via].status \in {"saved", "purged"}
      <3>1. inflight'[v] = inflight[v]
        BY <1>4, <2>2
      <3>2. QED
        BY <1>1, <1>2, <1>7, <2>2, <3>1 DEF Owned
    <2>3. QED
      BY <2>1, <2>2 DEF Owned
  <1>9. RowsApart'
    <2>1. ASSUME NEW v \in Slots, NEW w \in Slots, v # w,
                 inflight'[v].op = "mail", inflight'[w].op = "mail"
          PROVE  inflight'[v].rows \cap inflight'[w].rows = {}
      <3>1. inflight[v].op = "mail" /\ inflight[w].op = "mail"
        BY <1>3, <1>4, <2>1
      <3>2. inflight[v].rows \cap inflight[w].rows = {}
        BY <1>1, <2>1, <3>1 DEF RowsApart
      <3>3. QED
        BY <1>4, <1>6, <2>1, <3>1, <3>2
    <2>2. QED
      BY <2>1 DEF RowsApart
  <1>10. ClaimsApart'
    <2>1. ASSUME NEW v \in Slots, NEW l \in Links, HoldsClaim(v, l)'
          PROVE  HoldsClaim(v, l) /\ link'[l] = link[l]
      <3>1. v # s
        BY <1>4, <2>1 DEF HoldsClaim
      <3>2. HoldsClaim(v, l)
        BY <1>4, <2>1, <3>1 DEF HoldsClaim
      <3>3. l \notin new
        BY <1>1, <1>5, <3>2 DEF ClaimsApart
      <3>4. QED
        BY <1>2, <3>2, <3>3
    <2>2. QED
      BY <1>1, <2>1 DEF ClaimsApart
  <1>11. TrailAgrees'
    BY <1>1, <1>2, <1>3, <1>5 DEF TrailAgrees
  <1>12. QED
    BY <1>8, <1>9, <1>10, <1>11 DEF ClaimInv

\* What ends a transaction of some slots leaves every claim alone that stays open: rows
\* of the ended ones change from unsaved, other links only from saved when unclaimed.
LEMMA EndKeepsClaims ==
    ASSUME ClaimInv, TypeOK', trail' = trail, NEW ended \in SUBSET Slots,
           \A v \in Slots : inflight'[v] = IF v \in ended THEN Idle ELSE inflight[v],
           \A l \in Links :
               \/ link'[l] = link[l]
               \/ /\ link'[l].status \in {"saved", "lost"} /\ link'[l].used = link[l].used
                  /\ \E v \in ended : inflight[v].op = "mail" /\ l \in inflight[v].rows
               \/ link[l].status = "saved" /\ link'[l].status = "purged" /\ ~Locked(l)
    PROVE  ClaimInv'
  <1>1. TypeOK /\ Owned /\ RowsApart /\ ClaimsApart /\ TrailAgrees
    BY DEF ClaimInv
  <1>2. ASSUME NEW v \in Slots, v \notin ended, inflight[v].op = "mail",
               NEW l \in inflight[v].rows
        PROVE  link'[l] = link[l]
    <2>1. l \in Links /\ link[l].status = "unsaved"
      BY <1>1, <1>2, HandlerFields DEF TypeOK, Owned
    <2>2. \A w \in ended : inflight[w].op = "mail" => l \notin inflight[w].rows
      BY <1>1, <1>2 DEF RowsApart
    <2>3. QED
      BY <2>1, <2>2
  <1>3. ASSUME NEW l \in Links, \E v \in ended : inflight[v].op = "mail" /\ l \in inflight[v].rows
        PROVE  link[l].status = "unsaved"
    BY <1>1, <1>3 DEF Owned
  <1>4. Owned'
    <2>1. ASSUME NEW v \in Slots, inflight'[v].op = "mail", NEW l \in inflight'[v].rows
          PROVE  link'[l].status = "unsaved"
      <3>1. v \notin ended /\ inflight'[v] = inflight[v]
        BY <2>1 DEF Idle
      <3>2. QED
        BY <1>1, <1>2, <2>1, <3>1 DEF Owned
    <2>2. ASSUME NEW v \in Slots, inflight'[v].op = "decide", inflight'[v].via # 0
          PROVE  link'[inflight'[v].via].status \in {"saved", "purged"}
      <3>1. inflight'[v] = inflight[v]
        BY <2>2 DEF Idle
      <3>2. inflight[v].via \in Links /\ link[inflight[v].via].status \in {"saved", "purged"}
        BY <1>1, <2>2, <3>1, HandlerFields, LinkAssumption DEF TypeOK, Links, Owned
      <3>3. QED
        BY <1>3, <3>1, <3>2
    <2>3. QED
      BY <2>1, <2>2 DEF Owned
  <1>5. RowsApart'
    BY <1>1 DEF RowsApart, Idle
  <1>6. ClaimsApart'
    <2>1. ASSUME NEW v \in Slots, NEW l \in Links, HoldsClaim(v, l)'
          PROVE  HoldsClaim(v, l)
      BY <2>1 DEF HoldsClaim, Idle
    <2>2. ASSUME NEW v \in Slots, NEW l \in Links, HoldsClaim(v, l)'
          PROVE  link'[l] = link[l]
      <3>1. HoldsClaim(v, l) /\ link[l].status = "saved" /\ Locked(l)
        BY <1>1, <2>1, <2>2 DEF ClaimsApart, Locked
      <3>2. QED
        BY <1>3, <3>1
    <2>3. QED
      BY <1>1, <2>1, <2>2 DEF ClaimsApart
  <1>7. TrailAgrees'
    <2>1. ASSUME NEW l \in Links
          PROVE  /\ trail'[l] <= 1
                 /\ link'[l].status \in {"unused", "unsaved", "lost"} => trail'[l] = 0
                 /\ link'[l].status = "unsaved" => ~link'[l].used
                 /\ link'[l].status = "saved" => (link'[l].used <=> trail'[l] = 1)
      <3>1. CASE link'[l] = link[l]
        BY <1>1, <3>1 DEF TrailAgrees
      <3>2. CASE /\ link'[l].status \in {"saved", "lost"} /\ link'[l].used = link[l].used
                 /\ \E v \in ended : inflight[v].op = "mail" /\ l \in inflight[v].rows
        <4>1. link[l].status = "unsaved" /\ trail[l] = 0 /\ ~link[l].used
          BY <1>1, <1>3, <3>2 DEF TrailAgrees
        <4>2. QED
          BY <3>2, <4>1
      <3>3. CASE link[l].status = "saved" /\ link'[l].status = "purged"
        BY <1>1, <3>3 DEF TrailAgrees
      <3>4. QED
        BY <3>1, <3>2, <3>3
    <2>2. QED
      BY <2>1 DEF TrailAgrees
  <1>8. QED
    BY <1>4, <1>5, <1>6, <1>7 DEF ClaimInv

\* A rollback touches nothing but its rows.
LEMMA UndoChanges ==
    ASSUME TypeOK, NEW rows \in SUBSET Links,
           \A l \in rows : link[l].status = "unsaved", link' = Undo(rows)
    PROVE  \A l \in Links : IF l \in rows
                            THEN link'[l].status = "lost" /\ link'[l].used = link[l].used
                            ELSE link'[l] = link[l]
  <1>1. ASSUME NEW l \in rows
        PROVE  link'[l].status = "lost" /\ link'[l].used = link[l].used
    <2>1. link'[l] = [link[l] EXCEPT !.status = "lost"]
      BY DEF Undo
    <2>2. link[l] \in LinkRow /\ link[l].status # "unused"
      BY DEF TypeOK
    <2>3. QED
      BY <2>1, <2>2 DEF LinkRow
  <1>2. QED
    BY <1>1 DEF Undo

\* Committing a round or a sweep, failing and restarting keep the claims.
LEMMA CommitMailKeepsClaims ==
    ASSUME ClaimInv, TypeOK', NEW s \in Slots, CommitMail(s)
    PROVE  ClaimInv'
  <1>1. TypeOK /\ Owned /\ inflight[s].op = "mail" /\ trail' = trail
    BY DEF ClaimInv, CommitMail
  <1>2. \A v \in Slots : inflight'[v] = IF v \in {s} THEN Idle ELSE inflight[v]
    BY <1>1 DEF CommitMail, End, TypeOK
  <1>3. ASSUME NEW l \in Links
        PROVE  \/ link'[l] = link[l]
               \/ /\ link'[l].status \in {"saved", "lost"} /\ link'[l].used = link[l].used
                  /\ l \in inflight[s].rows
               \/ link[l].status = "saved" /\ link'[l].status = "purged" /\ ~Locked(l)
    <2>1. CASE l \in inflight[s].rows
      <3>1. link'[l] = [link[l] EXCEPT !.status = "saved"]
        BY <2>1 DEF CommitMail
      <3>2. link[l] \in LinkRow /\ link[l].status # "unused"
        BY <1>1, <2>1 DEF TypeOK, Owned
      <3>3. link'[l].status = "saved" /\ link'[l].used = link[l].used
        BY <3>1, <3>2 DEF LinkRow
      <3>4. QED
        BY <2>1, <3>3
    <2>2. CASE l \notin inflight[s].rows /\ link'[l] # link[l]
      <3>1. l \in Purgeable /\ ~Locked(l) /\ link'[l] = [link[l] EXCEPT !.status = "purged"]
        BY <2>2 DEF CommitMail
      <3>2. link[l] \in LinkRow /\ link[l].status = "saved"
        BY <1>1, <3>1 DEF TypeOK, Purgeable
      <3>3. link'[l].status = "purged"
        BY <3>1, <3>2 DEF LinkRow
      <3>4. QED
        BY <3>1, <3>2, <3>3
    <2>3. QED
      BY <2>1, <2>2
  <1>4. QED
    BY <1>1, <1>2, <1>3, EndKeepsClaims

LEMMA OutageKeepsClaims ==
    ASSUME ClaimInv, TypeOK', Restart \/ \E s \in Slots : Fail(s)
    PROVE  ClaimInv'
  <1>1. TypeOK /\ Owned
    BY DEF ClaimInv
  <1>2. PICK ended \in SUBSET Slots :
          /\ link' = Undo(UNION {RowsOf(inflight[v]) : v \in ended})
          /\ \A v \in Slots : inflight'[v] = IF v \in ended THEN Idle ELSE inflight[v]
          /\ trail' = trail
    <2>1. CASE Restart
      <3>1. /\ link' = Undo(UNION {RowsOf(inflight[v]) : v \in Slots})
            /\ \A v \in Slots : inflight'[v] = Idle
            /\ trail' = trail
        BY <2>1 DEF Restart
      <3>2. QED
        BY <3>1
    <2>2. CASE \E s \in Slots : Fail(s)
      <3>1. PICK s \in Slots : Fail(s)
        BY <2>2
      <3>2. UNION {RowsOf(inflight[v]) : v \in {s}} = RowsOf(inflight[s])
        OBVIOUS
      <3>3. \A v \in Slots : inflight'[v] = IF v \in {s} THEN Idle ELSE inflight[v]
        BY <1>1, <3>1 DEF Fail, End, TypeOK
      <3>4. link' = Undo(RowsOf(inflight[s])) /\ trail' = trail
        BY <3>1 DEF Fail
      <3>5. {s} \in SUBSET Slots
        OBVIOUS
      <3>6. QED
        BY <3>2, <3>3, <3>4, <3>5
    <2>3. QED
      BY <2>1, <2>2
  <1> DEFINE rows == UNION {RowsOf(inflight[v]) : v \in ended}
  <1>3. \A l \in rows : \E v \in ended : inflight[v].op = "mail" /\ l \in inflight[v].rows
    BY DEF RowsOf
  <1>4. rows \in SUBSET Links /\ \A l \in rows : link[l].status = "unsaved"
    BY <1>1, HandlerFields DEF RowsOf, TypeOK, Owned
  <1>5. \A l \in Links : IF l \in rows
                         THEN link'[l].status = "lost" /\ link'[l].used = link[l].used
                         ELSE link'[l] = link[l]
    <2> HIDE DEF rows
    <2>1. QED
      BY <1>1, <1>2, <1>4, UndoChanges DEF rows
  <1>6. QED
    <2> HIDE DEF rows
    <2>1. QED
      BY <1>2, <1>3, <1>5, EndKeepsClaims

\* Growing old changes neither the status of a link nor its use.
LEMMA GrowOldKeepsClaims ==
    ASSUME ClaimInv, TypeOK', NEW k \in Links, GrowOld(k)
    PROVE  ClaimInv'
  <1>1. TypeOK /\ Owned /\ RowsApart /\ ClaimsApart /\ TrailAgrees
    BY DEF ClaimInv
  <1>2. /\ UNCHANGED <<trail, inflight>>
        /\ \A l \in Links : link'[l].status = link[l].status
        /\ \A l \in Links : link[l].status \in {"unsaved", "saved"} => link'[l].used = link[l].used
    <2>1. link[k] \in LinkRow /\ link[k].status # "unused"
      BY <1>1 DEF GrowOld, TypeOK
    <2>2. link'[k].status = link[k].status /\ link'[k].used = link[k].used
      BY <1>1, <2>1 DEF GrowOld, TypeOK, LinkRow
    <2>3. QED
      BY <1>1, <2>2 DEF GrowOld, TypeOK
  <1>3. \A v \in Slots : /\ inflight[v].op = "mail" => inflight[v].rows \subseteq Links
                         /\ inflight[v].op = "decide" /\ inflight[v].via # 0 =>
                                inflight[v].via \in Links
    BY <1>1, HandlerFields, LinkAssumption DEF TypeOK, Links
  <1>4. Owned'
    BY <1>1, <1>2, <1>3 DEF Owned
  <1>5. RowsApart' /\ TrailAgrees'
    BY <1>1, <1>2 DEF RowsApart, TrailAgrees
  <1>6. ClaimsApart'
    BY <1>1, <1>2 DEF ClaimsApart, HoldsClaim
  <1>7. QED
    BY <1>4, <1>5, <1>6 DEF ClaimInv

\* Every step keeps the invariant.
LEMMA ClaimInvStep == ClaimInv /\ [Next]_vars => ClaimInv'
  <1> SUFFICES ASSUME ClaimInv, [Next]_vars PROVE ClaimInv'
    OBVIOUS
  <1>1. TypeOK /\ Owned /\ ClaimsApart
    BY DEF ClaimInv
  <1>2. CASE \E s \in Slots :
               \/ \E q \in Requests : LoadRound(s, q) \/ \E n \in ByHand : LoadRaise(s, q, n)
               \/ \E todo \in SUBSET (Users \X Requests) : LoadDigests(s, todo)
               \/ \E u \in Users, q \in Requests, yes \in BOOLEAN : LoadDecision(s, u, q, yes)
               \/ \E l \in Links, yes \in BOOLEAN : LoadConfirm(s, l, yes)
               \/ CommitRaise(s) \/ Refuse(s)
    <2>1. TypeOK'
      BY <1>1, <1>2, RequestsType, MailType, DecisionType
    <2>2. QED
      BY <1>2, <2>1, LoadKeepsClaims
  <1>3. CASE \E s \in Slots, u \in Users : MailTo(s, u)
    BY <1>1, <1>3, MailType, MailToKeepsClaims
  <1>4. CASE \E s \in Slots : CommitMail(s)
    BY <1>1, <1>4, MailType, CommitMailKeepsClaims
  <1>5. CASE \E s \in Slots : Claim(s)
    BY <1>1, <1>5, DecisionType, ClaimKeepsClaims
  <1>6. CASE \E s \in Slots : Decide(s)
    BY <1>1, <1>6, DecisionType, DecideKeepsClaims
  <1>7. CASE Restart \/ \E s \in Slots : Fail(s)
    BY <1>1, <1>7, OutageType, OutageKeepsClaims
  <1>8. CASE \E l \in Links : GrowOld(l)
    BY <1>1, <1>8, OutageType, GrowOldKeepsClaims
  <1>9. CASE \/ \E q \in Requests : Withdraw(q) \/ Delete(q)
             \/ \E u \in Users : Retire(u)
    <2>1. TypeOK' /\ UNCHANGED <<link, trail, inflight>>
      BY <1>1, <1>9, RequestsType DEF Withdraw, Delete, Retire
    <2>2. QED
      BY <2>1, QuietKeepsClaims
  <1>10. CASE UNCHANGED vars
    <2>1. TypeOK' /\ UNCHANGED <<link, trail, inflight>>
      BY <1>1, <1>10 DEF vars, TypeOK
    <2>2. QED
      BY <2>1, QuietKeepsClaims
  <1>11. QED
    BY <1>2, <1>3, <1>4, <1>5, <1>6, <1>7, <1>8, <1>9, <1>10 DEF Next

\* action_tokens: every row and every handler in flight keeps its shape.
THEOREM TypeCorrect == Spec => []TypeOK
  <1>1. ClaimInv => TypeOK
    BY DEF ClaimInv
  <1>2. QED
    BY <1>1, ClaimInvInit, ClaimInvStep, PTL DEF Spec

\* claim, confirm_email_action: however many confirmations of however many links overlap,
\* fail or are refused, a link decides at most once and is used up exactly when it did.
THEOREM LinksDecideOnce == Spec => []LinkDecidesOnce
  <1>1. ClaimInv => LinkDecidesOnce
    BY DEF ClaimInv, TrailAgrees, LinkDecidesOnce
  <1>2. QED
    BY <1>1, ClaimInvInit, ClaimInvStep, PTL DEF Spec

-----------------------------------------------------------------------------
(***************************************************************************)
(* A granted request has its different approvers                           *)
(***************************************************************************)
\* Only a raise has an unused request, and no two have the same.
RaisesApart ==
    \A s \in Slots : inflight[s].op = "raise" =>
        /\ request[inflight[s].on].status = "unused"
        /\ \A v \in Slots : inflight[v].op = "raise" /\ inflight[v].on = inflight[s].on => v = s

\* A decision in flight is not its maker's, and every approver it loaded is still one.
VotesHeld ==
    \A s \in Slots : inflight[s].op = "decide" =>
        LET h == inflight[s] IN
        /\ request[h.on].status # "unused"
        /\ SoD => h.by # Maker[h.on]
        /\ request[h.on].status # "deleted" =>
              \A u \in Users : h.saw[u] > 0 => request[h.on].yes[u] > 0

\* No maker has approved.
MakersOut == SoD => \A q \in Requests : request[q].yes[Maker[q]] = 0

\* As many people as it asks for have approved a granted request.
Granted ==
    \A q \in Requests : request[q].status = "approved" =>
        Cardinality(Approvers(request[q].yes)) >= request[q].required

\* The inductive invariant behind QuorumOfPeople and MailAfterCommit.
QuorumInv == RaisesApart /\ VotesHeld /\ MakersOut /\ Granted /\ MailAfterCommit

\* There are no votes at first.
LEMMA QuorumInvInit == Init => QuorumInv
  BY LinkAssumption DEF Init, Row, Idle, QuorumInv, RaisesApart, VotesHeld, MakersOut,
     Granted, MailAfterCommit

\* Requests stay as they are, and a slot keeps its raise or decision or has none.
LEMMA QuietKeepsQuorum ==
    ASSUME TypeOK, QuorumInv, request' = request, queue' \subseteq queue,
           \A v \in Slots : \/ inflight'[v].op \in {"idle", "mail"}
                            \/ /\ inflight'[v].op = inflight[v].op
                               /\ inflight'[v].on = inflight[v].on
                               /\ inflight[v].op = "decide" =>
                                     /\ inflight'[v].by = inflight[v].by
                                     /\ inflight'[v].saw = inflight[v].saw
    PROVE  QuorumInv'
  <1>1. RaisesApart'
    BY DEF QuorumInv, RaisesApart
  <1>2. VotesHeld'
    BY DEF QuorumInv, VotesHeld
  <1>3. MakersOut' /\ Granted' /\ MailAfterCommit'
    BY DEF QuorumInv, MakersOut, Granted, Approvers, MailAfterCommit
  <1>4. QED
    BY <1>1, <1>2, <1>3 DEF QuorumInv

\* One slot is freed, starts to mail or carries on with its decision.
LEMMA ReslotKeepsQuorum ==
    ASSUME TypeOK, QuorumInv, request' = request, queue' \subseteq queue,
           NEW s \in Slots, NEW h, inflight' = [inflight EXCEPT ![s] = h],
           \/ h.op \in {"idle", "mail"}
           \/ /\ inflight[s].op = "decide" /\ h.op = "decide" /\ h.on = inflight[s].on
              /\ h.by = inflight[s].by /\ h.saw = inflight[s].saw
    PROVE  QuorumInv'
  <1>1. \A v \in Slots : inflight'[v] = IF v = s THEN h ELSE inflight[v]
    BY DEF TypeOK
  <1>2. QED
    BY <1>1, QuietKeepsQuorum

\* Mails, claims, refusals, failures and the passing of time change no request.
LEMMA OtherStepsKeepQuorum ==
    ASSUME TypeOK, QuorumInv,
           \/ \E s \in Slots : \/ \E q \in Requests : LoadRound(s, q)
                               \/ \E todo \in SUBSET (Users \X Requests) : LoadDigests(s, todo)
                               \/ \E u \in Users : MailTo(s, u)
                               \/ CommitMail(s) \/ Claim(s) \/ Refuse(s) \/ Fail(s)
           \/ \E u \in Users : Retire(u)
           \/ \E l \in Links : GrowOld(l)
           \/ Restart
           \/ UNCHANGED vars
    PROVE  QuorumInv'
  <1>1. CASE \E s \in Slots, q \in Requests : LoadRound(s, q)
    <2>1. PICK s \in Slots, q \in Requests : LoadRound(s, q)
      BY <1>1
    <2> DEFINE h == [op |-> "mail", todo |-> {u \in Asked[q] : enabled /\ MayDecide(u, q)} \X {q},
                    rows |-> {}, purges |-> FALSE]
    <2>2. inflight' = [inflight EXCEPT ![s] = h] /\ request' = request /\ queue' \subseteq queue
      BY <2>1 DEF LoadRound, Begin
    <2>3. h.op = "mail"
      OBVIOUS
    <2> HIDE DEF h
    <2>4. QED
      BY <2>2, <2>3, ReslotKeepsQuorum
  <1>2. CASE \E s \in Slots, todo \in SUBSET (Users \X Requests) : LoadDigests(s, todo)
    <2>1. PICK s \in Slots, todo \in SUBSET (Users \X Requests) : LoadDigests(s, todo)
      BY <1>2
    <2> DEFINE h == [op |-> "mail", todo |-> todo, rows |-> {}, purges |-> TRUE]
    <2>2. inflight' = [inflight EXCEPT ![s] = h] /\ request' = request /\ queue' = queue
      BY <2>1 DEF LoadDigests, Begin
    <2>3. h.op = "mail"
      OBVIOUS
    <2> HIDE DEF h
    <2>4. QED
      BY <2>2, <2>3, ReslotKeepsQuorum
  <1>3. CASE \E s \in Slots, u \in Users : MailTo(s, u)
    <2>1. PICK s \in Slots, u \in Users : MailTo(s, u)
      BY <1>3
    <2> DEFINE about == {p \in inflight[s].todo : p[1] = u}
    <2>2. PICK new \in SUBSET Links :
             inflight' = [inflight EXCEPT ![s].todo = @ \ about, ![s].rows = @ \cup new]
      BY <2>1 DEF MailTo
    <2> DEFINE h == [inflight[s] EXCEPT !.todo = @ \ about, !.rows = @ \cup new]
    <2>3. inflight' = [inflight EXCEPT ![s] = h] /\ request' = request /\ queue' = queue
      BY <2>1, <2>2 DEF MailTo, TypeOK
    <2>4. h.op = "mail"
      BY <2>1 DEF MailTo, TypeOK, Handler
    <2> HIDE DEF h
    <2>5. QED
      BY <2>3, <2>4, ReslotKeepsQuorum
  <1>4. CASE \E s \in Slots : CommitMail(s) \/ Refuse(s) \/ Fail(s)
    <2>1. PICK s \in Slots : CommitMail(s) \/ Refuse(s) \/ Fail(s)
      BY <1>4
    <2>2. inflight' = [inflight EXCEPT ![s] = Idle] /\ request' = request /\ queue' = queue
      BY <2>1 DEF CommitMail, Refuse, Fail, End
    <2>3. QED
      BY <2>2, ReslotKeepsQuorum DEF Idle
  <1>5. CASE \E s \in Slots : Claim(s)
    <2>1. PICK s \in Slots : Claim(s)
      BY <1>5
    <2>2. request' = request /\ queue' = queue
      BY <2>1 DEF Claim
    <2>3. CASE inflight' = [inflight EXCEPT ![s] = Idle]
      BY <2>2, <2>3, ReslotKeepsQuorum DEF Idle
    <2>4. CASE inflight' = [inflight EXCEPT ![s].claimed = TRUE]
      <3> DEFINE h == [inflight[s] EXCEPT !.claimed = TRUE]
      <3>1. inflight' = [inflight EXCEPT ![s] = h]
        BY <2>4 DEF TypeOK
      <3>2. /\ inflight[s].op = "decide" /\ h.op = "decide" /\ h.on = inflight[s].on
            /\ h.by = inflight[s].by /\ h.saw = inflight[s].saw
        BY <2>1 DEF Claim, TypeOK, Handler
      <3> HIDE DEF h
      <3>3. QED
        BY <2>2, <3>1, <3>2, ReslotKeepsQuorum
    <2>5. QED
      BY <2>1, <2>3, <2>4 DEF Claim, End
  <1>6. CASE Restart
    <2>1. request' = request /\ queue' \subseteq queue /\ \A v \in Slots : inflight'[v].op = "idle"
      BY <1>6 DEF Restart, Idle
    <2>2. QED
      BY <2>1, QuietKeepsQuorum
  <1>7. CASE UNCHANGED vars \/ (\E u \in Users : Retire(u)) \/ (\E l \in Links : GrowOld(l))
    <2>1. request' = request /\ queue' = queue /\ inflight' = inflight
      BY <1>7 DEF vars, Retire, GrowOld
    <2>2. QED
      BY <2>1, QuietKeepsQuorum
  <1>8. QED
    BY <1>1, <1>2, <1>3, <1>4, <1>5, <1>6, <1>7

\* A decision is loaded by someone who may decide, with the votes of that moment.
LEMMA LoadKeepsQuorum ==
    ASSUME TypeOK, QuorumInv, UNCHANGED <<request, queue>>,
           NEW s \in Slots, NEW q \in Requests, NEW u \in Users, MayDecide(u, q), NEW h,
           h.op = "decide", h.on = q, h.by = u, h.saw = request[q].yes,
           inflight' = [inflight EXCEPT ![s] = h]
    PROVE  QuorumInv'
  <1>1. \A v \in Slots : inflight'[v] = IF v = s THEN h ELSE inflight[v]
    BY DEF TypeOK
  <1>2. RaisesApart'
    BY <1>1 DEF QuorumInv, RaisesApart
  <1>3. VotesHeld'
    BY <1>1 DEF QuorumInv, VotesHeld, MayDecide
  <1>4. MakersOut' /\ Granted' /\ MailAfterCommit'
    BY DEF QuorumInv, MakersOut, Granted, Approvers, MailAfterCommit
  <1>5. QED
    BY <1>2, <1>3, <1>4 DEF QuorumInv

\* A raise starts on a request nobody else raises.
LEMMA RaiseKeepsQuorum ==
    ASSUME TypeOK, QuorumInv, NEW s \in Slots, NEW q \in Requests, NEW n \in ByHand,
           LoadRaise(s, q, n)
    PROVE  QuorumInv'
  <1>1. \A v \in Slots : inflight'[v] = IF v = s THEN [op |-> "raise", on |-> q, required |-> n]
                                                 ELSE inflight[v]
    BY DEF LoadRaise, Begin, TypeOK
  <1>2. RaisesApart'
    BY <1>1 DEF QuorumInv, RaisesApart, LoadRaise
  <1>3. VotesHeld'
    BY <1>1 DEF QuorumInv, VotesHeld, LoadRaise
  <1>4. MakersOut' /\ Granted' /\ MailAfterCommit'
    BY DEF QuorumInv, MakersOut, Granted, Approvers, MailAfterCommit, LoadRaise
  <1>5. QED
    BY <1>2, <1>3, <1>4 DEF QuorumInv

\* A raise that commits leaves a request without votes, which no decision had loaded.
LEMMA CommitRaiseKeepsQuorum ==
    ASSUME TypeOK, QuorumInv, NEW s \in Slots, CommitRaise(s)
    PROVE  QuorumInv'
  <1> DEFINE q == inflight[s].on
  <1>1. /\ inflight[s].op = "raise" /\ q \in Requests /\ inflight[s].required \in Nat
        /\ request[q].status = "unused" /\ queue' = queue \cup {q}
    BY HandlerFields DEF CommitRaise, TypeOK, QuorumInv, RaisesApart
  <1>2. \A v \in Slots : inflight'[v] = IF v = s THEN Idle ELSE inflight[v]
    BY DEF CommitRaise, End, TypeOK
  <1>3. /\ request'[q] = Row("pending", inflight[s].required)
        /\ \A r \in Requests \ {q} : request'[r] = request[r]
    BY <1>1 DEF CommitRaise, TypeOK
  <1>4. request'[q].status = "pending" /\ \A u \in Users : request'[q].yes[u] = 0
    BY <1>3 DEF Row
  <1>5. \A v \in Slots : /\ inflight[v].op = "raise" => inflight[v].on \in Requests
                         /\ inflight[v].op = "decide" => inflight[v].on \in Requests
    BY HandlerFields DEF TypeOK
  <1>6. RaisesApart'
    BY <1>1, <1>2, <1>3, <1>5 DEF QuorumInv, RaisesApart, Idle
  <1>7. VotesHeld'
    BY <1>1, <1>2, <1>3, <1>5 DEF QuorumInv, VotesHeld, Idle
  <1>8. MakersOut'
    BY <1>3, <1>4, LinkAssumption DEF QuorumInv, MakersOut
  <1>9. Granted'
    BY <1>3, <1>4 DEF QuorumInv, Granted, Approvers
  <1>10. MailAfterCommit'
    BY <1>1, <1>3, <1>4 DEF QuorumInv, MailAfterCommit, TypeOK
  <1>11. QED
    BY <1>6, <1>7, <1>8, <1>9, <1>10 DEF QuorumInv

\* A withdrawn request keeps its votes, a deleted one is gone.
LEMMA WithdrawKeepsQuorum ==
    ASSUME TypeOK, QuorumInv, NEW q \in Requests, Withdraw(q) \/ Delete(q)
    PROVE  QuorumInv'
  <1>1. /\ UNCHANGED <<queue, inflight>> /\ request[q].status # "unused"
        /\ \A r \in Requests \ {q} : request'[r] = request[r]
    BY DEF Withdraw, Delete, TypeOK
  <1>2. \/ /\ request'[q].status = "cancelled" /\ request'[q].yes = request[q].yes
           /\ request[q].status = "pending"
        \/ request'[q].status = "deleted" /\ \A u \in Users : request'[q].yes[u] = 0
    BY DEF Withdraw, Delete, Row, TypeOK, RequestRow
  <1>3. \A v \in Slots : /\ inflight[v].op = "raise" => inflight[v].on \in Requests
                         /\ inflight[v].op = "decide" => inflight[v].on \in Requests
    BY HandlerFields DEF TypeOK
  <1>4. RaisesApart'
    BY <1>1, <1>3 DEF QuorumInv, RaisesApart
  <1>5. VotesHeld'
    BY <1>1, <1>2, <1>3 DEF QuorumInv, VotesHeld
  <1>6. MakersOut'
    BY <1>1, <1>2, LinkAssumption DEF QuorumInv, MakersOut
  <1>7. Granted'
    BY <1>1, <1>2 DEF QuorumInv, Granted, Approvers
  <1>8. MailAfterCommit'
    BY <1>1, <1>2 DEF QuorumInv, MailAfterCommit, TypeOK
  <1>9. QED
    BY <1>4, <1>5, <1>6, <1>7, <1>8 DEF QuorumInv

\* Whoever a decision counted has voted to approve when it is recorded.
LEMMA DecideKeepsQuorum ==
    ASSUME TypeOK, TypeOK', QuorumInv, NEW s \in Slots, Decide(s)
    PROVE  QuorumInv'
  <1> DEFINE h == inflight[s]
             q == h.on
  <1>1. /\ h.op = "decide" /\ h.by \in Users /\ q \in Requests /\ h.yes \in BOOLEAN
        /\ h.saw \in [Users -> Nat]
        /\ request[q].status \notin {"unused", "deleted"}
        /\ SoD => h.by # Maker[q]
        /\ \A u \in Users : h.saw[u] > 0 => request[q].yes[u] > 0
    BY HandlerFields DEF Decide, TypeOK, QuorumInv, VotesHeld
  <1>2. \A v \in Slots : inflight'[v] = IF v = s THEN Idle ELSE inflight[v]
    BY DEF Decide, End, TypeOK
  <1>3. /\ request[q] \in RequestRow
        /\ request'[q].required = request[q].required
        /\ request'[q].status = Outcome(h, request[q].status)
        /\ request'[q].yes = [request[q].yes EXCEPT ![h.by] = IF h.yes THEN @ + 1 ELSE @]
        /\ \A r \in Requests \ {q} : request'[r] = request[r]
    <2> DEFINE row == [request[q] EXCEPT
                          !.yes[h.by] = IF h.yes THEN @ + 1 ELSE @,
                          !.no[h.by] = IF h.yes THEN @ ELSE @ + 1,
                          !.status = Outcome(h, request[q].status)]
    <2>1. request[q] \in RequestRow
      BY <1>1 DEF TypeOK
    <2>2. request' = [request EXCEPT ![q] = row]
      BY <1>1, <2>1 DEF Decide, TypeOK, RequestRow
    <2>3. request'[q] = row /\ \A r \in Requests \ {q} : request'[r] = request[r]
      BY <1>1, <2>2 DEF TypeOK
    <2>4. /\ row.required = request[q].required
          /\ row.status = Outcome(h, request[q].status)
          /\ row.yes = [request[q].yes EXCEPT ![h.by] = IF h.yes THEN @ + 1 ELSE @]
      BY <2>1 DEF RequestRow
    <2>5. QED
      BY <2>1, <2>3, <2>4
  <1>4. /\ \A u \in Users : request[q].yes[u] > 0 => request'[q].yes[u] > 0
        /\ h.yes => request'[q].yes[h.by] > 0
        /\ \A u \in Users \ {h.by} : request'[q].yes[u] = request[q].yes[u]
    <2>1. request[q].yes \in [Users -> Nat]
      BY <1>3 DEF RequestRow
    <2> DEFINE old == request[q].yes
               new == request'[q].yes
    <2>2. new = [old EXCEPT ![h.by] = IF h.yes THEN @ + 1 ELSE @]
      BY <1>3
    <2> HIDE DEF old, new
    <2>3. /\ \A u \in Users : old[u] > 0 => new[u] > 0
          /\ h.yes => new[h.by] > 0
          /\ \A u \in Users \ {h.by} : new[u] = old[u]
      BY <1>1, <2>1, <2>2 DEF old
    <2>4. QED
      BY <2>3 DEF old, new
  <1>5. request'[q].status # "unused" /\ request'[q].status # "deleted"
    BY <1>1, <1>3 DEF Outcome
  <1>6. \A v \in Slots : /\ inflight[v].op = "raise" => inflight[v].on \in Requests
                         /\ inflight[v].op = "decide" => inflight[v].on \in Requests
    BY HandlerFields DEF TypeOK
  <1>7. RaisesApart'
    BY <1>1, <1>2, <1>3, <1>6 DEF QuorumInv, RaisesApart, Idle
  <1>8. VotesHeld'
    <2>1. ASSUME NEW v \in Slots, inflight'[v].op = "decide"
          PROVE  LET k == inflight'[v] IN
                 /\ request'[k.on].status # "unused"
                 /\ SoD => k.by # Maker[k.on]
                 /\ request'[k.on].status # "deleted" =>
                       \A u \in Users : k.saw[u] > 0 => request'[k.on].yes[u] > 0
      <3>1. inflight'[v] = inflight[v] /\ inflight[v].on \in Requests
        BY <1>2, <1>6, <2>1 DEF Idle
      <3>2. CASE inflight[v].on = q
        BY <1>1, <1>4, <1>5, <2>1, <3>1, <3>2 DEF QuorumInv, VotesHeld
      <3>3. CASE inflight[v].on # q
        BY <1>3, <2>1, <3>1, <3>3 DEF QuorumInv, VotesHeld
      <3>4. QED
        BY <3>2, <3>3
    <2>2. QED
      BY <2>1 DEF VotesHeld
  <1>9. MakersOut'
    <2>1. ASSUME SoD, NEW r \in Requests
          PROVE  request'[r].yes[Maker[r]] = 0
      <3>1. request[r].yes[Maker[r]] = 0 /\ Maker[r] \in Users
        BY <2>1, LinkAssumption DEF QuorumInv, MakersOut
      <3>2. CASE r = q
        BY <1>1, <1>4, <2>1, <3>1, <3>2
      <3>3. CASE r # q
        BY <1>3, <3>1, <3>3
      <3>4. QED
        BY <3>2, <3>3
    <2>2. QED
      BY <2>1 DEF MakersOut
  <1>10. Granted'
    <2>1. ASSUME request'[q].status = "approved"
          PROVE  Cardinality(Approvers(request'[q].yes)) >= request'[q].required
      <3> DEFINE now == Approvers(request'[q].yes)
      <3>1. IsFiniteSet(now) /\ Cardinality(now) \in Nat
        <4>1. IsFiniteSet(Users) /\ now \in SUBSET Users
          BY LinkAssumption DEF Approvers
        <4>2. IsFiniteSet(now)
          BY ONLY <4>1, FS_Subset
        <4>3. QED
          BY ONLY <4>2, FS_CardinalityType
      <3>2. CASE h.yes /\ Received(h) >= request[q].required
        <4> DEFINE before == Approvers(h.saw) \cup {h.by}
        <4>1. before \in SUBSET now
          BY <1>1, <1>4, <3>2 DEF Approvers
        <4>2. IsFiniteSet(before) /\ Cardinality(before) <= Cardinality(now)
          <5> HIDE DEF before, now
          <5>1. QED
            BY ONLY <3>1, <4>1, FS_Subset
        <4>3. Cardinality(before) \in Nat
          <5> HIDE DEF before
          <5>1. QED
            BY ONLY <4>2, FS_CardinalityType
        <4>4. Received(h) = Cardinality(before) /\ request[q].required \in Nat
          BY <1>3 DEF Received, RequestRow
        <4>5. QED
          BY <1>3, <3>1, <3>2, <4>2, <4>3, <4>4
      <3>3. CASE request[q].status = "approved"
        <4> DEFINE before == Approvers(request[q].yes)
        <4>1. before \in SUBSET now
          BY <1>4 DEF Approvers
        <4>2. IsFiniteSet(before) /\ Cardinality(before) <= Cardinality(now)
          <5> HIDE DEF before, now
          <5>1. QED
            BY ONLY <3>1, <4>1, FS_Subset
        <4>3. Cardinality(before) \in Nat
          <5> HIDE DEF before
          <5>1. QED
            BY ONLY <4>2, FS_CardinalityType
        <4>4. Cardinality(before) >= request[q].required /\ request[q].required \in Nat
          BY <1>1, <1>3, <3>3 DEF QuorumInv, Granted, RequestRow
        <4>5. QED
          BY <1>3, <3>1, <4>2, <4>3, <4>4
      <3>4. \/ h.yes /\ Received(h) >= request[q].required
            \/ request[q].status = "approved"
        <4>1. Outcome(h, request[q].status) = "approved"
          BY <1>3, <2>1
        <4>2. QED
          BY <4>1 DEF Outcome
      <3>5. QED
        BY <3>2, <3>3, <3>4
    <2>2. ASSUME NEW r \in Requests, request'[r].status = "approved"
          PROVE  Cardinality(Approvers(request'[r].yes)) >= request'[r].required
      <3>1. CASE r = q
        BY <2>1, <2>2, <3>1
      <3>2. CASE r # q
        <4>1. request'[r] = request[r]
          BY <1>3, <3>2
        <4>2. QED
          BY <2>2, <4>1 DEF QuorumInv, Granted
      <3>3. QED
        BY <3>1, <3>2
    <2>3. QED
      BY <2>2 DEF Granted, Approvers
  <1>11. MailAfterCommit'
    <2>1. queue' = queue
      BY DEF Decide
    <2>2. QED
      BY <1>3, <1>5, <2>1 DEF QuorumInv, MailAfterCommit, TypeOK
  <1>12. QED
    BY <1>7, <1>8, <1>9, <1>10, <1>11 DEF QuorumInv

\* Every step keeps the invariant.
LEMMA QuorumInvStep == ClaimInv /\ QuorumInv /\ [Next]_vars => QuorumInv'
  <1> SUFFICES ASSUME ClaimInv, QuorumInv, [Next]_vars PROVE QuorumInv'
    OBVIOUS
  <1>1. TypeOK /\ TypeOK'
    BY ClaimInvStep DEF ClaimInv
  <1>2. CASE \E s \in Slots, q \in Requests, n \in ByHand : LoadRaise(s, q, n)
    BY <1>1, <1>2, RaiseKeepsQuorum
  <1>3. CASE \E s \in Slots : CommitRaise(s)
    BY <1>1, <1>3, CommitRaiseKeepsQuorum
  <1>4. CASE \E s \in Slots, u \in Users, q \in Requests, yes \in BOOLEAN : LoadDecision(s, u, q, yes)
    <2>1. PICK s \in Slots, u \in Users, q \in Requests, yes \in BOOLEAN : LoadDecision(s, u, q, yes)
      BY <1>4
    <2> DEFINE h == Deciding(u, q, yes, 0, TRUE)
    <2>2. /\ inflight' = [inflight EXCEPT ![s] = h] /\ UNCHANGED <<request, queue>>
          /\ MayDecide(u, q)
      BY <2>1 DEF LoadDecision, Begin
    <2>3. h.op = "decide" /\ h.on = q /\ h.by = u /\ h.saw = request[q].yes
      BY DEF Deciding
    <2> HIDE DEF h
    <2>4. QED
      BY <1>1, <2>2, <2>3, LoadKeepsQuorum
  <1>5. CASE \E s \in Slots, l \in Links, yes \in BOOLEAN : LoadConfirm(s, l, yes)
    <2>1. PICK s \in Slots, l \in Links, yes \in BOOLEAN : LoadConfirm(s, l, yes)
      BY <1>5
    <2> DEFINE u == link[l].user
               q == link[l].on
               h == Deciding(u, q, yes, l, FALSE)
    <2>2. /\ inflight' = [inflight EXCEPT ![s] = h] /\ UNCHANGED <<request, queue>>
          /\ MayDecide(u, q) /\ u \in Users /\ q \in Requests
      BY <1>1, <2>1, MintedFields DEF LoadConfirm, Begin, Ready, TypeOK
    <2>3. h.op = "decide" /\ h.on = q /\ h.by = u /\ h.saw = request[q].yes
      BY DEF Deciding
    <2> HIDE DEF h, u, q
    <2>4. QED
      BY <1>1, <2>2, <2>3, LoadKeepsQuorum
  <1>6. CASE \E s \in Slots : Decide(s)
    BY <1>1, <1>6, DecideKeepsQuorum
  <1>7. CASE \E q \in Requests : Withdraw(q) \/ Delete(q)
    BY <1>1, <1>7, WithdrawKeepsQuorum
  <1>8. CASE \/ \E s \in Slots : \/ \E q \in Requests : LoadRound(s, q)
                                 \/ \E todo \in SUBSET (Users \X Requests) : LoadDigests(s, todo)
                                 \/ \E u \in Users : MailTo(s, u)
                                 \/ CommitMail(s) \/ Claim(s) \/ Refuse(s) \/ Fail(s)
             \/ \E u \in Users : Retire(u)
             \/ \E l \in Links : GrowOld(l)
             \/ Restart
             \/ UNCHANGED vars
    BY <1>1, <1>8, OtherStepsKeepQuorum
  <1>9. QED
    BY <1>2, <1>3, <1>4, <1>5, <1>6, <1>7, <1>8 DEF Next

\* approvals_received: through however many links and sessions the same person decides, at
\* once or in turn, a granted request has that many different approvers, none its maker.
THEOREM GrantsNeedPeople == Spec => []QuorumOfPeople
  <1>1. ClaimInv /\ QuorumInv => QuorumOfPeople
    <2> SUFFICES ASSUME ClaimInv, QuorumInv, NEW q \in Requests, request[q].status = "approved"
                 PROVE  /\ Cardinality(Approvers(request[q].yes)) >= request[q].required
                        /\ SoD => Maker[q] \notin Approvers(request[q].yes)
      BY DEF QuorumOfPeople
    <2>1. Cardinality(Approvers(request[q].yes)) >= request[q].required
      BY DEF QuorumInv, Granted
    <2>2. SoD => Maker[q] \notin Approvers(request[q].yes)
      BY DEF QuorumInv, MakersOut, Approvers
    <2>3. QED
      BY <2>1, <2>2
  <1>2. QED
    BY <1>1, ClaimInvInit, ClaimInvStep, QuorumInvInit, QuorumInvStep, PTL DEF Spec

\* The hook on the commit: the mail task never looks for a request that is not stored yet.
THEOREM MailsAfterCommit == Spec => []MailAfterCommit
  <1>1. QuorumInv => MailAfterCommit
    BY DEF QuorumInv
  <1>2. QED
    BY <1>1, ClaimInvInit, ClaimInvStep, QuorumInvInit, QuorumInvStep, PTL DEF Spec
==============================================================================
