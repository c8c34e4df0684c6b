----------------------------- MODULE AlertDigests -----------------------------
(***************************************************************************)
(* The alerts of one organisation and the digests that mail them.          *)
(*                                                                         *)
(* A scan reconciles the stored alerts with the conditions that hold: the  *)
(* scheduler's sweep scans, and so does every look at the feed.  Events    *)
(* are recorded by the request that observed them and are never swept.     *)
(* After its scan the sweep mails each person what is theirs and new since *)
(* their last digest, and commits last: the mails are out by then.         *)
(*                                                                         *)
(* A row is dated when its transaction BEGINS (created_at is the           *)
(* database's now()), and so is the marker of a digest; what is read is    *)
(* what had been committed at the read.                                    *)
(***************************************************************************)
EXTENDS Integers

CONSTANTS
    People,         \* the active users with an e-mail address
    Recipients,     \* whom an alert may be addressed to: people, roles, Everyone
    Everyone,       \* nobody in particular: user_id NULL, no role
    Reach,          \* Reach[to]: the people who see what is addressed to `to`
    Alerts,         \* the conditions a scan may find
    Addressings,    \* the sets of recipients a condition may have
    Events,         \* what a request may record, once each
    EventTo,        \* EventTo[e]: the recipient of event e
    FirstLookback,  \* FIRST_DIGEST_LOOKBACK_SWEEPS, in instants
    MaxLookback,    \* MAX_DIGEST_LOOKBACK
    MaxClock        \* bound: instants

Instants == 1..MaxClock
Never == 0          \* no digest yet, no change yet

ASSUME RecipientsAssumption ==
    /\ Everyone \in Recipients
    /\ Everyone \notin People
    /\ People \subseteq Recipients
    /\ Reach \in [Recipients -> SUBSET People]
    /\ \A p \in People : Reach[p] = {p}
    /\ Addressings \subseteq SUBSET Recipients
    /\ EventTo \in [Events -> Recipients]
    /\ Alerts \cap Events = {}

ASSUME BoundsAssumption ==
    /\ FirstLookback \in Nat
    /\ MaxLookback \in Nat
    /\ MaxClock \in Nat

VARIABLES
    clock,     \* the last instant at which something began
    holds,     \* the recipients of each condition, {} while it does not hold
    rows,      \* notifications, as committed
    marker,    \* the date of each person's last digest entry in the audit trail
    request,   \* the request in flight that scans or records
    sweep,     \* the sweep's transaction
    changed,   \* when each condition last changed
    told,      \* the rows whose alert a recorded digest has told each person of
    gap,       \* the instants no recorded digest of a person reaches back to
    late       \* alerts committed under a date a digest had passed already

vars == <<clock, holds, rows, marker, request, sweep, changed, told, gap, late>>

-----------------------------------------------------------------------------
(***************************************************************************)
(* Reconciling the stored alerts with the conditions                       *)
(***************************************************************************)
\* kept: the date is that of a row everyone saw (reconcile_plan's "not news").
Row == [alert : Alerts \cup Events, to : Recipients, at : Instants, kept : BOOLEAN]

\* refresh deletes a duplicate left by two scans racing, and keeps the oldest.
NewestFirst(r, s) == r.at > s.at                     \* mutant: keeps the newest
OlderThan(r, s) == r.at < s.at
Twins(r, s) == r.alert = s.alert /\ r.to = s.to
Distinct(stored) ==
    {r \in stored : r.alert \in Events \/ ~\E s \in stored : Twins(r, s) /\ OlderThan(s, r)}

Unfounded(stored) ==
    {r \in Distinct(stored) : r.alert \in Alerts /\ r.to \notin holds[r.alert]}
ToDelete(stored) == (stored \ Distinct(stored)) \cup Unfounded(stored)

\* The row everyone was shown under an alert's plain key, if there is one: no two
\* distinct rows of one alert and recipient have different dates.
Shown(stored, c) == {r \in Distinct(stored) : r.alert = c /\ r.to = Everyone}

\* A new row of condition c for `to` is dated when its transaction began, or as the
\* row everyone has seen before.
NewRowUndated(stored, c, to, at) ==                  \* mutant: dated only when carried
    LET shown == IF to = Everyone THEN {} ELSE Shown(stored, c)
    IN [alert |-> c, to |-> to, kept |-> shown # {},
        at |-> IF shown = {} THEN Never ELSE (CHOOSE r \in shown : TRUE).at]
NewRow(stored, c, to, at) ==
    LET shown == IF to = Everyone THEN {} ELSE Shown(stored, c)
    IN [alert |-> c, to |-> to, kept |-> shown # {},
        at |-> IF shown = {} THEN at ELSE (CHOOSE r \in shown : TRUE).at]

Missing(stored) ==
    {key \in Alerts \X Recipients :
        /\ key[2] \in holds[key[1]]
        /\ ~\E r \in stored : r.alert = key[1] /\ r.to = key[2]}

ToCreate(stored, at) == {NewRow(stored, key[1], key[2], at) : key \in Missing(stored)}

EventRow(e, at) == [alert |-> e, to |-> EventTo[e], at |-> at, kept |-> FALSE]
Recorded == {r.alert : r \in rows \cup request.add \cup sweep.add} \cap Events

-----------------------------------------------------------------------------
(***************************************************************************)
(* Digests                                                                 *)
(***************************************************************************)
Later(a, b) == IF a > b THEN a ELSE b

\* digest_since: the last digest, never further back than MaxLookback; somebody who
\* has had none starts FirstLookback back.
Since(p) ==
    Later(IF marker[p] = Never THEN sweep.now - FirstLookback ELSE marker[p],
          sweep.now - MaxLookback)

\* digest_for: what is visible to p and dated after p's last digest.
News(p) == {r \in sweep.batch : p \in Reach[r.to] /\ r.at > Since(p)}

-----------------------------------------------------------------------------
Idle == [pc |-> "idle", at |-> Never, beside |-> FALSE, add |-> {}, del |-> {}]
NoSweep == [pc |-> "idle", at |-> Never, now |-> Never, add |-> {}, del |-> {},
            left |-> {}, batch |-> {}, todo |-> {}, sent |-> {}]

Init ==
    /\ clock = 0
    /\ holds = [c \in Alerts |-> {}]
    /\ rows = {}
    /\ marker = [p \in People |-> Never]
    /\ request = Idle
    /\ sweep = NoSweep
    /\ changed = [c \in Alerts |-> Never]
    /\ told = [p \in People |-> {}]
    /\ gap = [p \in People |-> {}]
    /\ late = {}

\* Every transaction begins at an instant of its own.
Instant == clock < MaxClock /\ clock' = clock + 1

\* A register changes: a condition starts, ends or gets other recipients.
Change(c, to) ==
    /\ to # holds[c]
    /\ Instant
    /\ holds' = [holds EXCEPT ![c] = to]
    /\ changed' = [changed EXCEPT ![c] = clock + 1]
    /\ UNCHANGED <<rows, marker, request, sweep, told, gap, late>>

Wait ==
    /\ Instant
    /\ UNCHANGED <<holds, rows, marker, request, sweep, changed, told, gap, late>>

-----------------------------------------------------------------------------
(***************************************************************************)
(* A request: a look at the feed (refresh), or one that records an event   *)
(***************************************************************************)
RequestBegin ==
    /\ request = Idle
    /\ Instant
    /\ request' = [Idle EXCEPT !.pc = "open", !.at = clock + 1, !.beside = sweep # NoSweep]
    /\ UNCHANGED <<holds, rows, marker, sweep, changed, told, gap, late>>

RequestScan ==
    /\ request.pc = "open"
    /\ request' = [request EXCEPT !.pc = "wrote", !.add = ToCreate(rows, request.at),
                                  !.del = ToDelete(rows)]
    /\ UNCHANGED <<clock, holds, rows, marker, sweep, changed, told, gap, late>>

RequestRecord(e) ==
    /\ request.pc = "open"
    /\ e \notin Recorded
    /\ request' = [request EXCEPT !.pc = "wrote", !.add = {EventRow(e, request.at)}]
    /\ UNCHANGED <<clock, holds, rows, marker, sweep, changed, told, gap, late>>

\* What the digests may miss of a request that runs beside a sweep: its new rows when
\* some digest has passed their date without having seen them, and the rows it dates as
\* one that the sweep may be deleting.
Passed ==
    \/ \E p \in People : marker[p] >= request.at
    \/ sweep.pc = "mailing" /\ sweep.at >= request.at
Missed == {r \in request.add : IF r.kept THEN request.beside ELSE Passed}

RequestCommit ==
    /\ request.pc = "wrote"
    /\ rows' = (rows \ request.del) \cup request.add
    /\ late' = late \cup {<<r.alert, r.at>> : r \in Missed}
    /\ request' = Idle
    /\ UNCHANGED <<clock, holds, marker, sweep, changed, told, gap>>

RequestFails ==
    /\ request.pc # "idle"
    /\ request' = Idle
    /\ UNCHANGED <<clock, holds, rows, marker, sweep, changed, told, gap, late>>

-----------------------------------------------------------------------------
(***************************************************************************)
(* The sweep, one at a time under the leader lock                          *)
(***************************************************************************)
SweepBegin ==
    /\ sweep = NoSweep
    /\ Instant
    /\ sweep' = [NoSweep EXCEPT !.pc = "open", !.at = clock + 1]
    /\ request' = [request EXCEPT !.beside = request # Idle]
    /\ UNCHANGED <<holds, rows, marker, changed, told, gap, late>>

\* expire_lapsed may record events, then refresh scans.
SweepScan ==
    /\ sweep.pc = "open"
    /\ \E lapsed \in SUBSET (Events \ Recorded) :
           LET events == {EventRow(e, sweep.at) : e \in lapsed}
               gone == ToDelete(rows)
           IN sweep' = [sweep EXCEPT !.pc = "scanned", !.del = gone,
                                     !.add = ToCreate(rows, sweep.at) \cup events,
                                     !.left = rows \ gone]
    /\ UNCHANGED <<clock, holds, rows, marker, request, changed, told, gap, late>>

\* send_digests loads the markers and the rows; whoever has no news is passed over.
SweepRead ==
    /\ sweep.pc = "scanned"
    /\ sweep' = [sweep EXCEPT !.pc = "mailing", !.now = clock, !.todo = People,
                              !.batch = (rows \ sweep.del) \cup sweep.add]
    /\ UNCHANGED <<clock, holds, rows, marker, request, changed, told, gap, late>>

\* The digest of p goes out, or the mail server refuses it.
Mail(p, accepted) ==
    /\ sweep.pc = "mailing"
    /\ p \in sweep.todo
    /\ News(p) # {}
    /\ sweep' = [sweep EXCEPT !.todo = @ \ {p}, !.sent = IF accepted THEN @ \cup {p} ELSE @]
    /\ UNCHANGED <<clock, holds, rows, marker, request, changed, told, gap, late>>

\* record_system: the entry of each digest that went out is dated as the transaction.
MarkedAttempts == People \ sweep.todo                \* mutant: refused ones too
Marked == sweep.sent

SweepCommit ==
    /\ sweep.pc = "mailing"
    /\ \A p \in sweep.todo : News(p) = {}
    /\ rows' = (rows \ sweep.del) \cup sweep.add
    /\ marker' = [p \in People |-> IF p \in Marked THEN sweep.at ELSE marker[p]]
    /\ told' = [p \in People |->
                   told[p] \cup IF p \in sweep.sent THEN {r \in News(p) : r.at <= sweep.at}
                                ELSE {}]
    /\ gap' = [p \in People |->
                   gap[p] \cup IF p \in sweep.sent THEN (marker[p] + 1)..Since(p) ELSE {}]
    /\ sweep' = NoSweep
    /\ UNCHANGED <<clock, holds, request, changed, late>>

\* An exception or a lost process rolls the sweep back: the mails stay out.
SweepFails ==
    /\ sweep # NoSweep
    /\ sweep' = NoSweep
    /\ UNCHANGED <<clock, holds, rows, marker, request, changed, told, gap, late>>

-----------------------------------------------------------------------------
Next ==
    \/ \E c \in Alerts, to \in Addressings : Change(c, to)
    \/ Wait
    \/ RequestBegin \/ RequestScan \/ RequestCommit \/ RequestFails
    \/ \E e \in Events : RequestRecord(e)
    \/ SweepBegin \/ SweepScan \/ SweepRead \/ SweepCommit \/ SweepFails
    \/ \E p \in People, accepted \in BOOLEAN : Mail(p, accepted)

Spec == Init /\ [][Next]_vars

-----------------------------------------------------------------------------
(***************************************************************************)
(* Properties                                                              *)
(***************************************************************************)
TypeOK ==
    /\ clock \in 0..MaxClock
    /\ holds \in [Alerts -> SUBSET Recipients]
    /\ rows \subseteq Row
    /\ marker \in [People -> 0..MaxClock]
    /\ changed \in [Alerts -> 0..MaxClock]

\* send_digests: a digest passes nothing over.  An alert stored for somebody under a
\* date their digests cover has been told to them, whatever the mail server refused and
\* wherever a sweep was lost.
NothingSkipped ==
    \A p \in People, r \in rows :
        /\ p \in Reach[r.to]
        /\ r.kept => p \in Reach[Everyone]
        /\ r.at <= marker[p]
        /\ r.at \notin gap[p]
        /\ <<r.alert, r.at>> \notin late
        => \E x \in told[p] : x.alert = r.alert /\ x.at >= r.at

\* What the sweep's own scan left in the feed: no request has added it since.
Left == sweep.left \cup sweep.add

\* digest_since, reconcile_plan: recorded digests tell nobody the same news twice.  A
\* date carried over to a new recipient is not news; a row of the same alert to the same
\* recipient is only if the condition has changed since the one told of was written.
NotToldAgain ==
    [][\A p \in sweep'.sent \ sweep.sent : \A x \in News(p) \cap Left, y \in told[p] :
          x.alert = y.alert =>
              /\ x.at # y.at
              /\ x.to = y.to => x.alert \in Alerts /\ changed[x.alert] >= y.at]_vars
=============================================================================
