-------------------------- MODULE AlertDigestsProofs --------------------------
(***************************************************************************)
(* Proofs about AlertDigests: its types, that no digest passes over an     *)
(* alert, and that none tells the same news twice.                         *)
(*                                                                         *)
(* NothingSkipped is not inductive: it says nothing of the rows a request  *)
(* or a sweep has written and not committed.  IInv adds that a new row is  *)
(* dated by its transaction and a kept one by a row everyone saw, that a   *)
(* sweep is later than every marker, and that the batch a sweep mails from *)
(* holds every row its date covers, but those committed since the read.    *)
(***************************************************************************)
EXTENDS AlertDigests, WellFoundedInduction, TLAPS

RequestType == [pc : {"idle", "open", "wrote"}, at : 0..MaxClock, beside : BOOLEAN,
                add : SUBSET Row, del : SUBSET Row]
SweepType == [pc : {"idle", "open", "scanned", "mailing"}, at : 0..MaxClock, now : 0..MaxClock,
              add : SUBSET Row, del : SUBSET Row, left : SUBSET Row, batch : SUBSET Row,
              todo : SUBSET People, sent : SUBSET People]

Typed ==
    /\ TypeOK
    /\ request \in RequestType
    /\ sweep \in SweepType
    /\ told \in [People -> SUBSET Row]
    /\ gap \in [People -> SUBSET Int]
    /\ request.pc # "idle" => request.at >= 1
    /\ sweep.pc # "idle" => sweep.at >= 1

\* Nobody's kept date is what everyone sees: a row for everyone has its own date.
OwnDates(written) == \A r \in written : r.to = Everyone => ~r.kept

\* What the digests of p have made of row r.
Told(p, r) ==
    /\ p \in Reach[r.to]
    /\ r.kept => p \in Reach[Everyone]
    /\ r.at <= marker[p]
    /\ r.at \notin gap[p]
    /\ <<r.alert, r.at>> \notin late
    => \E x \in told[p] : x.alert = r.alert /\ x.at >= r.at

Dates ==
    /\ request.at <= clock
    /\ sweep.at <= clock
    /\ \A p \in People : marker[p] <= clock
    /\ sweep.pc # "idle" => \A p \in People : marker[p] < sweep.at
    /\ \A r \in request.add : ~r.kept => r.at = request.at

Overlaps == sweep # NoSweep => request.beside \/ request = Idle

Batched ==
    sweep.pc = "mailing" =>
        \A r \in (rows \ sweep.del) \cup sweep.add :
            r.at <= sweep.at /\ <<r.alert, r.at>> \notin late => r \in sweep.batch

IInv ==
    /\ Typed
    /\ OwnDates(rows) /\ OwnDates(request.add) /\ OwnDates(sweep.add)
    /\ \A p \in People, r \in rows \cup sweep.add : Told(p, r)
    /\ ~request.beside => \A p \in People, r \in request.add : r.kept => Told(p, r)
    /\ Dates
    /\ Overlaps
    /\ Batched

-----------------------------------------------------------------------------
(***************************************************************************)
(* What a scan writes                                                      *)
(***************************************************************************)
\* A new row is dated by its transaction, or as a stored row that everyone saw.
LEMMA NewRows ==
    ASSUME NEW stored \in SUBSET Row, NEW at \in Instants, NEW x \in ToCreate(stored, at)
    PROVE  /\ x \in Row
           /\ ~x.kept => x.at = at
           /\ x.to = Everyone => ~x.kept
           /\ x.kept => \E s \in stored : s.alert = x.alert /\ s.to = Everyone /\ s.at = x.at
<1>1. PICK key \in Alerts \X Recipients : x = NewRow(stored, key[1], key[2], at)
  BY DEF ToCreate, Missing
<1>2. key[1] \in Alerts /\ key[2] \in Recipients
  OBVIOUS
<1> DEFINE shown == IF key[2] = Everyone THEN {} ELSE Shown(stored, key[1])
<1> DEFINE seen == CHOOSE r \in shown : TRUE
<1>3. x = [alert |-> key[1], to |-> key[2], kept |-> shown # {},
           at |-> IF shown = {} THEN at ELSE seen.at]
  BY <1>1 DEF NewRow
<1>4. \A r \in shown : r \in stored /\ r.alert = key[1] /\ r.to = Everyone
  BY DEF Shown, Distinct
<1>5. shown # {} => seen \in shown
  OBVIOUS
<1>6. key[2] = Everyone => shown = {}
  OBVIOUS
<1> HIDE DEF shown, seen
<1>7. CASE shown = {}
  BY <1>2, <1>3, <1>7 DEF Row
<1>8. CASE shown # {}
  <2>1. seen \in stored /\ seen.alert = key[1] /\ seen.to = Everyone
    BY <1>4, <1>5, <1>8
  <2>2. seen.at \in Instants
    BY <2>1 DEF Row
  <2>3. x.alert = key[1] /\ x.to = key[2] /\ x.kept = TRUE /\ x.at = seen.at
    BY <1>3, <1>8
  <2>4. x \in Row
    BY <1>2, <1>3, <1>8, <2>2 DEF Row
  <2> QED
    BY <1>6, <1>8, <2>1, <2>3, <2>4
<1> QED
  BY <1>7, <1>8

LEMMA EventRows ==
    ASSUME NEW e \in Events, NEW at \in Instants
    PROVE  EventRow(e, at) \in Row /\ ~EventRow(e, at).kept /\ EventRow(e, at).at = at
BY RecipientsAssumption DEF EventRow, Row

\* A scan stores rows of the register only, and drops none it had not read.
LEMMA Deleted ==
    ASSUME NEW stored \in SUBSET Row
    PROVE  ToDelete(stored) \in SUBSET Row
BY DEF ToDelete, Unfounded, Distinct

-----------------------------------------------------------------------------
(***************************************************************************)
(* Types                                                                   *)
(***************************************************************************)
LEMMA TypedInit == Init => Typed
<1> SUFFICES ASSUME Init PROVE Typed
  OBVIOUS
<1>1. TypeOK
  BY BoundsAssumption DEF Init, TypeOK, Never
<1>2. request \in RequestType
  BY BoundsAssumption DEF Init, Idle, RequestType, Never
<1>3. sweep \in SweepType
  BY BoundsAssumption DEF Init, NoSweep, SweepType, Never
<1> QED
  BY <1>1, <1>2, <1>3 DEF Init, Typed, Idle, NoSweep

LEMMA RequestTyped ==
    ASSUME Typed, RequestBegin \/ RequestScan \/ (\E e \in Events : RequestRecord(e))
                  \/ RequestCommit \/ RequestFails
    PROVE  Typed'
<1> USE BoundsAssumption DEF Typed
<1>1. CASE RequestBegin
  <2>1. clock' \in Instants /\ clock' = clock + 1
    BY <1>1 DEF RequestBegin, Instant, TypeOK, Instants
  <2>2. request' = [pc |-> "open", at |-> clock', beside |-> sweep # NoSweep,
                    add |-> {}, del |-> {}]
    BY <1>1, <2>1 DEF RequestBegin, Idle
  <2>3. request' \in RequestType /\ request'.at >= 1
    BY <2>1, <2>2 DEF RequestType, Instants
  <2> QED
    BY <1>1, <2>1, <2>3 DEF RequestBegin, TypeOK, Instants
<1>2. CASE RequestScan
  <2>1. request.at \in Instants
    BY <1>2 DEF RequestScan, RequestType, Instants
  <2>2. ToCreate(rows, request.at) \in SUBSET Row
    BY <2>1, NewRows DEF TypeOK
  <2>3. ToDelete(rows) \in SUBSET Row
    BY Deleted DEF TypeOK
  <2>4. request' \in RequestType /\ request'.at = request.at
    BY <1>2, <2>2, <2>3 DEF RequestScan, RequestType
  <2> QED
    BY <1>2, <2>1, <2>4 DEF RequestScan, TypeOK, Instants
<1>3. ASSUME NEW e \in Events, RequestRecord(e)
      PROVE  Typed'
  <2>0. request.at \in 0..MaxClock /\ request.pc = "open"
    BY <1>3 DEF RequestRecord, RequestType
  <2>1. request.at \in Instants
    BY <2>0 DEF Instants
  <2>2. EventRow(e, request.at) \in Row
    BY <2>1, EventRows
  <2>3. request' \in RequestType /\ request'.at = request.at
    BY <1>3, <2>2 DEF RequestRecord, RequestType
  <2> QED
    BY <1>3, <2>1, <2>3 DEF RequestRecord, TypeOK, Instants
<1>4. CASE RequestCommit
  <2>1. rows' \in SUBSET Row
    BY <1>4 DEF RequestCommit, RequestType, TypeOK
  <2>2. request' \in RequestType /\ request'.pc = "idle"
    BY <1>4 DEF RequestCommit, RequestType, Idle, Never
  <2> QED
    BY <1>4, <2>1, <2>2 DEF RequestCommit, TypeOK
<1>5. CASE RequestFails
  <2>1. request' \in RequestType /\ request'.pc = "idle"
    BY <1>5 DEF RequestFails, RequestType, Idle, Never
  <2> QED
    BY <1>5, <2>1 DEF RequestFails, TypeOK
<1> QED
  BY <1>1, <1>2, <1>3, <1>4, <1>5

LEMMA SinceInteger ==
    ASSUME Typed, NEW p \in People
    PROVE  Since(p) \in Int
BY BoundsAssumption DEF Typed, TypeOK, SweepType, Since, Later

LEMMA SweepTyped ==
    ASSUME Typed, SweepBegin \/ SweepScan \/ SweepRead \/ SweepCommit \/ SweepFails
                  \/ (\E p \in People, accepted \in BOOLEAN : Mail(p, accepted))
    PROVE  Typed'
<1> USE BoundsAssumption DEF Typed
<1>1. CASE SweepBegin
  <2>1. clock' \in Instants /\ clock' = clock + 1
    BY <1>1 DEF SweepBegin, Instant, TypeOK, Instants
  <2>2. sweep' = [pc |-> "open", at |-> clock', now |-> Never, add |-> {}, del |-> {},
                  left |-> {}, batch |-> {}, todo |-> {}, sent |-> {}]
    BY <1>1, <2>1 DEF SweepBegin, NoSweep
  <2>3. sweep' \in SweepType /\ sweep'.at >= 1
    BY <2>1, <2>2 DEF SweepType, Instants, Never
  <2>4. request' \in RequestType /\ request'.pc = request.pc /\ request'.at = request.at
    BY <1>1 DEF SweepBegin, RequestType
  <2> QED
    BY <1>1, <2>1, <2>3, <2>4 DEF SweepBegin, TypeOK, Instants
<1>2. CASE SweepScan
  <2>0. sweep.at \in 0..MaxClock /\ sweep.pc = "open"
    BY <1>2 DEF SweepScan, SweepType
  <2>1. sweep.at \in Instants
    BY <2>0 DEF Instants
  <2>2. ToDelete(rows) \in SUBSET Row
    BY Deleted DEF TypeOK
  <2>3. PICK lapsed \in SUBSET Events :
           sweep' = [sweep EXCEPT !.pc = "scanned", !.del = ToDelete(rows),
                        !.add = ToCreate(rows, sweep.at)
                                \cup {EventRow(e, sweep.at) : e \in lapsed},
                        !.left = rows \ ToDelete(rows)]
    BY <1>2 DEF SweepScan
  <2>4. ToCreate(rows, sweep.at) \cup {EventRow(e, sweep.at) : e \in lapsed} \in SUBSET Row
    BY <2>1, NewRows, EventRows DEF TypeOK
  <2>5. sweep' \in SweepType /\ sweep'.at = sweep.at
    BY <2>2, <2>3, <2>4 DEF SweepType, TypeOK
  <2> QED
    BY <1>2, <2>1, <2>5 DEF SweepScan, TypeOK, Instants
<1>3. CASE SweepRead
  <2>1. sweep' \in SweepType /\ sweep'.at = sweep.at
    BY <1>3 DEF SweepRead, SweepType, TypeOK
  <2> QED
    BY <1>3, <2>1 DEF SweepRead, TypeOK
<1>4. ASSUME NEW p \in People, NEW accepted \in BOOLEAN, Mail(p, accepted)
      PROVE  Typed'
  <2>1. sweep' \in SweepType /\ sweep'.at = sweep.at
    BY <1>4 DEF Mail, SweepType
  <2> QED
    BY <1>4, <2>1 DEF Mail, TypeOK
<1>5. CASE SweepCommit
  <2>1. rows' \in SUBSET Row
    BY <1>5 DEF SweepCommit, SweepType, TypeOK
  <2>2. marker' \in [People -> 0..MaxClock]
    BY <1>5 DEF SweepCommit, SweepType, TypeOK
  <2>3. told' \in [People -> SUBSET Row]
    BY <1>5 DEF SweepCommit, SweepType, News
  <2>4. gap' \in [People -> SUBSET Int]
    BY <1>5, SinceInteger DEF SweepCommit, TypeOK
  <2>5. sweep' \in SweepType /\ sweep'.pc = "idle"
    BY <1>5 DEF SweepCommit, SweepType, NoSweep, Never
  <2> QED
    BY <1>5, <2>1, <2>2, <2>3, <2>4, <2>5 DEF SweepCommit, TypeOK
<1>6. CASE SweepFails
  <2>1. sweep' \in SweepType /\ sweep'.pc = "idle"
    BY <1>6 DEF SweepFails, SweepType, NoSweep, Never
  <2> QED
    BY <1>6, <2>1 DEF SweepFails, TypeOK
<1> QED
  BY <1>1, <1>2, <1>3, <1>4, <1>5, <1>6

LEMMA TypedStep == Typed /\ [Next]_vars => Typed'
<1> SUFFICES ASSUME Typed, [Next]_vars PROVE Typed'
  OBVIOUS
<1>1. ASSUME NEW c \in Alerts, NEW to \in Addressings, Change(c, to)
      PROVE  Typed'
  <2>1. clock' \in 0..MaxClock /\ clock + 1 \in 0..MaxClock
    BY <1>1, BoundsAssumption DEF Change, Instant, Typed, TypeOK
  <2>2. holds' \in [Alerts -> SUBSET Recipients]
    BY <1>1, RecipientsAssumption DEF Change, Typed, TypeOK
  <2>3. changed' \in [Alerts -> 0..MaxClock]
    BY <1>1, <2>1 DEF Change, Typed, TypeOK
  <2> QED
    BY <1>1, <2>1, <2>2, <2>3 DEF Change, Typed, TypeOK
<1>2. CASE Wait
  BY <1>2, BoundsAssumption DEF Wait, Instant, Typed, TypeOK
<1>3. CASE UNCHANGED vars
  BY <1>3 DEF vars, Typed, TypeOK
<1> QED
  BY <1>1, <1>2, <1>3, RequestTyped, SweepTyped DEF Next

\* The variables keep their types: every row and every marker is dated by an instant
\* that has begun.
THEOREM TypeCorrect == Spec => []TypeOK
<1>1. Typed => TypeOK
  BY DEF Typed
<1> QED
  BY TypedInit, TypedStep, <1>1, PTL DEF Spec

-----------------------------------------------------------------------------
(***************************************************************************)
(* Nothing is skipped                                                      *)
(***************************************************************************)
Quiet == marker' = marker /\ told' = told /\ gap' = gap /\ late \subseteq late'

\* Until a digest is recorded, what was told of a row stays told.
LEMMA ToldStays ==
    ASSUME Quiet, NEW p, NEW r, Told(p, r)
    PROVE  Told(p, r)'
BY DEF Quiet, Told

LEMMA IInvInit == Init => IInv
<1> SUFFICES ASSUME Init PROVE IInv
  OBVIOUS
<1>1. Typed
  BY TypedInit
<1>2. rows = {} /\ request = Idle /\ sweep = NoSweep /\ clock = 0
  BY DEF Init
<1>3. request.add = {} /\ sweep.add = {} /\ sweep.pc = "idle"
  BY <1>2 DEF Idle, NoSweep
<1>4. OwnDates(rows) /\ OwnDates(request.add) /\ OwnDates(sweep.add)
  BY <1>2, <1>3 DEF OwnDates
<1>5. Dates
  BY <1>2, <1>3 DEF Dates, Init, Idle, NoSweep, Never
<1>6. Overlaps /\ Batched
  BY <1>2, <1>3 DEF Overlaps, Batched
<1> QED
  BY <1>1, <1>2, <1>3, <1>4, <1>5, <1>6 DEF IInv

\* What passes outside the scans and the digests.
LEMMA OthersStep ==
    ASSUME IInv, Typed', UNCHANGED <<rows, marker, told, gap, late, request, sweep>>,
           clock' >= clock
    PROVE  IInv'
<1>1. Quiet
  BY DEF Quiet
<1>2. OwnDates(rows)' /\ OwnDates(request.add)' /\ OwnDates(sweep.add)'
  BY DEF IInv, OwnDates
<1>3. (\A p \in People, r \in rows \cup sweep.add : Told(p, r))'
  BY <1>1, ToldStays DEF IInv
<1>4. (~request.beside => \A p \in People, r \in request.add : r.kept => Told(p, r))'
  BY <1>1, ToldStays DEF IInv
<1>5. Dates'
  BY DEF IInv, Typed, TypeOK, RequestType, SweepType, Dates
<1>6. Overlaps' /\ Batched'
  BY DEF IInv, Overlaps, Batched
<1> QED
  BY <1>2, <1>3, <1>4, <1>5, <1>6 DEF IInv

\* A request that has not begun to write leaves the rows and the sweep alone.
LEMMA RequestBeginStep ==
    ASSUME IInv, Typed', RequestBegin \/ RequestFails
    PROVE  IInv'
<1>1. Quiet /\ rows' = rows /\ sweep' = sweep /\ late' = late
  BY DEF RequestBegin, RequestFails, Quiet
<1>2. request'.add = {} /\ (request' = Idle \/ request'.beside = (sweep # NoSweep))
      /\ request'.at <= clock' /\ clock' >= clock
  <2>1. CASE RequestBegin
    <3>1. clock' = clock + 1 /\ clock \in Int
      BY <2>1 DEF RequestBegin, Instant, IInv, Typed, TypeOK
    <3>2. request' = [pc |-> "open", at |-> clock + 1, beside |-> sweep # NoSweep,
                      add |-> {}, del |-> {}]
      BY <2>1 DEF RequestBegin, Idle
    <3>3. request'.add = {} /\ request'.at = clock + 1
      BY <3>2
    <3>4. request'.beside = (sweep # NoSweep)
      BY <3>2
    <3> QED
      BY <3>1, <3>3, <3>4
  <2>2. CASE RequestFails
    BY <2>2 DEF RequestFails, Idle, Never, IInv, Typed, TypeOK
  <2> QED
    BY <2>1, <2>2
<1>3. OwnDates(rows)' /\ OwnDates(request.add)' /\ OwnDates(sweep.add)'
  BY <1>1, <1>2 DEF IInv, OwnDates
<1>4. (\A p \in People, r \in rows \cup sweep.add : Told(p, r))'
  BY <1>1, ToldStays DEF IInv
<1>5. Dates'
  BY <1>1, <1>2 DEF IInv, Typed, TypeOK, SweepType, Dates, Quiet
<1>6. Overlaps' /\ Batched'
  BY <1>1, <1>2 DEF IInv, Overlaps, Batched
<1> QED
  BY <1>2, <1>3, <1>4, <1>5, <1>6 DEF IInv

\* A row dated as one that everyone saw was told to those who could see that one.
LEMMA KeptTold ==
    ASSUME IInv, NEW p \in People, NEW x, x.kept, NEW s \in rows,
           s.alert = x.alert, s.to = Everyone, s.at = x.at
    PROVE  Told(p, x)
<1>1. Told(p, s) /\ ~s.kept
  BY DEF IInv, OwnDates
<1> QED
  BY <1>1 DEF Told

LEMMA RequestWritesStep ==
    ASSUME IInv, Typed', RequestScan \/ (\E e \in Events : RequestRecord(e))
    PROVE  IInv'
<1>0. request \in RequestType /\ request.pc = "open"
  BY DEF IInv, Typed, RequestScan, RequestRecord
<1>1. Quiet /\ rows' = rows /\ sweep' = sweep /\ late' = late /\ clock' = clock
  BY DEF RequestScan, RequestRecord, Quiet
<1>2. request'.at = request.at /\ request'.beside = request.beside /\ request' # Idle
  <2>1. CASE RequestScan
    BY <1>0, <2>1 DEF RequestScan, RequestType, Idle
  <2>2. ASSUME NEW e \in Events, RequestRecord(e)
        PROVE  /\ request'.at = request.at
               /\ request'.beside = request.beside
               /\ request'.pc = "wrote"
    BY <1>0, <2>2 DEF RequestRecord, RequestType
  <2> QED
    BY <2>1, <2>2 DEF Idle
<1>3. \A x \in request'.add : /\ ~x.kept => x.at = request.at
                              /\ x.to = Everyone => ~x.kept
                              /\ x.kept => \E s \in rows : /\ s.alert = x.alert
                                                           /\ s.to = Everyone
                                                           /\ s.at = x.at
  <2>1. request.at \in Instants
    <3>1. request.at \in 0..MaxClock /\ request.at >= 1
      BY <1>0 DEF RequestType, IInv, Typed
    <3> QED
      BY <3>1 DEF Instants
  <2>2. CASE RequestScan
    <3>1. request'.add = ToCreate(rows, request.at)
      BY <1>0, <2>2 DEF RequestScan, RequestType
    <3>2. rows \in SUBSET Row
      BY DEF IInv, Typed, TypeOK
    <3> QED
      BY <2>1, <3>1, <3>2, NewRows
  <2>3. ASSUME NEW e \in Events, RequestRecord(e)
        PROVE  \A x \in request'.add : ~x.kept /\ x.at = request.at
    <3>1. request'.add = {EventRow(e, request.at)}
      BY <1>0, <2>3 DEF RequestRecord, RequestType
    <3> QED
      BY <2>1, <3>1, EventRows
  <2> QED
    BY <2>2, <2>3
<1>4. OwnDates(rows)' /\ OwnDates(request.add)' /\ OwnDates(sweep.add)'
  BY <1>1, <1>3 DEF IInv, OwnDates
<1>5. (\A p \in People, r \in rows \cup sweep.add : Told(p, r))'
  BY <1>1, ToldStays DEF IInv
<1>6. ASSUME NEW p \in People, NEW x \in request'.add, x.kept
      PROVE  Told(p, x)'
  BY <1>1, <1>3, <1>6, KeptTold, ToldStays
<1>7. Dates'
  BY <1>1, <1>2, <1>3 DEF IInv, Dates, Quiet
<1>8. Overlaps' /\ Batched'
  <2>1. request # Idle
    BY <1>0 DEF Idle
  <2> QED
    BY <1>1, <1>2, <2>1 DEF IInv, Overlaps, Batched
<1> QED
  BY <1>4, <1>5, <1>6, <1>7, <1>8 DEF IInv

\* What a request commits under a date the digests have passed is in late.
LEMMA RequestCommitStep ==
    ASSUME IInv, Typed', RequestCommit
    PROVE  IInv'
<1>0. request \in RequestType /\ sweep \in SweepType /\ request.pc = "wrote" /\ request # Idle
  BY DEF IInv, Typed, RequestCommit, Idle
<1>1. Quiet /\ sweep' = sweep /\ clock' = clock /\ request' = Idle
      /\ rows' = (rows \ request.del) \cup request.add
      /\ late' = late \cup {<<r.alert, r.at>> : r \in Missed}
  BY DEF RequestCommit, Quiet
<1>2. request'.add = {} /\ request'.at = 0
  BY <1>1 DEF Idle, Never
<1>3. OwnDates(rows)' /\ OwnDates(request.add)' /\ OwnDates(sweep.add)'
  BY <1>1, <1>2 DEF IInv, OwnDates
<1>4. ASSUME NEW p \in People, NEW r \in request.add
      PROVE  Told(p, r)'
  <2>1. CASE r \in Missed
    BY <1>1, <2>1 DEF Told
  <2>2. CASE r \notin Missed /\ r.kept
    <3>1. ~request.beside
      BY <1>4, <2>2 DEF Missed
    <3>2. Told(p, r)
      BY <1>4, <2>2, <3>1 DEF IInv
    <3> QED
      BY <1>1, <3>2, ToldStays
  <2>3. CASE r \notin Missed /\ ~r.kept
    <3>1. ~Passed
      BY <1>4, <2>3 DEF Missed
    <3>2. r.at = request.at /\ ~(marker[p] >= request.at)
      BY <1>4, <2>3, <3>1 DEF IInv, Dates, Passed
    <3>3. ~(r.at <= marker[p])
      BY <1>0, <3>2 DEF RequestType, IInv, Typed, TypeOK
    <3> QED
      BY <1>1, <3>3 DEF Told, Quiet
  <2> QED
    BY <2>1, <2>2, <2>3
<1>5. (\A p \in People, r \in rows \cup sweep.add : Told(p, r))'
  BY <1>1, <1>4, ToldStays DEF IInv
<1>6. Dates'
  BY <1>1, <1>2 DEF IInv, Typed, TypeOK, Dates, Quiet
<1>7. Overlaps'
  BY <1>1 DEF Overlaps
<1>8. Batched'
  <2> SUFFICES ASSUME sweep.pc = "mailing", NEW r \in (rows' \ sweep.del) \cup sweep.add,
                      r.at <= sweep.at, <<r.alert, r.at>> \notin late'
               PROVE  r \in sweep.batch
    BY <1>1 DEF Batched
  <2>1. r \in (rows \ sweep.del) \cup sweep.add => r \in sweep.batch
    BY <1>1 DEF IInv, Batched
  <2>2. CASE r \in request.add
    <3>1. r \notin Missed
      BY <1>1
    <3>2. request.beside
      BY <1>0 DEF IInv, Overlaps, NoSweep
    <3>3. ~r.kept /\ ~Passed
      BY <2>2, <3>1, <3>2 DEF Missed
    <3>4. r.at = request.at /\ ~(sweep.at >= request.at)
      BY <2>2, <3>3 DEF IInv, Dates, Passed
    <3> QED
      BY <1>0, <3>4 DEF RequestType, SweepType
  <2> QED
    BY <1>1, <2>1, <2>2
<1> QED
  BY <1>2, <1>3, <1>5, <1>6, <1>7, <1>8 DEF IInv

LEMMA SweepBeginStep ==
    ASSUME IInv, Typed', SweepBegin
    PROVE  IInv'
<1>0. request \in RequestType /\ clock \in Int /\ sweep = NoSweep
  BY DEF IInv, Typed, TypeOK, SweepBegin
<1>1. Quiet /\ rows' = rows /\ late' = late /\ clock' = clock + 1
  BY DEF SweepBegin, Instant, Quiet
<1>2. sweep'.pc = "open" /\ sweep'.at = clock + 1 /\ sweep'.add = {}
  BY DEF SweepBegin, NoSweep
<1>3. request'.add = request.add /\ request'.at = request.at
      /\ request'.beside = (request # Idle)
  BY <1>0 DEF SweepBegin, RequestType
<1>4. OwnDates(rows)' /\ OwnDates(request.add)' /\ OwnDates(sweep.add)'
  BY <1>1, <1>2, <1>3 DEF IInv, OwnDates
<1>5. (\A p \in People, r \in rows \cup sweep.add : Told(p, r))'
  BY <1>1, <1>2, ToldStays DEF IInv
<1>6. (~request.beside => \A p \in People, r \in request.add : r.kept => Told(p, r))'
  <2>1. CASE request = Idle
    BY <1>3, <2>1 DEF Idle
  <2>2. CASE request # Idle
    <3>1. request'.beside = TRUE
      BY <1>3, <2>2
    <3> QED
      BY <3>1
  <2> QED
    BY <2>1, <2>2
<1>7. Dates'
  <2>1. \A p \in People : marker'[p] <= clock /\ marker'[p] \in Int
    BY <1>1 DEF IInv, Typed, TypeOK, Dates, Quiet
  <2>2. request'.at <= clock /\ request'.at \in Int
    BY <1>0, <1>3 DEF IInv, Dates, RequestType
  <2>3. \A r \in request'.add : ~r.kept => r.at = request'.at
    BY <1>3 DEF IInv, Dates
  <2> QED
    BY <1>0, <1>1, <1>2, <2>1, <2>2, <2>3 DEF Dates
<1>8. Overlaps'
  <2>1. CASE request = Idle
    <3>1. request' = [request EXCEPT !.beside = FALSE]
      BY <2>1 DEF SweepBegin
    <3>2. request' = Idle
      BY <2>1, <3>1 DEF Idle
    <3> QED
      BY <3>2 DEF Overlaps
  <2>2. CASE request # Idle
    <3>1. request'.beside = TRUE
      BY <1>3, <2>2
    <3> QED
      BY <3>1 DEF Overlaps
  <2> QED
    BY <2>1, <2>2
<1>9. Batched'
  BY <1>2 DEF Batched
<1> QED
  BY <1>4, <1>5, <1>6, <1>7, <1>8, <1>9 DEF IInv

LEMMA SweepScanStep ==
    ASSUME IInv, Typed', SweepScan
    PROVE  IInv'
<1>0. sweep \in SweepType /\ sweep.pc = "open" /\ rows \in SUBSET Row
  BY DEF IInv, Typed, TypeOK, SweepScan
<1>1. Quiet /\ rows' = rows /\ late' = late /\ clock' = clock /\ request' = request
  BY DEF SweepScan, Quiet
<1>2. PICK lapsed \in SUBSET Events :
         sweep' = [sweep EXCEPT !.pc = "scanned", !.del = ToDelete(rows),
                      !.add = ToCreate(rows, sweep.at)
                              \cup {EventRow(e, sweep.at) : e \in lapsed},
                      !.left = rows \ ToDelete(rows)]
  BY DEF SweepScan
<1>3. sweep'.pc = "scanned" /\ sweep'.at = sweep.at
      /\ sweep'.add = ToCreate(rows, sweep.at) \cup {EventRow(e, sweep.at) : e \in lapsed}
  BY <1>0, <1>2 DEF SweepType
<1>4. sweep.at \in Instants
  <2>1. sweep.at \in 0..MaxClock /\ sweep.at >= 1
    BY <1>0 DEF SweepType, IInv, Typed
  <2> QED
    BY <2>1 DEF Instants
<1>5. \A x \in sweep'.add : /\ ~x.kept => x.at = sweep.at
                            /\ x.to = Everyone => ~x.kept
                            /\ x.kept => \E s \in rows : /\ s.alert = x.alert
                                                         /\ s.to = Everyone
                                                         /\ s.at = x.at
  <2>1. \A x \in ToCreate(rows, sweep.at) :
            /\ ~x.kept => x.at = sweep.at
            /\ x.to = Everyone => ~x.kept
            /\ x.kept => \E s \in rows : s.alert = x.alert /\ s.to = Everyone /\ s.at = x.at
    BY <1>0, <1>4, NewRows
  <2>2. \A e \in lapsed : ~EventRow(e, sweep.at).kept /\ EventRow(e, sweep.at).at = sweep.at
    BY <1>4, EventRows
  <2> QED
    BY <1>3, <2>1, <2>2
<1>6. OwnDates(rows)' /\ OwnDates(request.add)' /\ OwnDates(sweep.add)'
  BY <1>1, <1>5 DEF IInv, OwnDates
<1>7. ASSUME NEW p \in People, NEW x \in sweep'.add
      PROVE  Told(p, x)'
  <2>1. CASE x.kept
    BY <1>1, <1>5, <2>1, KeptTold, ToldStays
  <2>2. CASE ~x.kept
    <3>1. x.at = sweep.at /\ marker[p] < sweep.at
      BY <1>0, <1>5, <2>2 DEF IInv, Dates
    <3>2. ~(x.at <= marker[p])
      BY <1>0, <3>1 DEF SweepType, IInv, Typed, TypeOK
    <3> QED
      BY <1>1, <3>2 DEF Told, Quiet
  <2> QED
    BY <2>1, <2>2
<1>8. (\A p \in People, r \in rows \cup sweep.add : Told(p, r))'
  BY <1>1, <1>7, ToldStays DEF IInv
<1>9. (~request.beside => \A p \in People, r \in request.add : r.kept => Told(p, r))'
  BY <1>1, ToldStays DEF IInv
<1>10. Dates'
  BY <1>0, <1>1, <1>3 DEF IInv, Dates, Quiet
<1>11. Overlaps' /\ Batched'
  <2>1. sweep # NoSweep
    BY <1>0 DEF NoSweep
  <2> QED
    BY <1>1, <1>3, <2>1 DEF IInv, Overlaps, Batched
<1> QED
  BY <1>6, <1>8, <1>9, <1>10, <1>11 DEF IInv

\* The batch is read, and the mails go out, without a change to what is stored.
LEMMA SweepMailsStep ==
    ASSUME IInv, Typed', SweepRead \/ (\E p \in People, accepted \in BOOLEAN : Mail(p, accepted))
    PROVE  IInv'
<1>0. sweep \in SweepType /\ sweep.pc # "idle"
  BY DEF IInv, Typed, SweepRead, Mail
<1>1. Quiet /\ rows' = rows /\ late' = late /\ clock' = clock /\ request' = request
  BY DEF SweepRead, Mail, Quiet
<1>2. sweep'.add = sweep.add /\ sweep'.del = sweep.del /\ sweep'.at = sweep.at
      /\ \/ sweep'.batch = (rows \ sweep.del) \cup sweep.add
         \/ (sweep'.batch = sweep.batch) /\ (sweep.pc = "mailing")
  <2>1. CASE SweepRead
    BY <1>0, <2>1 DEF SweepRead, SweepType
  <2>2. ASSUME NEW p \in People, NEW accepted \in BOOLEAN, Mail(p, accepted)
        PROVE  /\ sweep'.add = sweep.add /\ sweep'.del = sweep.del /\ sweep'.at = sweep.at
               /\ sweep'.batch = sweep.batch /\ sweep.pc = "mailing"
    BY <1>0, <2>2 DEF Mail, SweepType
  <2> QED
    BY <2>1, <2>2
<1>3. OwnDates(rows)' /\ OwnDates(request.add)' /\ OwnDates(sweep.add)'
  BY <1>1, <1>2 DEF IInv, OwnDates
<1>4. (\A p \in People, r \in rows \cup sweep.add : Told(p, r))'
  BY <1>1, <1>2, ToldStays DEF IInv
<1>5. (~request.beside => \A p \in People, r \in request.add : r.kept => Told(p, r))'
  BY <1>1, ToldStays DEF IInv
<1>6. Dates'
  BY <1>0, <1>1, <1>2 DEF IInv, Dates, Quiet
<1>7. Overlaps'
  <2>1. sweep # NoSweep
    BY <1>0 DEF NoSweep
  <2> QED
    BY <1>1, <2>1 DEF IInv, Overlaps
<1>8. Batched'
  BY <1>1, <1>2 DEF IInv, Batched
<1> QED
  BY <1>3, <1>4, <1>5, <1>6, <1>7, <1>8 DEF IInv

LEMMA SweepFailsStep ==
    ASSUME IInv, Typed', SweepFails
    PROVE  IInv'
<1>1. Quiet /\ rows' = rows /\ late' = late /\ clock' = clock /\ request' = request
  BY DEF SweepFails, Quiet
<1>2. sweep' = NoSweep /\ sweep'.add = {} /\ sweep'.pc = "idle" /\ sweep'.at = 0
  BY DEF SweepFails, NoSweep, Never
<1>3. OwnDates(rows)' /\ OwnDates(request.add)' /\ OwnDates(sweep.add)'
  BY <1>1, <1>2 DEF IInv, OwnDates
<1>4. (\A p \in People, r \in rows \cup sweep.add : Told(p, r))'
  BY <1>1, <1>2, ToldStays DEF IInv
<1>5. (~request.beside => \A p \in People, r \in request.add : r.kept => Told(p, r))'
  BY <1>1, ToldStays DEF IInv
<1>6. Dates'
  BY <1>1, <1>2 DEF IInv, Typed, TypeOK, Dates, Quiet
<1>7. Overlaps' /\ Batched'
  BY <1>2 DEF Overlaps, Batched
<1> QED
  BY <1>3, <1>4, <1>5, <1>6, <1>7 DEF IInv

\* A recorded digest covers up to its sweep's date what it reached back to, and what
\* lies between the digest before it and that reach is in gap.
LEMMA SweepCommitStep ==
    ASSUME IInv, Typed', SweepCommit
    PROVE  IInv'
<1>0. sweep \in SweepType /\ request \in RequestType /\ sweep.pc = "mailing"
      /\ sweep # NoSweep /\ Typed
  BY DEF IInv, Typed, SweepCommit, NoSweep
<1>1. rows' = (rows \ sweep.del) \cup sweep.add /\ sweep' = NoSweep /\ late' = late
      /\ clock' = clock /\ request' = request
  BY DEF SweepCommit
<1>2. sweep'.add = {} /\ sweep'.pc = "idle" /\ sweep'.at = 0
  BY <1>1 DEF NoSweep, Never
<1>3. OwnDates(rows)' /\ OwnDates(request.add)' /\ OwnDates(sweep.add)'
  BY <1>1, <1>2 DEF IInv, OwnDates
<1>4. ASSUME NEW p \in People, NEW r \in rows'
      PROVE  Told(p, r)'
  <2>0. Told(p, r)
    BY <1>1, <1>4 DEF IInv
  <2>1. r \in Row /\ r.at \in Int
    <3>1. r \in Row
      BY <1>4 DEF Typed, TypeOK
    <3> QED
      BY <3>1 DEF Row, Instants
  <2>2. CASE p \notin sweep.sent
    <3>1. marker'[p] = marker[p]
      BY <2>2 DEF SweepCommit, Marked
    <3>2. told[p] \subseteq told'[p] /\ gap[p] \subseteq gap'[p]
      BY DEF SweepCommit
    <3> QED
      BY <1>1, <2>0, <3>1, <3>2 DEF Told
  <2>3. CASE p \in sweep.sent
    <3>1. marker'[p] = sweep.at
      BY <2>3 DEF SweepCommit, Marked
    <3>2. told'[p] = told[p] \cup {x \in News(p) : x.at <= sweep.at}
      BY <2>3 DEF SweepCommit
    <3>3. gap'[p] = gap[p] \cup ((marker[p] + 1)..Since(p))
      BY <2>3 DEF SweepCommit
    <3> SUFFICES ASSUME p \in Reach[r.to], r.kept => p \in Reach[Everyone],
                        r.at <= sweep.at, r.at \notin gap'[p],
                        <<r.alert, r.at>> \notin late
                 PROVE  \E x \in told'[p] : x.alert = r.alert /\ x.at >= r.at
      BY <1>1, <3>1 DEF Told
    <3>4. CASE r.at <= marker[p]
      BY <2>0, <3>2, <3>3, <3>4 DEF Told
    <3>5. CASE ~(r.at <= marker[p])
      <4>1. marker[p] \in Int /\ Since(p) \in Int
        BY <1>0, SinceInteger DEF Typed, TypeOK
      <4>2. r.at > Since(p)
        BY <2>1, <3>3, <3>5, <4>1
      <4>3. r \in sweep.batch
        BY <1>0, <1>1, <1>4 DEF IInv, Batched
      <4>4. r \in News(p)
        BY <4>2, <4>3 DEF News
      <4>5. r \in told'[p]
        BY <3>2, <4>4
      <4> QED
        BY <2>1, <4>5
    <3> QED
      BY <3>4, <3>5
  <2> QED
    BY <2>2, <2>3
<1>5. (\A p \in People, r \in rows \cup sweep.add : Told(p, r))'
  BY <1>2, <1>4
<1>6. (~request.beside => \A p \in People, r \in request.add : r.kept => Told(p, r))'
  BY <1>0, <1>1 DEF IInv, Overlaps, Idle
<1>7. Dates'
  <2>1. \A p \in People : marker'[p] <= clock'
    BY <1>0, <1>1 DEF SweepCommit, IInv, Typed, TypeOK, Dates
  <2>2. sweep'.at <= clock'
    BY <1>1, <1>2 DEF IInv, Typed, TypeOK
  <2> QED
    BY <1>1, <1>2, <2>1, <2>2 DEF IInv, Dates
<1>8. Overlaps' /\ Batched'
  BY <1>1, <1>2 DEF Overlaps, Batched
<1> QED
  BY <1>3, <1>5, <1>6, <1>7, <1>8 DEF IInv

LEMMA IInvStep == IInv /\ [Next]_vars => IInv'
<1> SUFFICES ASSUME IInv, [Next]_vars PROVE IInv'
  OBVIOUS
<1>0. Typed'
  BY TypedStep DEF IInv
<1>1. ASSUME NEW c \in Alerts, NEW to \in Addressings, Change(c, to)
      PROVE  IInv'
  <2>1. UNCHANGED <<rows, marker, told, gap, late, request, sweep>> /\ clock' >= clock
    BY <1>1 DEF Change, Instant, IInv, Typed, TypeOK
  <2> QED
    BY <1>0, <2>1, OthersStep
<1>2. CASE Wait \/ UNCHANGED vars
  <2>1. UNCHANGED <<rows, marker, told, gap, late, request, sweep>> /\ clock' >= clock
    BY <1>2 DEF Wait, Instant, vars, IInv, Typed, TypeOK
  <2> QED
    BY <1>0, <2>1, OthersStep
<1>3. CASE RequestBegin \/ RequestFails
  BY <1>0, <1>3, RequestBeginStep
<1>4. CASE RequestScan \/ \E e \in Events : RequestRecord(e)
  BY <1>0, <1>4, RequestWritesStep
<1>5. CASE RequestCommit
  BY <1>0, <1>5, RequestCommitStep
<1>6. CASE SweepBegin
  BY <1>0, <1>6, SweepBeginStep
<1>7. CASE SweepScan
  BY <1>0, <1>7, SweepScanStep
<1>8. CASE SweepRead \/ \E p \in People, accepted \in BOOLEAN : Mail(p, accepted)
  BY <1>0, <1>8, SweepMailsStep
<1>9. CASE SweepCommit
  BY <1>0, <1>9, SweepCommitStep
<1>10. CASE SweepFails
  BY <1>0, <1>10, SweepFailsStep
<1> QED
  BY <1>1, <1>2, <1>3, <1>4, <1>5, <1>6, <1>7, <1>8, <1>9, <1>10 DEF Next

\* send_digests: however requests and sweeps run beside each other, whatever the mail
\* server refuses and wherever a sweep is lost, an alert stored for somebody under a
\* date their digests cover was in one of them, but for those that late and gap name.
THEOREM DigestsSkipNothing == Spec => []NothingSkipped
<1>1. IInv => NothingSkipped
  BY DEF IInv, Told, NothingSkipped
<1> QED
  BY IInvInit, IInvStep, <1>1, PTL DEF Spec

-----------------------------------------------------------------------------
(***************************************************************************)
(* Nothing is told again                                                   *)
(*                                                                         *)
(* NotToldAgain speaks of rows that are gone: what was told may have been  *)
(* deleted since.  NewsInv follows every row there has been in a feed, a   *)
(* digest or an open transaction: it stands, or a row for the same         *)
(* recipient that is as old does, unless its condition has changed since.  *)
(* A deletion that is not committed yet leaves such a row behind too.      *)
(***************************************************************************)
AllTold == UNION {told[p] : p \in People}

\* Every row somebody holds, and those that are or have been in the feed.
Known == rows \cup request.add \cup request.del \cup sweep.add \cup sweep.del
              \cup sweep.batch \cup AllTold
Stored == rows \cup request.del \cup sweep.del \cup (sweep.batch \ sweep.add) \cup AllTold

\* The condition of row y has changed since y was dated.
ChangedSince(y) == changed[y.alert] >= y.at

\* A row was founded on its condition when it was written.
Founded ==
    \A y \in Known : /\ y.at <= clock
                     /\ y.alert \in Alerts => y.to \in holds[y.alert] \/ ChangedSince(y)

Anchored ==
    \A y \in Stored : y.alert \in Alerts =>
        ChangedSince(y) \/ \E z \in rows : Twins(z, y) /\ z.at <= y.at

\* A scan deletes a row of a condition that has changed, or one that has an older twin.
Outlived(del) ==
    \A w \in del \cap rows, y \in Known :
        Twins(w, y) /\ w.at <= y.at => ChangedSince(y) \/ \E z \in rows : Twins(z, w) /\ z.at < w.at

\* What one scan creates and deletes.
Apart(add, del) ==
    /\ \A w \in del : w.alert \in Alerts
    /\ \A w \in del, y \in add : ~Twins(w, y)
    /\ \A y, z \in add : y.alert \in Alerts /\ Twins(y, z) => y = z

\* A row one scan deletes and another writes anew.
Again(add, del) == \A w \in add \cap del : w \in rows \/ \A z \in rows : ~Twins(z, w)

\* An event is recorded once and stays.
EventsOnce ==
    /\ \A r, s \in rows \cup request.add \cup sweep.add :
          r.alert \in Events /\ r.alert = s.alert => r = s
    /\ \A r \in sweep.batch \cup sweep.left : r.alert \in Events => r \in rows \cup sweep.add
    /\ \A r \in AllTold : r.alert \in Events => r \in rows

\* What the sweep's scan left in the feed after what was told is of changed conditions.
LeftIsNews ==
    \A y \in AllTold, x \in Left :
        y.alert \in Alerts /\ Twins(x, y) /\ y.at < x.at => ChangedSince(y)

\* Nothing is held before the scan, and nobody was told of what their marker does not cover.
Opened ==
    /\ request.pc # "wrote" => request.add = {} /\ request.del = {}
    /\ sweep.pc \in {"idle", "open"} =>
          sweep.add = {} /\ sweep.del = {} /\ sweep.left = {} /\ sweep.batch = {}
    /\ \A p \in People : \A y \in told[p] : y.at <= marker[p]

NewsInv ==
    /\ Founded
    /\ Anchored
    /\ Outlived(request.del) /\ Outlived(sweep.del)
    /\ Apart(request.add, request.del) /\ Apart(sweep.add, sweep.del)
    /\ Again(request.add, sweep.del) /\ Again(sweep.add, request.del)
    /\ EventsOnce
    /\ LeftIsNews
    /\ Opened

\* A set of numbers that is not empty has a least one.
LEMMA LeastNumber ==
    ASSUME NEW S \in SUBSET Nat, S # {}
    PROVE  \E n \in S : \A m \in S : n <= m
<1> DEFINE Less == OpToRel(<, Nat)
<1>1. IsWellFoundedOn(Less, Nat)
  BY NatLessThanWellFounded
<1>2. PICK n \in S : \A m \in S : ~ (<<m, n>> \in Less)
  <2> HIDE DEF Less
  <2> QED
    BY <1>1, WFMin
<1>3. \A m \in S : ~ (m < n)
  BY <1>2 DEF OpToRel
<1> QED
  BY <1>3

LEMMA KnownRows ==
    ASSUME Typed
    PROVE  Known \subseteq Row /\ Stored \subseteq Known /\ \A y \in Known : y.at \in Nat
<1>1. Known \subseteq Row
  BY DEF Typed, TypeOK, RequestType, SweepType, Known, AllTold
<1>2. \A y \in Row : y.at \in Nat
  BY BoundsAssumption DEF Row, Instants
<1> QED
  BY <1>1, <1>2 DEF Known, Stored

\* Of the twins that stand, the oldest is deleted by nobody.
LEMMA Survivor ==
    ASSUME Typed, NewsInv, NEW y \in Known, ~ChangedSince(y),
           NEW w \in rows, Twins(w, y), w.at <= y.at
    PROVE  \E z \in rows \ (request.del \cup sweep.del) : Twins(z, y) /\ z.at <= w.at
<1> DEFINE Dates0 == {n \in Nat : n <= w.at /\ \E z \in rows : Twins(z, y) /\ z.at = n}
<1>1. rows \subseteq Known /\ \A z \in Known : z.at \in Nat
  BY KnownRows DEF Known
<1>2. Dates0 \in SUBSET Nat /\ w.at \in Dates0
  BY <1>1
<1>3. PICK n \in Dates0 : \A m \in Dates0 : n <= m
  <2> HIDE DEF Dates0
  <2> QED
    BY <1>2, LeastNumber
<1>4. PICK z \in rows : Twins(z, y) /\ z.at = n /\ n <= w.at
  BY <1>3
<1>5. ~ \E x \in rows : Twins(x, z) /\ x.at < z.at
  <2> SUFFICES ASSUME NEW x \in rows, Twins(x, z), x.at < z.at PROVE FALSE
    OBVIOUS
  <2>1. x.at \in Nat /\ w.at \in Nat /\ n \in Nat
    BY <1>1, <1>3
  <2>2. x.at \in Dates0
    BY <1>4, <2>1 DEF Twins
  <2> QED
    BY <1>3, <1>4, <2>1, <2>2
<1>6. z.at <= y.at
  BY <1>1, <1>3, <1>4
<1>7. z \notin request.del /\ z \notin sweep.del
  BY <1>4, <1>5, <1>6 DEF NewsInv, Outlived
<1> QED
  BY <1>4, <1>7

\* A scan creates what is missing: founded, once, and beside no row for the same recipient.
LEMMA CreatedKeys ==
    ASSUME NEW stored, NEW at
    PROVE  /\ \A x \in ToCreate(stored, at) :
                 /\ x.alert \in Alerts
                 /\ x.to \in holds[x.alert]
                 /\ \A r \in stored : ~Twins(r, x)
           /\ \A x, y \in ToCreate(stored, at) : Twins(x, y) => x = y
<1>1. ASSUME NEW x \in ToCreate(stored, at)
      PROVE  \E key \in Missing(stored) :
                 x = NewRow(stored, key[1], key[2], at) /\ x.alert = key[1] /\ x.to = key[2]
  BY DEF ToCreate, NewRow
<1>2. \A key \in Missing(stored) : /\ key[1] \in Alerts
                                   /\ key[2] \in holds[key[1]]
                                   /\ ~ \E r \in stored : r.alert = key[1] /\ r.to = key[2]
  BY DEF Missing
<1> QED
  BY <1>1, <1>2 DEF Twins

\* A scan deletes rows of conditions only: unfounded ones, and those with an older twin.
LEMMA DeletedRows ==
    ASSUME NEW stored \in SUBSET Row, NEW w \in ToDelete(stored)
    PROVE  /\ w \in stored
           /\ w.alert \in Alerts
           /\ \/ w.alert \in Alerts /\ w.to \notin holds[w.alert]
              \/ \E s \in stored : Twins(s, w) /\ s.at < w.at
BY RecipientsAssumption DEF ToDelete, Unfounded, Distinct, OlderThan, Twins, Row

-----------------------------------------------------------------------------
\* What changes neither the rows nor the conditions, and adds no row: a transaction may
\* begin or be lost, and a sweep reads its batch.
LEMMA FrameNews ==
    ASSUME IInv, NewsInv, Typed', UNCHANGED <<rows, holds, changed, told, marker>>, clock' >= clock,
           Known' \subseteq Known, Stored' \subseteq Stored,
           (request'.add = request.add /\ request'.del = request.del)
              \/ (request'.add = {} /\ request'.del = {}),
           (sweep'.add = sweep.add /\ sweep'.del = sweep.del /\ sweep'.left = sweep.left)
              \/ (sweep'.add = {} /\ sweep'.del = {} /\ sweep'.left = {}),
           \A r \in sweep'.batch : r.alert \in Events => r \in rows \cup sweep'.add,
           request'.pc # "wrote" => request'.add = {} /\ request'.del = {},
           sweep'.pc \in {"idle", "open"} =>
              sweep'.add = {} /\ sweep'.del = {} /\ sweep'.left = {} /\ sweep'.batch = {}
    PROVE  NewsInv'
<1>1. Founded'
  <2>1. \A y \in Known : y.at \in Int /\ clock \in Int /\ clock' \in Int
    BY KnownRows DEF IInv, Typed, TypeOK
  <2>2. \A y \in Known : /\ y.at <= clock'
                         /\ y.alert \in Alerts => y.to \in holds[y.alert] \/ ChangedSince(y)
    BY <2>1 DEF NewsInv, Founded
  <2> QED
    BY <2>2 DEF Founded, ChangedSince
<1>2. Anchored'
  BY DEF NewsInv, Anchored, ChangedSince
<1>3. ASSUME NEW del, Outlived(del) PROVE Outlived(del)'
  BY <1>3 DEF Outlived, ChangedSince
<1>4. Outlived(request.del)' /\ Outlived(sweep.del)'
  <2>1. Outlived({})'
    BY DEF Outlived
  <2>2. Outlived(request.del) /\ Outlived(sweep.del)
    BY DEF NewsInv
  <2>3. \E d \in {{}, request.del} : request'.del = d
    OBVIOUS
  <2>4. \E d \in {{}, sweep.del} : sweep'.del = d
    OBVIOUS
  <2> QED
    BY <1>3, <2>1, <2>2, <2>3, <2>4 DEF Outlived
<1>5. Apart(request.add, request.del)' /\ Apart(sweep.add, sweep.del)'
  BY DEF NewsInv, Apart
<1>6. Again(request.add, sweep.del)' /\ Again(sweep.add, request.del)'
  BY DEF NewsInv, Again
<1>7. EventsOnce'
  BY DEF NewsInv, EventsOnce, AllTold
<1>8. LeftIsNews'
  <2>1. Left' \subseteq Left
    BY DEF Left
  <2> QED
    BY <2>1 DEF NewsInv, LeftIsNews, AllTold, ChangedSince
<1>9. Opened'
  BY DEF NewsInv, Opened
<1> QED
  BY <1>1, <1>2, <1>4, <1>5, <1>6, <1>7, <1>8, <1>9 DEF NewsInv

\* When a condition changes, every row of it there is was dated before.
LEMMA ChangeNews ==
    ASSUME IInv, NewsInv, NEW c \in Alerts, NEW to \in Addressings, Change(c, to)
    PROVE  NewsInv'
<1>1. UNCHANGED <<rows, request, sweep, told, marker>> /\ clock' = clock + 1 /\ clock \in Nat
  BY DEF Change, Instant, IInv, Typed, TypeOK
<1>2. Known' = Known /\ Stored' = Stored /\ Left' = Left /\ AllTold' = AllTold
  BY <1>1 DEF Known, Stored, Left, AllTold
<1>3. \A y \in Known : y.at \in Nat /\ y.at <= clock /\ y.alert \in Alerts \cup Events
  BY KnownRows DEF IInv, NewsInv, Founded, Row
<1>4. /\ \A d \in Alerts \ {c} : changed'[d] = changed[d] /\ holds'[d] = holds[d]
      /\ changed'[c] = clock + 1
  BY DEF Change, IInv, Typed, TypeOK
<1>5. ASSUME NEW y \in Known, y.alert \in Alerts
      PROVE  /\ ChangedSince(y) => ChangedSince(y)'
             /\ y.alert = c => ChangedSince(y)'
  BY <1>1, <1>3, <1>4, <1>5 DEF ChangedSince
<1>6. AllTold \subseteq Known /\ Stored \subseteq Known
  BY DEF Known, Stored
<1>7. Founded'
  <2> SUFFICES ASSUME NEW y \in Known
               PROVE  /\ y.at <= clock'
                      /\ y.alert \in Alerts => y.to \in holds'[y.alert] \/ ChangedSince(y)'
    BY <1>2 DEF Founded
  <2>1. y.alert \in Alerts => y.to \in holds[y.alert] \/ ChangedSince(y)
    BY DEF NewsInv, Founded
  <2> QED
    BY <1>1, <1>3, <1>4, <1>5, <2>1
<1>8. Anchored'
  <2> SUFFICES ASSUME NEW y \in Stored, y.alert \in Alerts, ~ChangedSince(y)'
               PROVE  \E z \in rows : Twins(z, y) /\ z.at <= y.at
    BY <1>1, <1>2 DEF Anchored
  <2>1. ~ChangedSince(y)
    BY <1>5, <1>6
  <2> QED
    BY <2>1 DEF NewsInv, Anchored
<1>9. ASSUME NEW del, Outlived(del), \A w \in del : w.alert \in Alerts PROVE Outlived(del)'
  <2> SUFFICES ASSUME NEW w \in del \cap rows, NEW y \in Known, Twins(w, y), w.at <= y.at,
                      ~ChangedSince(y)'
               PROVE  \E z \in rows : Twins(z, w) /\ z.at < w.at
    BY <1>1, <1>2 DEF Outlived
  <2>1. y.alert \in Alerts
    BY <1>9 DEF Twins
  <2>2. ~ChangedSince(y)
    BY <1>5, <2>1
  <2> QED
    BY <1>9, <2>2 DEF Outlived
<1>10. Outlived(request.del)' /\ Outlived(sweep.del)'
  <2>1. Outlived(request.del) /\ Outlived(sweep.del)
    BY DEF NewsInv
  <2>2. \A w \in request.del \cup sweep.del : w.alert \in Alerts
    BY DEF NewsInv, Apart
  <2> QED
    BY <1>1, <1>9, <2>1, <2>2 DEF Outlived
<1>11. LeftIsNews'
  BY <1>2, <1>5, <1>6 DEF NewsInv, LeftIsNews
<1>12. Apart(request.add, request.del)' /\ Apart(sweep.add, sweep.del)'
       /\ Again(request.add, sweep.del)' /\ Again(sweep.add, request.del)'
  BY <1>1 DEF NewsInv, Apart, Again
<1>13. EventsOnce' /\ Opened'
  BY <1>1 DEF NewsInv, EventsOnce, AllTold, Opened
<1> QED
  BY <1>7, <1>8, <1>10, <1>11, <1>12, <1>13 DEF NewsInv

\* What a scan by transaction t at instant at, or the record of events, may write.
Writes(add, del, at, lapsed) ==
    /\ at \in Instants /\ at <= clock
    /\ lapsed \in SUBSET (Events \ Recorded)
    /\ add \subseteq ToCreate(rows, at) \cup {EventRow(e, at) : e \in lapsed}
    /\ del \subseteq ToDelete(rows)

\* A row written is dated and founded, stands beside none for the same recipient, and is
\* of an event not recorded before.
LEMMA WrittenRows ==
    ASSUME IInv, NewsInv, NEW add, NEW del, NEW at, NEW lapsed, Writes(add, del, at, lapsed)
    PROVE  /\ \A x \in add : /\ x.at <= clock
                             /\ x.alert \in Alerts => /\ x.to \in holds[x.alert]
                                                      /\ \A r \in rows : ~Twins(r, x)
                             /\ x.alert \in Events =>
                                   \A r \in rows \cup request.add \cup sweep.add : r.alert # x.alert
           /\ \A x, y \in add : x.alert \in Alerts /\ Twins(x, y) => x = y
           /\ \A x, y \in add : x.alert \in Events /\ x.alert = y.alert => x = y
           /\ \A w \in del :
                 /\ w \in rows
                 /\ w.alert \in Alerts
                 /\ w.to \notin holds[w.alert] \/ \E z \in rows : Twins(z, w) /\ z.at < w.at
<1>0. rows \in SUBSET Row /\ Alerts \cap Events = {}
  BY RecipientsAssumption DEF IInv, Typed, TypeOK
<1>1. ASSUME NEW x \in ToCreate(rows, at)
      PROVE  /\ x.at <= clock
             /\ x.alert \in Alerts /\ x.to \in holds[x.alert]
             /\ \A r \in rows : ~Twins(r, x)
  <2>1. x.alert \in Alerts /\ x.to \in holds[x.alert] /\ \A r \in rows : ~Twins(r, x)
    BY CreatedKeys
  <2>2. CASE ~x.kept
    BY <1>0, <2>1, <2>2, NewRows DEF Writes
  <2>3. CASE x.kept
    <3>1. PICK r \in rows : r.at = x.at
      BY <1>0, <2>3, NewRows DEF Writes
    <3>2. r.at <= clock
      BY DEF NewsInv, Founded, Known
    <3> QED
      BY <2>1, <3>1, <3>2
  <2> QED
    BY <2>2, <2>3
<1>2. ASSUME NEW e \in lapsed
      PROVE  EventRow(e, at).alert = e /\ EventRow(e, at).at = at
             /\ e \in Events /\ e \notin Recorded
  BY DEF EventRow, Writes
<1>3. \A e \in lapsed : \A r \in rows \cup request.add \cup sweep.add : r.alert # e
  BY <1>2 DEF Recorded
<1>4. ASSUME NEW x \in add
      PROVE  \/ x \in ToCreate(rows, at) /\ x.alert \in Alerts
             \/ \E e \in lapsed : x = EventRow(e, at) /\ x.alert = e /\ x.alert \in Events
  BY <1>1, <1>2 DEF Writes
<1>5. ASSUME NEW x \in add
      PROVE  /\ x.at <= clock
             /\ x.alert \in Alerts => /\ x.to \in holds[x.alert]
                                      /\ \A r \in rows : ~Twins(r, x)
             /\ x.alert \in Events =>
                   \A r \in rows \cup request.add \cup sweep.add : r.alert # x.alert
  <2>1. CASE x \in ToCreate(rows, at) /\ x.alert \in Alerts
    BY <1>0, <1>1, <2>1
  <2>2. CASE \E e \in lapsed : x = EventRow(e, at) /\ x.alert = e /\ x.alert \in Events
    <3>1. x.at = at /\ at <= clock
      BY <1>2, <2>2 DEF Writes
    <3>2. x.alert \notin Alerts
      BY <1>0, <2>2
    <3>3. \A r \in rows \cup request.add \cup sweep.add : r.alert # x.alert
      BY <1>3, <2>2
    <3> QED
      BY <3>1, <3>2, <3>3
  <2> QED
    BY <1>4, <2>1, <2>2
<1>6. \A x, y \in add : x.alert \in Alerts /\ Twins(x, y) => x = y
  <2> SUFFICES ASSUME NEW x \in add, NEW y \in add, x.alert \in Alerts, Twins(x, y) PROVE x = y
    OBVIOUS
  <2>1. x \in ToCreate(rows, at) /\ y \in ToCreate(rows, at)
    BY <1>0, <1>4 DEF Twins
  <2> QED
    BY <2>1, CreatedKeys
<1>7. \A x, y \in add : x.alert \in Events /\ x.alert = y.alert => x = y
  BY <1>0, <1>4
<1>8. ASSUME NEW w \in del
      PROVE  /\ w \in rows
             /\ w.alert \in Alerts
             /\ w.to \notin holds[w.alert] \/ \E z \in rows : Twins(z, w) /\ z.at < w.at
  <2>1. w \in ToDelete(rows)
    BY DEF Writes
  <2> QED
    BY <1>0, <2>1, DeletedRows
<1> QED
  BY <1>5, <1>6, <1>7, <1>8

\* What a scan, or a record of events, keeps of the invariant.
LEMMA WritesNews ==
    ASSUME IInv, NewsInv, NEW add, NEW del, NEW at, NEW lapsed, Writes(add, del, at, lapsed),
           UNCHANGED <<rows, holds, changed, told, marker, clock>>,
           Known' \subseteq Known \cup add, Stored' \subseteq Stored,
           \/ request'.add = add /\ request'.del = del /\ sweep' = sweep
              /\ request.add = {}
           \/ sweep'.add = add /\ sweep'.del = del /\ request' = request
              /\ sweep.add = {} /\ sweep'.batch = {} /\ sweep'.left \subseteq rows
    PROVE  /\ Founded' /\ Anchored'
           /\ Outlived(request.del)' /\ Outlived(sweep.del)'
           /\ Apart(request.add, request.del)' /\ Apart(sweep.add, sweep.del)'
           /\ Again(request.add, sweep.del)' /\ Again(sweep.add, request.del)'
           /\ EventsOnce'
<1>1. \A x \in add : /\ x.at <= clock
                     /\ x.alert \in Alerts => /\ x.to \in holds[x.alert]
                                              /\ \A r \in rows : ~Twins(r, x)
                     /\ x.alert \in Events =>
                           \A r \in rows \cup request.add \cup sweep.add : r.alert # x.alert
  BY WrittenRows
<1>2. /\ \A x, y \in add : x.alert \in Alerts /\ Twins(x, y) => x = y
      /\ \A x, y \in add : x.alert \in Events /\ x.alert = y.alert => x = y
  BY WrittenRows
<1>3. \A w \in del :
         /\ w \in rows
         /\ w.alert \in Alerts
         /\ w.to \notin holds[w.alert] \/ \E z \in rows : Twins(z, w) /\ z.at < w.at
  BY WrittenRows
<1>4. Founded'
  BY <1>1 DEF NewsInv, Founded, ChangedSince
<1>5. Anchored'
  BY DEF NewsInv, Anchored, ChangedSince
<1>6. ASSUME NEW d, Outlived(d), \A w \in d : w.alert \in Alerts
      PROVE  Outlived(d)'
  <2> SUFFICES ASSUME NEW w \in d \cap rows, NEW y \in Known \cup add, Twins(w, y), w.at <= y.at,
                      ~ChangedSince(y)
               PROVE  \E z \in rows : Twins(z, w) /\ z.at < w.at
    BY DEF Outlived, ChangedSince
  <2>1. y \notin add
    BY <1>1, <1>6 DEF Twins
  <2> QED
    BY <1>6, <2>1 DEF Outlived
<1>7. Outlived(del)
  <2> SUFFICES ASSUME NEW w \in del, NEW y \in Known, Twins(w, y), ~ChangedSince(y),
                      ~ \E z \in rows : Twins(z, w) /\ z.at < w.at
               PROVE  FALSE
    BY DEF Outlived
  <2>1. w.to \notin holds[w.alert] /\ w.alert \in Alerts
    BY <1>3
  <2> QED
    BY <2>1 DEF NewsInv, Founded, Twins
<1>8. Outlived(request.del)' /\ Outlived(sweep.del)'
  <2>1. Outlived(request.del) /\ Outlived(sweep.del)
        /\ \A w \in request.del \cup sweep.del : w.alert \in Alerts
    BY DEF NewsInv, Apart
  <2>2. \E d \in {request.del, del} : request'.del = d
    OBVIOUS
  <2>3. \E d \in {sweep.del, del} : sweep'.del = d
    OBVIOUS
  <2> QED
    BY <1>3, <1>6, <1>7, <2>1, <2>2, <2>3 DEF Outlived
<1>9. Apart(add, del)
  <2>1. ASSUME NEW w \in del, NEW y \in add, Twins(w, y)
        PROVE  FALSE
    BY <1>1, <1>3, <2>1 DEF Twins
  <2>2. \A w \in del : w.alert \in Alerts
    BY <1>3
  <2> QED
    BY <1>2, <2>1, <2>2 DEF Apart
<1>10. Apart(request.add, request.del)' /\ Apart(sweep.add, sweep.del)'
  BY <1>9 DEF NewsInv, Apart
<1>11. Again(add, sweep.del) /\ Again(add, request.del)
       /\ Again(request.add, del) /\ Again(sweep.add, del)
  BY <1>1, <1>3 DEF NewsInv, Apart, Again
<1>12. Again(request.add, sweep.del)' /\ Again(sweep.add, request.del)'
  BY <1>11 DEF NewsInv, Again
<1>13. EventsOnce'
  <2>1. \A r, s \in rows \cup request.add \cup sweep.add \cup add :
            r.alert \in Events /\ r.alert = s.alert => r = s
    BY <1>1, <1>2 DEF NewsInv, EventsOnce
  <2>2. \A r \in sweep'.batch \cup sweep'.left : r.alert \in Events => r \in rows \cup sweep'.add
    BY DEF NewsInv, EventsOnce
  <2>3. \A r \in AllTold : r.alert \in Events => r \in rows
    BY DEF NewsInv, EventsOnce
  <2>4. rows' \cup request'.add \cup sweep'.add \subseteq rows \cup request.add \cup sweep.add \cup add
    OBVIOUS
  <2> QED
    BY <2>1, <2>2, <2>3, <2>4 DEF EventsOnce, AllTold
<1> QED
  BY <1>4, <1>5, <1>8, <1>10, <1>12, <1>13

LEMMA RequestWritesNews ==
    ASSUME IInv, NewsInv, Typed', RequestScan \/ (\E e \in Events : RequestRecord(e))
    PROVE  NewsInv'
<1>0. request \in RequestType /\ request.pc = "open" /\ rows \in SUBSET Row
  BY DEF IInv, Typed, TypeOK, RequestScan, RequestRecord
<1>1. UNCHANGED <<rows, holds, changed, told, marker, clock>> /\ sweep' = sweep
  BY DEF RequestScan, RequestRecord
<1>2. request.add = {} /\ request.del = {}
  BY <1>0 DEF NewsInv, Opened
<1>3. request.at \in Instants /\ request.at <= clock
  BY <1>0 DEF RequestType, IInv, Typed, Dates, Instants
<1>4. \E lapsed : Writes(request'.add, request'.del, request.at, lapsed)
  <2>1. CASE RequestScan
    <3>1. request'.add = ToCreate(rows, request.at) /\ request'.del = ToDelete(rows)
      BY <1>0, <2>1 DEF RequestScan, RequestType
    <3>2. Writes(request'.add, request'.del, request.at, {})
      BY <1>3, <3>1 DEF Writes
    <3> QED
      BY <3>2
  <2>2. ASSUME NEW e \in Events, RequestRecord(e)
        PROVE  Writes(request'.add, request'.del, request.at, {e})
    <3>1. request'.add = {EventRow(e, request.at)} /\ request'.del = {} /\ e \notin Recorded
      BY <1>0, <1>2, <2>2 DEF RequestRecord, RequestType
    <3> QED
      BY <1>3, <3>1 DEF Writes
  <2> QED
    BY <2>1, <2>2
<1>5. PICK lapsed : Writes(request'.add, request'.del, request.at, lapsed)
  BY <1>4
<1>6. request'.del \subseteq rows
  BY <1>0, <1>5 DEF Writes, ToDelete, Unfounded, Distinct
<1>7. Known' \subseteq Known \cup request'.add /\ Stored' \subseteq Stored
  BY <1>1, <1>6 DEF Known, Stored, AllTold
<1>8. /\ Founded' /\ Anchored'
      /\ Outlived(request.del)' /\ Outlived(sweep.del)'
      /\ Apart(request.add, request.del)' /\ Apart(sweep.add, sweep.del)'
      /\ Again(request.add, sweep.del)' /\ Again(sweep.add, request.del)'
      /\ EventsOnce'
  <2>1. \E add \in {request'.add}, del \in {request'.del} :
           request'.add = add /\ request'.del = del
    OBVIOUS
  <2>2. PICK add \in {request'.add}, del \in {request'.del} :
           request'.add = add /\ request'.del = del
    BY <2>1
  <2>3. Writes(add, del, request.at, lapsed)
    BY <1>5, <2>2
  <2>4. Known' \subseteq Known \cup add
    BY <1>7, <2>2
  <2> QED
    BY <1>1, <1>2, <1>7, <2>2, <2>3, <2>4, WritesNews
<1>9. LeftIsNews'
  BY <1>1 DEF NewsInv, LeftIsNews, Left, AllTold, ChangedSince
<1>10. Opened'
  <2>1. request'.pc = "wrote"
    BY <1>0 DEF RequestScan, RequestRecord, RequestType
  <2> QED
    BY <1>1, <2>1 DEF NewsInv, Opened
<1> QED
  BY <1>8, <1>9, <1>10 DEF NewsInv

LEMMA SweepScanNews ==
    ASSUME IInv, NewsInv, Typed', SweepScan
    PROVE  NewsInv'
<1>0. sweep \in SweepType /\ sweep.pc = "open" /\ rows \in SUBSET Row
  BY DEF IInv, Typed, TypeOK, SweepScan
<1>1. UNCHANGED <<rows, holds, changed, told, marker, clock>> /\ request' = request
  BY DEF SweepScan
<1>2. sweep.add = {} /\ sweep.del = {} /\ sweep.batch = {}
  BY <1>0 DEF NewsInv, Opened
<1>3. sweep.at \in Instants /\ sweep.at <= clock
  BY <1>0 DEF SweepType, IInv, Typed, Dates, Instants
<1>4. PICK lapsed \in SUBSET (Events \ Recorded) :
         sweep' = [sweep EXCEPT !.pc = "scanned", !.del = ToDelete(rows),
                      !.add = ToCreate(rows, sweep.at)
                              \cup {EventRow(e, sweep.at) : e \in lapsed},
                      !.left = rows \ ToDelete(rows)]
  BY DEF SweepScan
<1> DEFINE add == ToCreate(rows, sweep.at) \cup {EventRow(e, sweep.at) : e \in lapsed}
<1> DEFINE del == ToDelete(rows)
<1>5. sweep'.add = add /\ sweep'.del = del /\ sweep'.left = rows \ del /\ sweep'.batch = {}
      /\ sweep'.pc = "scanned"
  BY <1>0, <1>2, <1>4 DEF SweepType
<1>6. Writes(add, del, sweep.at, lapsed)
  BY <1>3 DEF Writes
<1>7. del \subseteq rows
  BY <1>0 DEF ToDelete, Unfounded, Distinct
<1>8. \A r \in rows \ del : r.alert \in Alerts => ~ \E s \in rows : Twins(r, s) /\ s.at < r.at
  BY RecipientsAssumption DEF ToDelete, Distinct, OlderThan
<1> HIDE DEF add, del
<1>9. Known' \subseteq Known \cup add /\ Stored' \subseteq Stored
  BY <1>1, <1>5, <1>7 DEF Known, Stored, AllTold
<1>10. /\ Founded' /\ Anchored'
       /\ Outlived(request.del)' /\ Outlived(sweep.del)'
       /\ Apart(request.add, request.del)' /\ Apart(sweep.add, sweep.del)'
       /\ Again(request.add, sweep.del)' /\ Again(sweep.add, request.del)'
       /\ EventsOnce'
  <2>1. sweep'.left \subseteq rows
    BY <1>5
  <2> QED
    BY <1>1, <1>2, <1>5, <1>6, <1>9, <2>1, WritesNews
<1>11. LeftIsNews'
  <2> SUFFICES ASSUME NEW y \in AllTold, NEW x \in Left', y.alert \in Alerts, Twins(x, y),
                      y.at < x.at, ~ChangedSince(y)
               PROVE  FALSE
    BY <1>1 DEF LeftIsNews, AllTold, ChangedSince
  <2>1. PICK z \in rows : Twins(z, y) /\ z.at <= y.at
    BY DEF NewsInv, Anchored, Stored
  <2>2. x.alert \in Alerts /\ Twins(x, z) /\ Twins(z, x)
    BY <2>1 DEF Twins
  <2>3. CASE x \in rows \ del
    <3>1. z.at \in Int /\ y.at \in Int /\ x.at \in Int
      BY <2>3, KnownRows DEF Known, IInv
    <3>2. z.at < x.at
      BY <2>1, <3>1
    <3> QED
      BY <1>8, <2>2, <2>3, <3>2
  <2>4. CASE x \in add
    <3>1. \A r \in rows : ~Twins(r, x)
      BY <1>6, <2>2, <2>4, WrittenRows
    <3> QED
      BY <2>2, <3>1
  <2> QED
    BY <1>5, <2>3, <2>4 DEF Left
<1>12. Opened'
  BY <1>1, <1>5 DEF NewsInv, Opened
<1> QED
  BY <1>10, <1>11, <1>12 DEF NewsInv

\* What writes no row.
LEMMA StillNews ==
    ASSUME IInv, NewsInv, Typed',
           \/ Wait \/ UNCHANGED vars \/ RequestBegin \/ RequestFails \/ SweepBegin \/ SweepFails
           \/ SweepRead \/ (\E p \in People, accepted \in BOOLEAN : Mail(p, accepted))
    PROVE  NewsInv'
<1>0. request \in RequestType /\ sweep \in SweepType /\ clock \in Int
  BY DEF IInv, Typed, TypeOK
<1>1. UNCHANGED <<rows, holds, changed, told, marker>> /\ clock' >= clock
  <2>1. CASE Wait \/ UNCHANGED vars
    BY <1>0, <2>1 DEF Wait, vars, Instant
  <2>2. CASE RequestBegin \/ RequestFails
    BY <1>0, <2>2 DEF RequestBegin, RequestFails, Instant
  <2>3. CASE SweepBegin
    BY <1>0, <2>3 DEF SweepBegin, Instant
  <2>5. CASE SweepFails
    BY <1>0, <2>5 DEF SweepFails
  <2>4. CASE SweepRead
    BY <1>0, <2>4 DEF SweepRead
  <2>6. CASE \E p \in People, accepted \in BOOLEAN : Mail(p, accepted)
    <3>1. UNCHANGED <<clock, rows, holds, changed, told, marker>>
      BY <2>6 DEF Mail
    <3> QED
      BY <1>0, <3>1
  <2> QED
    BY <2>1, <2>2, <2>3, <2>4, <2>5, <2>6
<1>2. \/ /\ request'.add = request.add /\ request'.del = request.del
         /\ request'.pc = request.pc
      \/ /\ request'.add = {} /\ request'.del = {}
  <2>1. CASE Wait \/ (UNCHANGED vars) \/ SweepFails \/ SweepRead
             \/ \E p \in People, accepted \in BOOLEAN : Mail(p, accepted)
    BY <2>1 DEF Wait, vars, SweepFails, SweepRead, Mail
  <2>2. CASE SweepBegin
    BY <1>0, <2>2 DEF SweepBegin, RequestType
  <2>3. CASE RequestBegin
    BY <2>3 DEF RequestBegin, Idle
  <2>4. CASE RequestFails
    BY <2>4 DEF RequestFails, Idle
  <2> QED
    BY <2>1, <2>2, <2>3, <2>4
<1>3. \/ /\ sweep'.add = sweep.add /\ sweep'.del = sweep.del /\ sweep'.left = sweep.left
         /\ \/ (sweep'.batch = sweep.batch) /\ (sweep'.pc = sweep.pc)
            \/ (sweep'.batch = sweep.batch) /\ (sweep'.pc = "mailing")
            \/ (sweep'.batch = (rows \ sweep.del) \cup sweep.add) /\ (sweep'.pc = "mailing")
      \/ sweep'.add = {} /\ sweep'.del = {} /\ sweep'.left = {} /\ sweep'.batch = {}
  <2>1. CASE Wait \/ UNCHANGED vars \/ RequestBegin \/ RequestFails
    BY <2>1 DEF Wait, vars, RequestBegin, RequestFails
  <2>2. CASE SweepBegin
    BY <2>2 DEF SweepBegin, NoSweep
  <2>3. CASE SweepFails
    BY <2>3 DEF SweepFails, NoSweep
  <2>4. CASE SweepRead
    BY <1>0, <2>4 DEF SweepRead, SweepType
  <2>5. ASSUME NEW p \in People, NEW accepted \in BOOLEAN, Mail(p, accepted)
        PROVE  /\ sweep'.add = sweep.add /\ sweep'.del = sweep.del /\ sweep'.left = sweep.left
               /\ sweep'.batch = sweep.batch /\ sweep'.pc = sweep.pc
    BY <1>0, <2>5 DEF Mail, SweepType
  <2> QED
    BY <2>1, <2>2, <2>3, <2>4, <2>5
<1>4. Known' \subseteq Known /\ Stored' \subseteq Stored
  BY <1>1, <1>2, <1>3 DEF Known, Stored, AllTold
<1>5. \A r \in sweep'.batch : r.alert \in Events => r \in rows \cup sweep'.add
  BY <1>3 DEF NewsInv, EventsOnce
<1>6. request'.pc # "wrote" => request'.add = {} /\ request'.del = {}
  BY <1>2 DEF NewsInv, Opened
<1>7. sweep'.pc \in {"idle", "open"} =>
         sweep'.add = {} /\ sweep'.del = {} /\ sweep'.left = {} /\ sweep'.batch = {}
  BY <1>3 DEF NewsInv, Opened
<1> QED
  BY <1>1, <1>2, <1>3, <1>4, <1>5, <1>6, <1>7, FrameNews

\* A transaction that commits leaves a row behind for each it deletes, and so does the
\* other one's scan.
LEMMA CommitKeeps ==
    ASSUME IInv, NewsInv, NEW add, NEW del, NEW oadd, NEW odel,
           \/ add = request.add /\ del = request.del /\ oadd = sweep.add /\ odel = sweep.del
           \/ add = sweep.add /\ del = sweep.del /\ oadd = request.add /\ odel = request.del,
           rows' = (rows \ del) \cup add, changed' = changed,
           Known' \subseteq Known, Stored' \subseteq Stored \cup add
    PROVE  Anchored' /\ Outlived(odel)'
<1>1. Typed /\ (\A y \in Known : y.at \in Nat) /\ rows \subseteq Known
  BY KnownRows DEF IInv, Known
<1>2. Known = Stored \cup add \cup oadd /\ odel \subseteq Stored
  BY DEF Known, Stored
<1>3. Apart(add, del) /\ Apart(oadd, odel) /\ Again(add, odel) /\ Outlived(odel)
  BY DEF NewsInv
<1>4. ASSUME NEW y \in Known, ~ChangedSince(y), NEW w \in rows, Twins(w, y), w.at <= y.at
      PROVE  \E z \in rows' : Twins(z, y) /\ z.at <= w.at
  <2>1. PICK z \in rows \ (request.del \cup sweep.del) : Twins(z, y) /\ z.at <= w.at
    BY <1>1, <1>4, Survivor
  <2> QED
    BY <2>1
<1>5. Anchored'
  <2> SUFFICES ASSUME NEW y \in Stored \cup add, y.alert \in Alerts, ~ChangedSince(y)
               PROVE  \E z \in rows' : Twins(z, y) /\ z.at <= y.at
    BY DEF Anchored, ChangedSince
  <2>0. y \in Known /\ y.at \in Nat
    BY <1>1, <1>2
  <2>1. CASE y \in add
    BY <2>0, <2>1 DEF Twins
  <2>2. CASE y \in Stored
    <3>1. PICK w \in rows : Twins(w, y) /\ w.at <= y.at
      BY <2>2 DEF NewsInv, Anchored
    <3>2. PICK z \in rows' : Twins(z, y) /\ z.at <= w.at
      BY <1>4, <2>0, <3>1
    <3>3. z.at <= y.at
      <4>1. z \in Known
        BY <1>1, <1>2
      <4> QED
        BY <1>1, <2>0, <3>1, <3>2, <4>1
    <3> QED
      BY <3>2, <3>3
  <2> QED
    BY <2>1, <2>2
<1>6. Outlived(odel)'
  <2> SUFFICES ASSUME NEW w \in odel \cap rows', NEW y \in Known, Twins(w, y), w.at <= y.at,
                      ~ChangedSince(y)
               PROVE  \E z \in rows' : Twins(z, w) /\ z.at < w.at
    BY DEF Outlived, ChangedSince
  <2>0. w \in Known /\ w.alert \in Alerts /\ y.alert \in Alerts
    BY <1>2, <1>3 DEF Apart, Twins
  <2>1. CASE w \in rows
    <3>1. PICK z \in rows : Twins(z, w) /\ z.at < w.at
      BY <1>3, <2>1 DEF Outlived
    <3>2. Twins(z, y) /\ z.at <= y.at
      BY <1>1, <2>0, <3>1 DEF Twins
    <3>3. PICK x \in rows' : Twins(x, y) /\ x.at <= z.at
      BY <1>4, <3>2
    <3>4. x \in Known
      BY <1>1, <1>2
    <3>5. x.at < w.at
      BY <1>1, <2>0, <3>1, <3>3, <3>4
    <3> QED
      BY <3>3, <3>5 DEF Twins
  <2>2. CASE w \notin rows
    <3>1. w \in add /\ \A z \in rows : ~Twins(z, w)
      BY <1>3, <2>2 DEF Again
    <3>2. y \notin Stored
      BY <2>0, <3>1 DEF NewsInv, Anchored, Twins
    <3>3. y \notin oadd
      BY <1>3 DEF Apart
    <3>4. y \notin add
      BY <1>2, <1>3, <2>0, <3>1, <3>2 DEF Apart
    <3> QED
      BY <1>2, <3>2, <3>3, <3>4
  <2> QED
    BY <2>1, <2>2
<1> QED
  BY <1>5, <1>6

LEMMA RequestCommitNews ==
    ASSUME IInv, NewsInv, Typed', RequestCommit
    PROVE  NewsInv'
<1>0. request \in RequestType /\ sweep \in SweepType
  BY DEF IInv, Typed
<1>1. /\ rows' = (rows \ request.del) \cup request.add
      /\ request'.pc = "idle" /\ request'.add = {} /\ request'.del = {}
      /\ UNCHANGED <<holds, changed, told, marker, clock>> /\ sweep' = sweep
  BY DEF RequestCommit, Idle
<1>2. Known' \subseteq Known /\ Stored' \subseteq Stored \cup request.add
  BY <1>1 DEF Known, Stored, AllTold
<1>3. \A r \in request.del : r.alert \notin Events
  BY RecipientsAssumption DEF NewsInv, Apart
<1>4. Founded'
  BY <1>1, <1>2 DEF NewsInv, Founded, ChangedSince
<1>5. \E d \in {sweep.del} : Anchored' /\ Outlived(d)'
  <2>1. \E add \in {request.add}, del \in {request.del}, oadd \in {sweep.add}, odel \in {sweep.del} :
           add = request.add /\ del = request.del /\ oadd = sweep.add /\ odel = sweep.del
    OBVIOUS
  <2>2. PICK add \in {request.add}, del \in {request.del}, oadd \in {sweep.add},
             odel \in {sweep.del} :
           add = request.add /\ del = request.del /\ oadd = sweep.add /\ odel = sweep.del
    BY <2>1
  <2>3. rows' = (rows \ del) \cup add /\ changed' = changed /\ Stored' \subseteq Stored \cup add
    BY <1>1, <1>2, <2>2
  <2>4. Anchored' /\ Outlived(odel)'
    BY <1>2, <2>2, <2>3, CommitKeeps
  <2> QED
    BY <2>4
<1>6. Outlived(request.del)' /\ Outlived(sweep.del)'
  BY <1>1, <1>5 DEF Outlived
<1>7. Apart(request.add, request.del)' /\ Apart(sweep.add, sweep.del)'
      /\ Again(request.add, sweep.del)' /\ Again(sweep.add, request.del)'
  BY <1>1 DEF NewsInv, Apart, Again
<1>8. EventsOnce'
  <2>1. (rows \cup request.add \cup sweep.add)' \subseteq rows \cup request.add \cup sweep.add
    BY <1>1
  <2>2. \A r \in rows : r.alert \in Events => r \in rows'
    BY <1>1, <1>3
  <2> QED
    BY <1>1, <2>1, <2>2 DEF NewsInv, EventsOnce, AllTold
<1>9. LeftIsNews'
  BY <1>1 DEF NewsInv, LeftIsNews, Left, AllTold, ChangedSince
<1>10. Opened'
  BY <1>1 DEF NewsInv, Opened
<1> QED
  BY <1>4, <1>5, <1>6, <1>7, <1>8, <1>9, <1>10 DEF NewsInv

LEMMA SweepCommitNews ==
    ASSUME IInv, NewsInv, Typed', SweepCommit
    PROVE  NewsInv'
<1>0. request \in RequestType /\ sweep \in SweepType /\ sweep.pc = "mailing" /\ Typed
  BY DEF IInv, Typed, SweepCommit
<1>1. /\ rows' = (rows \ sweep.del) \cup sweep.add
      /\ sweep'.pc = "idle" /\ sweep'.add = {} /\ sweep'.del = {} /\ sweep'.left = {}
      /\ sweep'.batch = {}
      /\ UNCHANGED <<holds, changed, clock>> /\ request' = request
  BY DEF SweepCommit, NoSweep
<1>2. ASSUME NEW p \in People
      PROVE  \A y \in told'[p] : y \in told[p] \/ y \in sweep.batch
  BY DEF SweepCommit, News
<1>3. AllTold' \subseteq AllTold \cup sweep.batch
  BY <1>2 DEF AllTold
<1>4. Known' \subseteq Known /\ Stored' \subseteq Stored \cup sweep.add
  BY <1>1, <1>3 DEF Known, Stored
<1>5. \A r \in sweep.del : r.alert \notin Events
  BY RecipientsAssumption DEF NewsInv, Apart
<1>6. Founded'
  BY <1>1, <1>4 DEF NewsInv, Founded, ChangedSince
<1>7. \E d \in {request.del} : Anchored' /\ Outlived(d)'
  <2>1. \E add \in {sweep.add}, del \in {sweep.del}, oadd \in {request.add}, odel \in {request.del} :
           add = sweep.add /\ del = sweep.del /\ oadd = request.add /\ odel = request.del
    OBVIOUS
  <2>2. PICK add \in {sweep.add}, del \in {sweep.del}, oadd \in {request.add},
             odel \in {request.del} :
           add = sweep.add /\ del = sweep.del /\ oadd = request.add /\ odel = request.del
    BY <2>1
  <2>3. rows' = (rows \ del) \cup add /\ changed' = changed /\ Stored' \subseteq Stored \cup add
    BY <1>1, <1>4, <2>2
  <2>4. Anchored' /\ Outlived(odel)'
    BY <1>4, <2>2, <2>3, CommitKeeps
  <2> QED
    BY <2>4
<1>8. Outlived(request.del)' /\ Outlived(sweep.del)'
  BY <1>1, <1>7 DEF Outlived
<1>9. Apart(request.add, request.del)' /\ Apart(sweep.add, sweep.del)'
      /\ Again(request.add, sweep.del)' /\ Again(sweep.add, request.del)'
  BY <1>1 DEF NewsInv, Apart, Again
<1>10. EventsOnce'
  <2>1. (rows \cup request.add \cup sweep.add)' \subseteq rows \cup request.add \cup sweep.add
    BY <1>1
  <2>2. \A r \in rows \cup sweep.add : r.alert \in Events => r \in rows'
    BY <1>1, <1>5
  <2>3. \A r \in AllTold' : r.alert \in Events => r \in rows \cup sweep.add
    BY <1>3 DEF NewsInv, EventsOnce
  <2> QED
    BY <1>1, <2>1, <2>2, <2>3 DEF NewsInv, EventsOnce
<1>11. LeftIsNews'
  BY <1>1 DEF LeftIsNews, Left
<1>12. Opened'
  <2>1. ASSUME NEW p \in People, NEW y \in told'[p]
        PROVE  y.at <= marker'[p]
    <3>0. marker[p] \in Nat /\ sweep.at \in Nat /\ marker[p] < sweep.at
      BY <1>0, BoundsAssumption DEF Typed, TypeOK, SweepType, IInv, Dates
    <3>1. CASE y \in told[p]
      <4>1. y.at <= marker[p] /\ y.at \in Nat
        BY <1>0, <3>1, KnownRows DEF NewsInv, Opened, Known, AllTold
      <4>2. marker'[p] = marker[p] \/ marker'[p] = sweep.at
        BY DEF SweepCommit
      <4> QED
        BY <3>0, <4>1, <4>2
    <3>2. CASE y \notin told[p]
      <4>1. p \in sweep.sent /\ y.at <= sweep.at
        BY <2>1, <3>2 DEF SweepCommit
      <4>2. marker'[p] = sweep.at
        BY <4>1 DEF SweepCommit, Marked
      <4> QED
        BY <4>1, <4>2
    <3> QED
      BY <3>1, <3>2
  <2> QED
    BY <1>1, <2>1 DEF NewsInv, Opened
<1> QED
  BY <1>6, <1>7, <1>8, <1>9, <1>10, <1>11, <1>12 DEF NewsInv

LEMMA NewsInit == Init => NewsInv
<1> SUFFICES ASSUME Init PROVE NewsInv
  OBVIOUS
<1>1. rows = {} /\ request = Idle /\ sweep = NoSweep /\ AllTold = {}
  BY DEF Init, AllTold
<1>2. /\ request.add = {} /\ request.del = {}
      /\ sweep.add = {} /\ sweep.del = {} /\ sweep.left = {} /\ sweep.batch = {}
  BY <1>1 DEF Idle, NoSweep
<1>3. Known = {} /\ Stored = {}
  BY <1>1, <1>2 DEF Known, Stored
<1>4. Founded /\ Anchored /\ Outlived(request.del) /\ Outlived(sweep.del)
  BY <1>2, <1>3 DEF Founded, Anchored, Outlived
<1>5. Apart(request.add, request.del) /\ Apart(sweep.add, sweep.del)
      /\ Again(request.add, sweep.del) /\ Again(sweep.add, request.del)
  BY <1>2 DEF Apart, Again
<1>6. EventsOnce /\ LeftIsNews
  BY <1>1, <1>2 DEF EventsOnce, LeftIsNews
<1>7. Opened
  BY <1>2 DEF Opened, Init
<1> QED
  BY <1>4, <1>5, <1>6, <1>7 DEF NewsInv

LEMMA NewsStep == IInv /\ NewsInv /\ [Next]_vars => NewsInv'
<1> SUFFICES ASSUME IInv, NewsInv, [Next]_vars PROVE NewsInv'
  OBVIOUS
<1>0. Typed'
  BY TypedStep DEF IInv
<1>1. ASSUME NEW c \in Alerts, NEW to \in Addressings, Change(c, to)
      PROVE  NewsInv'
  BY <1>1, ChangeNews
<1>2. CASE \/ Wait \/ UNCHANGED vars \/ RequestBegin \/ RequestFails \/ SweepBegin \/ SweepFails
           \/ SweepRead \/ (\E p \in People, accepted \in BOOLEAN : Mail(p, accepted))
  BY <1>0, <1>2, StillNews
<1>3. CASE RequestScan \/ \E e \in Events : RequestRecord(e)
  BY <1>0, <1>3, RequestWritesNews
<1>4. CASE RequestCommit
  BY <1>0, <1>4, RequestCommitNews
<1>5. CASE SweepScan
  BY <1>0, <1>5, SweepScanNews
<1>6. CASE SweepCommit
  BY <1>0, <1>6, SweepCommitNews
<1> QED
  BY <1>1, <1>2, <1>3, <1>4, <1>5, <1>6 DEF Next

\* A digest tells of rows dated after all it has told before: of another row for the same
\* recipient only if the condition has changed, and of no event twice.
LEMMA DigestStep ==
    IInv /\ NewsInv /\ [Next]_vars =>
        [\A p \in sweep'.sent \ sweep.sent : \A x \in News(p) \cap Left, y \in told[p] :
            x.alert = y.alert =>
                /\ x.at # y.at
                /\ x.to = y.to => x.alert \in Alerts /\ changed[x.alert] >= y.at]_vars
<1> SUFFICES ASSUME IInv, NewsInv, [Next]_vars,
                    NEW p \in sweep'.sent \ sweep.sent,
                    NEW x \in News(p) \cap Left, NEW y \in told[p], x.alert = y.alert
             PROVE  /\ x.at # y.at
                    /\ x.to = y.to => x.alert \in Alerts /\ changed[x.alert] >= y.at
  OBVIOUS
<1>0. Typed /\ sweep \in SweepType
  BY DEF IInv, Typed
<1>1. p \in People /\ sweep.pc = "mailing"
  <2>1. ASSUME NEW q \in People, NEW accepted \in BOOLEAN, Mail(q, accepted)
        PROVE  p \in People /\ sweep.pc = "mailing"
    BY <1>0, <2>1 DEF Mail, SweepType
  <2>2. CASE SweepBegin \/ SweepCommit \/ SweepFails
    <3>1. sweep' = [NoSweep EXCEPT !.pc = "open", !.at = clock + 1] \/ sweep' = NoSweep
      BY <2>2 DEF SweepBegin, SweepCommit, SweepFails
    <3>2. NoSweep.sent = {} /\ [NoSweep EXCEPT !.pc = "open", !.at = clock + 1].sent = {}
      BY DEF NoSweep
    <3>3. sweep'.sent = {}
      BY <3>1, <3>2
    <3> QED
      BY <3>3
  <2>3. CASE SweepScan \/ SweepRead
    BY <1>0, <2>3 DEF SweepScan, SweepRead, SweepType
  <2>4. CASE RequestBegin \/ RequestScan \/ RequestCommit \/ RequestFails
             \/ \E e \in Events : RequestRecord(e)
    BY <2>4 DEF RequestBegin, RequestScan, RequestCommit, RequestFails, RequestRecord
  <2>5. CASE Wait \/ (UNCHANGED vars) \/ \E c \in Alerts, to \in Addressings : Change(c, to)
    BY <2>5 DEF Wait, vars, Change
  <2> QED
    BY <2>1, <2>2, <2>3, <2>4, <2>5 DEF Next
<1>2. x \in Known /\ y \in Known /\ x.at \in Nat /\ y.at \in Nat /\ y \in AllTold
  BY <1>0, <1>1, KnownRows DEF News, Known, AllTold
<1>3. y.at < x.at
  <2>1. marker[p] \in Nat /\ Since(p) \in Int /\ y.at <= marker[p] /\ x.at > Since(p)
    BY <1>0, <1>1, BoundsAssumption, SinceInteger DEF Typed, TypeOK, NewsInv, Opened, News
  <2>2. y.at \in Instants
    BY <1>0, <1>2, KnownRows DEF Row
  <2>3. marker[p] # Never
    BY <2>1, <2>2 DEF Instants, Never
  <2>4. marker[p] <= Since(p)
    BY <1>0, <2>1, <2>3, BoundsAssumption DEF Since, Later, SweepType
  <2> QED
    BY <1>2, <2>1, <2>4
<1>4. ASSUME x.to = y.to
      PROVE  x.alert \in Alerts /\ changed[x.alert] >= y.at
  <2>1. CASE x.alert \in Alerts
    BY <1>2, <1>3, <1>4, <2>1 DEF NewsInv, LeftIsNews, Twins, ChangedSince
  <2>2. CASE x.alert \in Events
    <3>1. x \in rows \cup sweep.add /\ y \in rows
      BY <1>2, <2>2 DEF NewsInv, EventsOnce, News
    <3>2. x = y
      BY <2>2, <3>1 DEF NewsInv, EventsOnce
    <3> QED
      BY <1>2, <1>3, <3>2
  <2>3. x.alert \in Alerts \cup Events
    BY <1>0, <1>2, KnownRows DEF Row
  <2> QED
    BY <2>1, <2>2, <2>3
<1> QED
  BY <1>2, <1>3, <1>4

\* digest_since, reconcile_plan: for any registers, recipients and look-backs, however
\* requests and sweeps run beside each other, recorded digests tell nobody the same news
\* twice.
THEOREM NewsToldOnce == Spec => NotToldAgain
BY IInvInit, IInvStep, NewsInit, NewsStep, DigestStep, PTL DEF Spec, NotToldAgain
=============================================================================
