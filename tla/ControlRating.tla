---------------------------- MODULE ControlRating ----------------------------
(***************************************************************************)
(* How effective a control is rated (control_assurance): each kind of test *)
(* rates it by the latest test of that kind an independent reviewer has    *)
(* approved, an open issue holds the operating rating down, and the        *)
(* combined rating is the worse of the two unless it was set by hand.      *)
(***************************************************************************)
EXTENDS Naturals, Sequences

Ratings == {"not_assessed", "ineffective", "partially_effective", "effective"}

TestResults == {"not_assessed", "failed", "passed_with_exceptions", "passed"}

TestKinds == {"design", "operating"}

RatingFor(result) ==
    CASE result = "passed" -> "effective"
      [] result = "passed_with_exceptions" -> "partially_effective"
      [] result = "failed" -> "ineffective"
      [] OTHER -> "not_assessed"

\* The tests of a kind that count, numbered in the order in which they were recorded.
Counting(tests, kind) ==
    {[at |-> n, on |-> tests[n].on, result |-> tests[n].result] :
        n \in {m \in DOMAIN tests : /\ tests[m].kind = kind
                                    /\ tests[m].review = "reviewed"
                                    /\ tests[m].result # "not_assessed"}}

\* The one performed last; of two of one day, recorded last.
Latest(counted) ==
    CHOOSE t \in counted :
        \A s \in counted : s.on < t.on \/ (s.on = t.on /\ s.at <= t.at)

KindRating(tests, kind) ==
    IF Counting(tests, kind) = {} THEN "not_assessed"
    ELSE RatingFor(Latest(Counting(tests, kind)).result)

Worse(r, s) ==
    CASE r = "not_assessed" -> s
      [] s = "not_assessed" -> r
      [] "ineffective" \in {r, s} -> "ineffective"
      [] "partially_effective" \in {r, s} -> "partially_effective"
      [] OTHER -> "effective"

CapForOpenIssue(rating, open) ==
    IF open /\ rating = "effective" THEN "partially_effective" ELSE rating

\* derive_effectiveness and apply_derived; open: an issue on the control is open.
Derived(control, tests, open) ==
    LET design == KindRating(tests, "design")
        operating == CapForOpenIssue(KindRating(tests, "operating"), open)
        rated == Counting(tests, "design") \cup Counting(tests, "operating") # {}
    IN  [control EXCEPT
           !.design = design,
           !.operating = operating,
           !.combined = IF control.override \/ ~ rated THEN @ ELSE Worse(design, operating)]
=============================================================================
