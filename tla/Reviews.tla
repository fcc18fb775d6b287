------------------------------- MODULE Reviews -------------------------------
(***************************************************************************)
(* Student verification and applications for new schools: what is handed   *)
(* in, and what reviewers decide.  The status is read before the           *)
(* transaction (verification) or the statements (application) that act on  *)
(* it.  One student and one applicant.                                     *)
(***************************************************************************)
EXTENDS Integers, Sequences, FiniteSets

CONSTANTS
    Desks,      \* bound: requests in flight at once
    MaxForms,   \* bound: verifications, and applications, ever handed in
    MaxReviews, \* bound: the reviews ever begun
    MaxStops    \* bound: how often the process goes down

ASSUME ReviewsAssumption ==
    {MaxForms, MaxReviews, MaxStops} \subseteq Nat /\ IsFiniteSet(Desks)

VARIABLES
    forms,        \* user_verifications of the student: their status
    student,      \* users.verification_status of the student
    applications, \* school_applications of the applicant: their status
    schools,      \* schools opened, by application
    desk,         \* requests that are under way
    reviews,      \* reviews begun so far
    stops         \* times the process went down

reviewVars == <<forms, student, applications, schools, desk, reviews, stops>>

NoWork  == [step |-> "idle"]
Working == {d \in Desks : desk[d] # NoWork}
Verdicts == {"approved", "rejected"}
Pending(list) == {i \in DOMAIN list : list[i] = "pending"}

ReviewsInit ==
    /\ forms = <<>> /\ applications = <<>>
    /\ student = "unverified"
    /\ schools = [a \in 1..MaxForms |-> 0]
    /\ desk = [d \in Desks |-> NoWork]
    /\ reviews = 0 /\ stops = 0

Sit(d, r)  == desk[d] = NoWork /\ desk' = [desk EXCEPT ![d] = r]
Done(d)    == desk' = [desk EXCEPT ![d] = NoWork]
-----------------------------------------------------------------------------
(* Verification *)

\* Refused while a verification is pending; an approved student may hand in again.
AskForm(d) ==
    /\ Pending(forms) = {}
    /\ Sit(d, [step |-> "form"])
    /\ UNCHANGED <<forms, student, applications, schools, reviews, stops>>

InsertForm(d) ==
    /\ desk[d].step = "form" /\ Len(forms) < MaxForms
    /\ forms' = Append(forms, "pending")
    /\ student' = "pending"
    /\ Done(d)
    /\ UNCHANGED <<applications, schools, reviews, stops>>

Reviewable(list, i) == list[i] = "pending"

AskReview(d, kind, list, i) ==
    /\ Reviewable(list, i) /\ reviews < MaxReviews
    /\ \E v \in Verdicts : Sit(d, [step |-> kind, of |-> i, verdict |-> v])
    /\ reviews' = reviews + 1
    /\ UNCHANGED <<forms, student, applications, schools, stops>>

\* Mutant: a student who was approved before stays approved.
KeepsApproval(v) == IF student = "approved" THEN student ELSE v

StudentAfter(v) == v

\* One transaction, without another look at the status.
DecideForm(d) ==
    LET r == desk[d]
    IN  /\ r.step = "decide"
        /\ forms' = [forms EXCEPT ![r.of] = r.verdict]
        /\ student' = StudentAfter(r.verdict)
        /\ Done(d)
        /\ UNCHANGED <<applications, schools, reviews, stops>>
-----------------------------------------------------------------------------
(* Applications for schools: no transaction *)

AskApplication(d) ==
    /\ Pending(applications) = {}
    /\ Sit(d, [step |-> "apply"])
    /\ UNCHANGED <<forms, student, applications, schools, reviews, stops>>

InsertApplication(d) ==
    /\ desk[d].step = "apply" /\ Len(applications) < MaxForms
    /\ applications' = Append(applications, "pending")
    /\ Done(d)
    /\ UNCHANGED <<forms, student, schools, reviews, stops>>

Turn(r) == IF r.step = "open" /\ r.verdict = "rejected" THEN "close" ELSE r.step

\* Approved: the school is opened first.
OpenSchool(d) ==
    LET r == desk[d]
    IN  /\ r.step # "idle" /\ Turn(r) = "open"
        /\ schools' = [schools EXCEPT ![r.of] = @ + 1]
        /\ desk' = [desk EXCEPT ![d].step = "close"]
        /\ UNCHANGED <<forms, student, applications, reviews, stops>>

CloseApplication(d) ==
    LET r == desk[d]
    IN  /\ r.step # "idle" /\ Turn(r) = "close"
        /\ applications' = [applications EXCEPT ![r.of] = r.verdict]
        /\ Done(d)
        /\ UNCHANGED <<forms, student, schools, reviews, stops>>

ReviewsCrash ==
    /\ Working # {} /\ stops < MaxStops
    /\ stops' = stops + 1
    /\ desk' = [d \in Desks |-> NoWork]
    /\ UNCHANGED <<forms, student, applications, schools, reviews>>
-----------------------------------------------------------------------------
ReviewsNext ==
    \/ \E d \in Desks :
         \/ AskForm(d) \/ AskApplication(d)
         \/ \E i \in DOMAIN forms : AskReview(d, "decide", forms, i)
         \/ \E a \in DOMAIN applications : AskReview(d, "open", applications, a)
    \/ \E d \in Working :
         \/ InsertForm(d) \/ DecideForm(d)
         \/ InsertApplication(d) \/ OpenSchool(d) \/ CloseApplication(d)
    \/ ReviewsCrash
=============================================================================
