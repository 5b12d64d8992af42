----------------------------- MODULE SourceLoan -----------------------------
(***************************************************************************)
(* What a campaign promises the owner of the source container: it borrows  *)
(* the source under an exclusive claim, and before it gives up the claim   *)
(* it has either returned it, verified to be serving, or ended in a way    *)
(* that leaves it stranded for an operator to rescue.                      *)
(***************************************************************************)
CONSTANTS Runner, Source, SourceOf, None

VARIABLES holder,  \* the campaign with the claim on each source
          loan     \* what each campaign did with its source

vars == <<holder, loan>>

TypeOK ==
    /\ holder \in [Source -> Runner \cup {None}]
    /\ loan \in [Runner -> {"none", "lent", "returned", "stranded", "rescued"}]

Init ==
    /\ holder = [s \in Source |-> None]
    /\ loan = [r \in Runner |-> "none"]

Claim(r) ==
    /\ holder[SourceOf[r]] = None
    /\ loan[r] = "none"
    /\ holder' = [holder EXCEPT ![SourceOf[r]] = r]
    /\ UNCHANGED loan

Lend(r) ==
    /\ holder[SourceOf[r]] = r
    /\ loan[r] = "none"
    /\ loan' = [loan EXCEPT ![r] = "lent"]
    /\ UNCHANGED holder

Return(r) ==
    /\ holder[SourceOf[r]] = r
    /\ loan[r] = "lent"
    /\ loan' = [loan EXCEPT ![r] = "returned"]
    /\ UNCHANGED holder

Release(r) ==
    /\ holder[SourceOf[r]] = r
    /\ holder' = [holder EXCEPT ![SourceOf[r]] = None]
    /\ loan' = [loan EXCEPT ![r] = IF @ = "lent" THEN "stranded" ELSE @]

Rescue(s) ==
    /\ holder[s] = None
    /\ loan' = [r \in Runner |-> IF SourceOf[r] = s /\ loan[r] = "stranded"
                                 THEN "rescued" ELSE loan[r]]
    /\ UNCHANGED holder

Next ==
    \/ \E r \in Runner : Claim(r) \/ Lend(r) \/ Return(r) \/ Release(r)
    \/ \E s \in Source : Rescue(s)

Spec == Init /\ [][Next]_vars

\* A loan does not last for ever.
Settle(r) == loan[r] = "lent" /\ (Return(r) \/ Release(r))

Fairness == \A r \in Runner : WF_vars(Settle(r))
=============================================================================
