---------------------------- MODULE PublishProofs ----------------------------
(***************************************************************************)
(* Proofs about Publish: type correctness, that a prerelease reported by a *)
(* script stands on a tag of the verified tree, and that a script merges   *)
(* only its own commit, for any number of checkouts, people and failures.  *)
(***************************************************************************)
EXTENDS Publish, WellFoundedInduction, TLAPS

Pull == [state : {"open", "closed", "merged"}, head : Commit, merge : Commit]

\* An element of a sequence.
LEMMA PullType ==
    ASSUME pulls \in Seq(Pull), NEW i \in DOMAIN pulls
    PROVE  pulls[i] \in Pull
  OBVIOUS

\* A new pull request is the last of the list.
LEMMA WithPullType ==
    ASSUME pulls \in Seq(Pull), Len(pulls) < MaxPulls
    PROVE  WithPull \in Seq(Pull) /\ Len(WithPull) = Len(pulls) + 1
  <1>1. [state |-> "open", head |-> {}, merge |-> {}] \in Pull
    BY DEF Pull, Commit
  <1> QED BY <1>1 DEF WithPull

\* What a merge leaves on GitHub.
LEMMA MergeType ==
    ASSUME TypeOK, NEW i \in DOMAIN pulls, MergeOnGitHub(i)
    PROVE  /\ main' \in Commit
           /\ pulls' \in Seq(Pull) /\ Len(pulls') = Len(pulls)
           /\ MergeOf(i) \in Commit
  <1>1. i \in MergeId
    BY PublishAssumption DEF TypeOK, MergeId
  <1>2. MergeOf(i) \in Commit
    BY <1>1 DEF MergeOf, TypeOK, Commit
  <1>3. [state |-> "merged", head |-> branch, merge |-> MergeOf(i)] \in Pull
    BY <1>2 DEF Pull, TypeOK
  <1>4. pulls \in Seq(Pull)
    BY DEF TypeOK, Pull
  <1> QED BY <1>2, <1>3, <1>4 DEF MergeOnGitHub

LEMMA ChangeIsCommit ==
    ASSUME NEW c \in Commit, NEW u \in Local \cup Upstream
    PROVE  c \cup {u} \in Commit
  BY DEF Commit

\* The newest of some pull requests is one of them.
LEMMA NewestListed ==
    ASSUME TypeOK, NEW S \in SUBSET DOMAIN pulls, S # {}
    PROVE  Newest(S) \in S
  <1> DEFINE T == {Len(pulls) - i : i \in S}
             R == OpToRel(<, Nat)
  <1>1. Len(pulls) \in Nat /\ S \subseteq 1..Len(pulls)
    BY DEF TypeOK
  <1>2. T \subseteq Nat /\ T # {}
    BY <1>1
  <1>3. \E x \in T : \A y \in T : <<y, x>> \notin R
    <2> HIDE DEF T, R
    <2> QED BY <1>2, WFMin, NatLessThanWellFounded DEF R
  <1>4. PICK i \in S : \A y \in T : <<y, Len(pulls) - i>> \notin R
    BY <1>3
  <1>5. ASSUME NEW j \in S PROVE j <= i
    <2>1. <<Len(pulls) - j, Len(pulls) - i>> \notin R
      BY <1>4
    <2>2. Len(pulls) - j \in Nat /\ Len(pulls) - i \in Nat
      BY <1>1
    <2> QED BY <2>1, <2>2, <1>1 DEF OpToRel
  <1> QED BY <1>5 DEF Newest

\* Type correctness of the publisher: every request finds the pull request it
\* names.
THEOREM TypeCorrect == Spec => []TypeOK
<1>1. Init => TypeOK
  <2> SUFFICES ASSUME Init PROVE TypeOK OBVIOUS
  <2>1. {} \in Commit /\ Begin \subseteq Commit
    BY PublishAssumption DEF Commit
  <2>2. pulls \in Seq(Pull) /\ Len(pulls) = 0
    BY DEF Init
  <2>3. /\ pr \in [Publisher -> 0..Len(pulls)]
        /\ \A p \in Publisher : pc[p] # "mergePull"
        /\ pc \in [Publisher -> Request \cup {"idle", "testing", "failed", "done"}]
        /\ merge \in [Publisher -> Commit]
    BY <2>1, <2>2 DEF Init
  <2>4. /\ head \in [Publisher -> Commit] /\ tested \in [Publisher -> Commit]
        /\ sha \in [Publisher -> Commit] /\ branch \in Commit /\ main \in Commit
    BY <2>1 DEF Init
  <2> QED BY <2>2, <2>3, <2>4, PublishAssumption DEF Init, TypeOK, Pull
<1>2. TypeOK /\ [Next]_vars => TypeOK'
  <2> SUFFICES ASSUME TypeOK, [Next]_vars PROVE TypeOK' OBVIOUS
  <2> USE DEF TypeOK, Pull, Go, checkout, repo, published
  <2>0. pulls \in Seq(Pull) /\ Len(pulls) \in Nat
    OBVIOUS
  <2>1. ASSUME NEW p \in Publisher, Start(p) PROVE TypeOK'
    BY <2>1 DEF Start, Request
  <2>2. ASSUME NEW p \in Publisher, RevParse(p) PROVE TypeOK'
    BY <2>2 DEF RevParse, Request
  <2>3. ASSUME NEW p \in Publisher, GetHead(p) PROVE TypeOK'
    BY <2>3 DEF GetHead, Request
  <2>4. ASSUME NEW p \in Publisher, Compare(p) PROVE TypeOK'
    BY <2>4 DEF Compare, Request
  <2>5. ASSUME NEW p \in Publisher, Verify(p) PROVE TypeOK'
    BY <2>5 DEF Verify, Request
  <2>6. ASSUME NEW p \in Publisher, GetTag(p) PROVE TypeOK'
    BY <2>6 DEF GetTag, Request
  <2>7. ASSUME NEW p \in Publisher, CreateTag(p) PROVE TypeOK'
    BY <2>7 DEF CreateTag, Request
  <2>8. ASSUME NEW p \in Publisher, GetRelease(p) PROVE TypeOK'
    BY <2>8 DEF GetRelease, Request
  <2>9. ASSUME NEW p \in Publisher, CreateRelease(p) PROVE TypeOK'
    BY <2>9 DEF CreateRelease, Request
  <2>10. ASSUME NEW p \in Publisher, ListPulls(p) PROVE TypeOK'
    <3>1. ASSUME InState(Matching(sha[p]), "merged") # {}
          PROVE  Newest(InState(Matching(sha[p]), "merged")) \in DOMAIN pulls
      BY <3>1, NewestListed DEF InState, Matching
    <3>2. ASSUME InState(Matching(sha[p]), "open") # {}
          PROVE  Newest(InState(Matching(sha[p]), "open")) \in DOMAIN pulls
      BY <3>2, NewestListed DEF InState, Matching
    <3>3. CASE InState(Matching(sha[p]), "merged") # {}
      <4>1. pulls[Newest(InState(Matching(sha[p]), "merged"))] \in Pull
        BY <3>1, <3>3, <2>0, PullType
      <4> DEFINE m == pulls[Newest(InState(Matching(sha[p]), "merged"))].merge
      <4>2. m \in Commit
        BY <4>1
      <4>3. /\ merge' = [merge EXCEPT ![p] = m]
            /\ pc' = [pc EXCEPT ![p] = "verify"]
            /\ UNCHANGED <<head, tested, sha, pr, branch, main, pulls, tag, release, faults, meddling>>
        BY <2>10, <3>3 DEF ListPulls
      <4> HIDE DEF m
      <4> QED BY <4>2, <4>3 DEF Request
    <3>4. CASE InState(Matching(sha[p]), "merged") = {}
      <4> DEFINE n == IF InState(Matching(sha[p]), "open") = {} THEN 0
                      ELSE Newest(InState(Matching(sha[p]), "open"))
      <4>1. n \in 0..Len(pulls)
        BY <3>2, <2>0
      <4>2. /\ pr' = [pr EXCEPT ![p] = n]
            /\ pc' = [pc EXCEPT ![p] = "compare"]
            /\ UNCHANGED <<head, tested, sha, merge, branch, main, pulls, tag, release, faults, meddling>>
        BY <2>10, <3>4 DEF ListPulls
      <4> HIDE DEF n
      <4> QED BY <4>1, <4>2 DEF Request
    <3> QED BY <3>3, <3>4
  <2>11. ASSUME NEW p \in Publisher, CreatePull(p) PROVE TypeOK'
    <3>1. CASE PullAllowed
      <4>1. WithPull \in Seq(Pull) /\ Len(WithPull) = Len(pulls) + 1
        BY <3>1, WithPullType DEF PullAllowed
      <4>2. /\ pulls' = WithPull
            /\ pr' = [pr EXCEPT ![p] = Len(pulls) + 1]
            /\ pc' = [pc EXCEPT ![p] = "mergePull"]
            /\ Len(pulls) < MaxPulls
            /\ UNCHANGED <<head, tested, sha, merge, branch, main, tag, release, faults, meddling>>
        BY <2>11, <3>1 DEF CreatePull, PullAllowed
      <4>3. pr' \in [Publisher -> 0..Len(pulls')]
        BY <4>1, <4>2, <2>0
      <4>4. /\ \A q \in Publisher : pc'[q] = "mergePull" => pr'[q] # 0
            /\ pc' \in [Publisher -> Request \cup {"idle", "testing", "failed", "done"}]
        BY <4>2, <2>0 DEF Request
      <4> QED BY <4>1, <4>2, <4>3, <4>4, <2>0, PublishAssumption
    <3>2. CASE ~PullAllowed
      BY <2>11, <3>2 DEF CreatePull, Request
    <3> QED BY <3>1, <3>2
  <2>12. ASSUME NEW p \in Publisher, MergePull(p) PROVE TypeOK'
    <3>1. CASE Pinned(p)
      <4>1. pr[p] \in DOMAIN pulls /\ MergeOnGitHub(pr[p])
        BY <2>12, <3>1 DEF MergePull
      <4>2. /\ main' \in Commit /\ MergeOf(pr[p]) \in Commit
            /\ pulls' \in Seq(Pull) /\ Len(pulls') = Len(pulls)
        BY <4>1, MergeType
      <4> QED BY <2>12, <3>1, <4>2 DEF MergePull, Request
    <3>2. CASE ~Pinned(p)
      BY <2>12, <3>2 DEF MergePull, Request
    <3> QED BY <3>1, <3>2
  <2>13. ASSUME NEW p \in Publisher, RequestFails(p) PROVE TypeOK'
    <3>1. CASE UNCHANGED <<main, pulls, tag, release>>
      BY <2>13, <3>1, PublishAssumption DEF RequestFails, Request
    <3>2. CASE /\ pc[p] = "createPull" /\ PullAllowed /\ pulls' = WithPull
               /\ UNCHANGED <<main, tag, release>>
      <4>1. WithPull \in Seq(Pull) /\ Len(WithPull) = Len(pulls) + 1 /\ Len(pulls) < MaxPulls
        BY <3>2, WithPullType DEF PullAllowed
      <4> QED BY <2>13, <3>2, <4>1, PublishAssumption DEF RequestFails, Request
    <3>3. CASE /\ pc[p] = "mergePull" /\ Pinned(p) /\ MergeOnGitHub(pr[p])
               /\ UNCHANGED <<tag, release>>
      <4>1. pr[p] \in DOMAIN pulls
        BY <3>3
      <4>2. main' \in Commit /\ pulls' \in Seq(Pull) /\ Len(pulls') = Len(pulls)
        BY <3>3, <4>1, MergeType
      <4> QED BY <2>13, <3>3, <4>2, PublishAssumption DEF RequestFails, Request
    <3>4. CASE /\ pc[p] = "createTag" /\ tag = None /\ tag' = merge[p]
               /\ UNCHANGED <<main, pulls, release>>
      BY <2>13, <3>4, PublishAssumption DEF RequestFails, Request
    <3>5. CASE /\ pc[p] = "createRelease" /\ release = "none" /\ release' = "prerelease"
               /\ UNCHANGED <<main, pulls, tag>>
      BY <2>13, <3>5, PublishAssumption DEF RequestFails, Request
    <3> QED BY <2>13, <3>1, <3>2, <3>3, <3>4, <3>5 DEF RequestFails
  <2>14. ASSUME NEW p \in Publisher, WorkLocally(p) PROVE TypeOK'
    <3>1. PICK c \in Local : head' = [head EXCEPT ![p] = @ \cup {c}]
      BY <2>14 DEF WorkLocally
    <3>2. head[p] \cup {c} \in Commit
      BY ChangeIsCommit
    <3>3. head' \in [Publisher -> Commit]
      BY <3>1, <3>2
    <3> QED BY <2>14, <3>3, PublishAssumption DEF WorkLocally, Meddle
  <2>15. ASSUME NEW p \in Publisher, Reconcile(p) PROVE TypeOK'
    <3>1. head[p] \cup main \in Commit
      BY DEF Commit
    <3> QED BY <2>15, <3>1, PublishAssumption DEF Reconcile, Meddle
  <2>16. ASSUME NEW p \in Publisher, Push(p) PROVE TypeOK'
    BY <2>16 DEF Push
  <2>17. ASSUME MoveMain PROVE TypeOK'
    <3>1. PICK u \in Upstream : main' = main \cup {u}
      BY <2>17 DEF MoveMain
    <3>2. main' \in Commit
      BY <3>1, ChangeIsCommit
    <3> QED BY <2>17, <3>2, PublishAssumption DEF MoveMain, Meddle
  <2>18. ASSUME NEW i \in DOMAIN pulls, MergeByHand(i) PROVE TypeOK'
    <3>1. main' \in Commit /\ pulls' \in Seq(Pull) /\ Len(pulls') = Len(pulls)
      BY <2>18, MergeType DEF MergeByHand
    <3> QED BY <2>18, <3>1, PublishAssumption DEF MergeByHand, Meddle
  <2>19. ASSUME NEW i \in DOMAIN pulls, CloseByHand(i) PROVE TypeOK'
    <3>1. [pulls[i] EXCEPT !.state = "closed", !.head = branch] \in Pull
      <4>1. pulls[i] \in Pull
        BY <2>0, PullType
      <4> QED BY <4>1
    <3>2. pulls' \in Seq(Pull) /\ Len(pulls') = Len(pulls)
      BY <2>19, <3>1 DEF CloseByHand
    <3> QED BY <2>19, <3>2, PublishAssumption DEF CloseByHand, Meddle
  <2>20. ASSUME TagByHand PROVE TypeOK'
    BY <2>20, PublishAssumption DEF TagByHand, Meddle
  <2>21. ASSUME ReleaseByHand PROVE TypeOK'
    BY <2>21, PublishAssumption DEF ReleaseByHand, Meddle
  <2>22. CASE UNCHANGED vars
    BY <2>22 DEF vars
  <2> QED BY <2>1, <2>2, <2>3, <2>4, <2>5, <2>6, <2>7, <2>8, <2>9, <2>10, <2>11, <2>12, <2>13, <2>14, <2>15, <2>16, <2>17, <2>18, <2>19, <2>20, <2>21, <2>22 DEF Next, Step
<1> QED BY <1>1, <1>2, PTL DEF Spec

-----------------------------------------------------------------------------
(* From the check of the merged tree on, every script carries what the     *)
(* check has established; the tag can only appear, never change.           *)
Verified == {"getTag", "createTag", "getRelease", "createRelease", "done"}
Tagged == {"getRelease", "createRelease", "done"}

VerifiedInv ==
    \A p \in Publisher :
        /\ pc[p] \in Verified => Tree(merge[p]) = Tree(sha[p])
        /\ pc[p] \in Tagged => tag = merge[p]
        /\ pc[p] = "done" => release = "prerelease"

\* Neither a tag nor a prerelease is ever replaced, whoever takes the step.
LEMMA PublishedStays ==
    ASSUME Next
    PROVE  (tag # None => tag' = tag) /\ (release = "prerelease" => release' = release)
  BY DEF Next, Step, Start, RevParse, GetHead, ListPulls, Compare, CreatePull, MergePull,
         Verify, GetTag, CreateTag, GetRelease, CreateRelease, RequestFails, WorkLocally,
         Reconcile, Push, MoveMain, MergeByHand, CloseByHand, TagByHand, ReleaseByHand, published

\* A script changes nothing of another one.
LEMMA OthersStay ==
    ASSUME TypeOK, NEW p \in Publisher, NEW q \in Publisher, p # q,
           Step(q) \/ RequestFails(q) \/ WorkLocally(q) \/ Reconcile(q) \/ Push(q)
    PROVE  pc'[p] = pc[p] /\ sha'[p] = sha[p] /\ merge'[p] = merge[p]
  BY DEF TypeOK, Step, Start, RevParse, GetHead, ListPulls, Compare, CreatePull, MergePull,
         Verify, GetTag, CreateTag, GetRelease, CreateRelease, RequestFails, WorkLocally,
         Reconcile, Push, Go, checkout

\* A reported prerelease stands on a tag of the tree the script verified.
THEOREM PublishedCorrect == Spec => []PublishedIsVerified
<1>1. Init => VerifiedInv
  BY DEF Init, VerifiedInv, Verified, Tagged
<1>2. TypeOK /\ VerifiedInv /\ [Next]_vars => VerifiedInv'
  <2> SUFFICES ASSUME TypeOK, VerifiedInv, [Next]_vars, NEW p \in Publisher
      PROVE  /\ pc'[p] \in Verified => Tree(merge'[p]) = Tree(sha'[p])
             /\ pc'[p] \in Tagged => tag' = merge'[p]
             /\ pc'[p] = "done" => release' = "prerelease"
    BY DEF VerifiedInv, Tree
  <2> DEFINE Same == pc'[p] = pc[p] /\ sha'[p] = sha[p] /\ merge'[p] = merge[p]
             Goal == /\ pc'[p] \in Verified => Tree(merge'[p]) = Tree(sha'[p])
                     /\ pc'[p] \in Tagged => tag' = merge'[p]
                     /\ pc'[p] = "done" => release' = "prerelease"
  <2>0. merge[p] # None
    BY PublishAssumption DEF TypeOK
  <2>1. ASSUME Same, Next PROVE Goal
    BY <2>1, <2>0, PublishedStays DEF VerifiedInv, Verified, Tagged
  <2>2. CASE UNCHANGED vars
    BY <2>2 DEF vars, VerifiedInv
  <2>3. ASSUME NEW q \in Publisher, q # p,
               Step(q) \/ RequestFails(q) \/ WorkLocally(q) \/ Reconcile(q) \/ Push(q)
        PROVE  Goal
    <3>1. Same
      BY <2>3, OthersStay
    <3> QED BY <2>1, <2>3, <3>1 DEF Next
  <2>4. CASE \/ WorkLocally(p) \/ Reconcile(p) \/ Push(p)
             \/ (\E i \in DOMAIN pulls : MergeByHand(i) \/ CloseByHand(i))
             \/ MoveMain \/ TagByHand \/ ReleaseByHand
    <3>1. Same
      BY <2>4 DEF WorkLocally, Reconcile, Push, MergeByHand, CloseByHand, MoveMain,
                  TagByHand, ReleaseByHand, checkout
    <3> QED BY <2>1, <2>4, <3>1 DEF Next
  <2>5. CASE \/ Start(p) \/ RevParse(p) \/ GetHead(p) \/ ListPulls(p) \/ Compare(p)
             \/ CreatePull(p) \/ MergePull(p) \/ RequestFails(p)
    <3>1. pc'[p] \notin Verified
      BY <2>5 DEF Start, RevParse, GetHead, ListPulls, Compare, CreatePull, MergePull,
                  RequestFails, Go, TypeOK, Verified
    <3> QED BY <3>1 DEF Verified, Tagged
  <2>6. CASE Verify(p)
    BY <2>6 DEF Verify, Go, TypeOK, Verified, Tagged, checkout
  <2>7. CASE GetTag(p)
    BY <2>7 DEF GetTag, Go, TypeOK, VerifiedInv, Verified, Tagged, checkout, published
  <2>8. CASE CreateTag(p)
    BY <2>8 DEF CreateTag, Go, TypeOK, VerifiedInv, Verified, Tagged, checkout
  <2>9. CASE GetRelease(p)
    BY <2>9 DEF GetRelease, Go, TypeOK, VerifiedInv, Verified, Tagged, checkout, published
  <2>10. CASE CreateRelease(p)
    BY <2>10 DEF CreateRelease, Go, TypeOK, VerifiedInv, Verified, Tagged, checkout
  <2> QED BY <2>2, <2>3, <2>4, <2>5, <2>6, <2>7, <2>8, <2>9, <2>10 DEF Next, Step
<1>3. TypeOK /\ VerifiedInv => PublishedIsVerified
  <2> SUFFICES ASSUME TypeOK, VerifiedInv, NEW p \in Publisher, pc[p] = "done"
      PROVE  release = "prerelease" /\ tag # None /\ Tree(tag) = Tree(sha[p])
    BY DEF PublishedIsVerified
  <2>1. merge[p] # None
    BY PublishAssumption DEF TypeOK
  <2> QED BY <2>1 DEF VerifiedInv, Verified, Tagged
<1> QED BY <1>1, <1>2, <1>3, TypeCorrect, PTL DEF Spec

-----------------------------------------------------------------------------
\* A script never merges anything but the commit it was told to publish.
THEOREM MergesOnlyItsCommit == Spec => MergesItsCommit
<1>1. TypeOK /\ [Next]_vars =>
        [\A p \in Publisher : pc[p] = "mergePull" /\ pc'[p] # pc[p] /\ main' # main =>
             Tree(main') = Tree(main \cup sha[p])]_vars
  <2> SUFFICES ASSUME TypeOK, Next, NEW p \in Publisher,
                      pc[p] = "mergePull", pc'[p] # pc[p], main' # main
               PROVE  Tree(main') = Tree(main \cup sha[p])
    BY DEF vars
  <2>1. MergePull(p) \/ RequestFails(p)
    <3>1. Step(p) \/ RequestFails(p)
      <4>1. \A q \in Publisher : q # p =>
              ~(Step(q) \/ RequestFails(q) \/ WorkLocally(q) \/ Reconcile(q) \/ Push(q))
        BY OthersStay
      <4> QED BY <4>1 DEF Next, WorkLocally, Reconcile, Push, MergeByHand, CloseByHand,
                          MoveMain, TagByHand, ReleaseByHand
    <3> QED BY <3>1 DEF Step, Start, RevParse, GetHead, ListPulls, Compare, CreatePull,
                        Verify, GetTag, CreateTag, GetRelease, CreateRelease
  <2>2. branch = sha[p] /\ pr[p] \in MergeId /\ main' = MergeOf(pr[p])
    <3>1. Pinned(p) /\ main' = MergeOf(pr[p])
      BY <2>1 DEF MergePull, RequestFails, MergeOnGitHub
    <3>2. pr[p] \in MergeId
      BY PublishAssumption DEF TypeOK, MergeId
    <3> QED BY <3>1, <3>2 DEF Pinned
  <2> QED BY <2>2 DEF MergeOf, Tree
<1> QED BY <1>1, TypeCorrect, PTL DEF Spec, MergesItsCommit

=============================================================================
