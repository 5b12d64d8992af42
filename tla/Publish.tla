------------------------------- MODULE Publish -------------------------------
(***************************************************************************)
(* scripts/publish_srh_release.py: merge the tested branch into main, tag  *)
(* the merge and publish a prerelease, one GitHub request after another,   *)
(* each of which may fail or time out with its effect carried out, while   *)
(* people push, merge, tag and rerun the script.                           *)
(*                                                                         *)
(* A commit is the set of changes and merges in its history; its tree is   *)
(* what the changes amount to.                                             *)
(***************************************************************************)
EXTENDS Naturals, Sequences, FiniteSets

CONSTANTS Publisher,   \* checkouts in which the script is run
          Local,       \* changes made in those checkouts
          Begin,       \* the commits the checkouts may be at when we look
          Upstream,    \* changes other people push to main
          None,        \* no tag
          MaxPulls,    \* bound: pull requests of the branch
          MaxFaults,   \* bound: failed requests
          MaxMeddling  \* bound: what other people do on GitHub

MergeId == 1..MaxPulls
Commit == SUBSET (Local \cup Upstream \cup MergeId)
Tree(c) == c \ MergeId

ASSUME PublishAssumption ==
    /\ \A c \in Commit : c # None
    /\ MaxPulls \in Nat /\ MaxFaults \in Nat /\ MaxMeddling \in Nat
    /\ Begin \subseteq SUBSET Local
    /\ (Local \cup Upstream) \cap MergeId = {}

VARIABLES
    head,     \* HEAD of each checkout
    tested,   \* history: HEAD when the tests were run
    sha,      \* the commit the script publishes
    pc,       \* the request each script is about to make
    pr,       \* local variable pr: its number, 0 for None
    merge,    \* local variable merge_sha
    branch, main, pulls, tag, release,   \* GitHub
    faults, meddling

checkout == <<head, tested, sha>>
repo == <<branch, main, pulls>>
published == <<tag, release>>
vars == <<head, tested, sha, pc, pr, merge, branch, main, pulls, tag, release,
          faults, meddling>>

Request == {"getHead", "listPulls", "compare", "createPull", "mergePull", "verify",
            "getTag", "createTag", "getRelease", "createRelease"}

TypeOK ==
    /\ head \in [Publisher -> Commit]
    /\ tested \in [Publisher -> Commit]
    /\ sha \in [Publisher -> Commit]
    /\ pc \in [Publisher -> Request \cup {"idle", "testing", "failed", "done"}]
    /\ pr \in [Publisher -> 0..Len(pulls)]
    /\ \A p \in Publisher : pc[p] = "mergePull" => pr[p] # 0
    /\ merge \in [Publisher -> Commit]
    /\ branch \in Commit
    /\ main \in Commit
    /\ pulls \in Seq([state : {"open", "closed", "merged"}, head : Commit, merge : Commit])
    /\ Len(pulls) <= MaxPulls
    /\ tag \in {None} \cup Commit
    /\ release \in {"none", "prerelease", "other"}
    /\ faults \in 0..MaxFaults
    /\ meddling \in 0..MaxMeddling

Init ==
    /\ head \in [Publisher -> Begin]
    /\ tested = head
    /\ sha = head
    /\ pc = [p \in Publisher |-> "idle"]
    /\ pr = [p \in Publisher |-> 0]
    /\ merge = [p \in Publisher |-> {}]
    /\ branch \in {{}} \cup Begin
    /\ main = {}
    /\ pulls = <<>>
    /\ tag = None
    /\ release = "none"
    /\ faults = 0
    /\ meddling = 0

Go(p, q) == pc' = [pc EXCEPT ![p] = q]

\* An open pull request follows its branch.
HeadOf(i) == IF pulls[i].state = "open" THEN branch ELSE pulls[i].head
Matching(s) == {i \in DOMAIN pulls : HeadOf(i) = s}
InState(S, state) == {i \in S : pulls[i].state = state}
Newest(S) == CHOOSE i \in S : \A j \in S : j <= i   \* GitHub lists the newest first

-----------------------------------------------------------------------------
(* The script before it talks to GitHub. *)

\* Clean working tree on the expected branch; the tests run on what is there.
Start(p) ==
    /\ pc[p] \in {"idle", "failed"}
    /\ tested' = [tested EXCEPT ![p] = head[p]]
    /\ Go(p, "testing")
    /\ UNCHANGED <<head, sha, pr, merge, repo, published, faults, meddling>>

\* HEAD is read when the tests have ended.
RevParse(p) ==
    /\ pc[p] = "testing"
    /\ sha' = [sha EXCEPT ![p] = head[p]]
    /\ Go(p, "getHead")
    /\ UNCHANGED <<head, tested, pr, merge, repo, published, faults, meddling>>

-----------------------------------------------------------------------------
(* publish() *)

GetHead(p) ==
    /\ pc[p] = "getHead"
    /\ Go(p, IF branch = sha[p] THEN "listPulls" ELSE "failed")
    /\ UNCHANGED <<checkout, pr, merge, repo, published, faults, meddling>>

\* A merged pull request of this commit is reused; an open one is remembered.
ListPulls(p) ==
    LET merged == InState(Matching(sha[p]), "merged")
        open == InState(Matching(sha[p]), "open")
    IN /\ pc[p] = "listPulls"
       /\ \/ /\ merged # {}
             /\ merge' = [merge EXCEPT ![p] = pulls[Newest(merged)].merge]
             /\ Go(p, "verify")
             /\ UNCHANGED pr
          \/ /\ merged = {}
             /\ pr' = [pr EXCEPT ![p] = IF open = {} THEN 0 ELSE Newest(open)]
             /\ Go(p, "compare")
             /\ UNCHANGED merge
       /\ UNCHANGED <<checkout, repo, published, faults, meddling>>

\* Mutant: without an open pull request none is created.
CompareThenMerge(p) ==
    /\ pc[p] = "compare"
    /\ Go(p, IF ~(main \subseteq sha[p]) THEN "failed" ELSE "mergePull")
    /\ UNCHANGED <<checkout, pr, merge, repo, published, faults, meddling>>

\* 'ahead' or 'identical': main has nothing that the tested commit lacks.
Compare(p) ==
    /\ pc[p] = "compare"
    /\ Go(p, IF ~(main \subseteq sha[p]) THEN "failed"
             ELSE IF pr[p] = 0 THEN "createPull" ELSE "mergePull")
    /\ UNCHANGED <<checkout, pr, merge, repo, published, faults, meddling>>

\* GitHub refuses a second open pull request, and one without new commits.
PullAllowed == Len(pulls) < MaxPulls /\ InState(DOMAIN pulls, "open") = {} /\ ~(branch \subseteq main)
WithPull == Append(pulls, [state |-> "open", head |-> {}, merge |-> {}])

CreatePull(p) ==
    /\ pc[p] = "createPull"
    /\ \/ /\ PullAllowed
          /\ pulls' = WithPull
          /\ pr' = [pr EXCEPT ![p] = Len(pulls) + 1]
          /\ Go(p, "mergePull")
       \/ /\ ~PullAllowed
          /\ Go(p, "failed")
          /\ UNCHANGED <<pulls, pr>>
    /\ UNCHANGED <<checkout, merge, branch, main, published, faults, meddling>>

\* A merge commit for pull request i.
MergeOf(i) == main \cup branch \cup {i}
MergeOnGitHub(i) ==
    /\ main' = MergeOf(i)
    /\ pulls' = [pulls EXCEPT ![i] = [state |-> "merged", head |-> branch, merge |-> MergeOf(i)]]

\* Mutant: the merge is not pinned to the tested commit.
MergeUnpinned(p) ==
    /\ pc[p] = "mergePull"
    /\ \/ /\ pulls[pr[p]].state = "open"
          /\ MergeOnGitHub(pr[p])
          /\ merge' = [merge EXCEPT ![p] = MergeOf(pr[p])]
          /\ Go(p, "verify")
       \/ /\ pulls[pr[p]].state # "open"
          /\ Go(p, "failed")
          /\ UNCHANGED <<main, pulls, merge>>
    /\ UNCHANGED <<checkout, pr, branch, published, faults, meddling>>

\* The request names sha: GitHub merges only while that is still the head.
Pinned(p) == pulls[pr[p]].state = "open" /\ branch = sha[p]
MergePull(p) ==
    /\ pc[p] = "mergePull"
    /\ \/ /\ Pinned(p)
          /\ MergeOnGitHub(pr[p])
          /\ merge' = [merge EXCEPT ![p] = MergeOf(pr[p])]
          /\ Go(p, "verify")
       \/ /\ ~Pinned(p)
          /\ Go(p, "failed")
          /\ UNCHANGED <<main, pulls, merge>>
    /\ UNCHANGED <<checkout, pr, branch, published, faults, meddling>>

\* The merged tree must be the tested one; main may have moved since compare.
Verify(p) ==
    /\ pc[p] = "verify"
    /\ Go(p, IF Tree(merge[p]) = Tree(sha[p]) THEN "getTag" ELSE "failed")
    /\ UNCHANGED <<checkout, pr, merge, repo, published, faults, meddling>>

\* Mutant: any existing tag will do.
GetTagAny(p) ==
    /\ pc[p] = "getTag"
    /\ Go(p, IF tag = None THEN "createTag" ELSE "getRelease")
    /\ UNCHANGED <<checkout, pr, merge, repo, published, faults, meddling>>

\* Mutant: a rerun does not reuse its tag.
GetTagNoReuse(p) ==
    /\ pc[p] = "getTag"
    /\ Go(p, IF tag = None THEN "createTag" ELSE "failed")
    /\ UNCHANGED <<checkout, pr, merge, repo, published, faults, meddling>>

GetTag(p) ==
    /\ pc[p] = "getTag"
    /\ Go(p, IF tag = None THEN "createTag"
             ELSE IF tag = merge[p] THEN "getRelease" ELSE "failed")
    /\ UNCHANGED <<checkout, pr, merge, repo, published, faults, meddling>>

\* GitHub does not move an existing tag on POST /git/refs.
CreateTag(p) ==
    /\ pc[p] = "createTag"
    /\ \/ tag = None /\ tag' = merge[p] /\ Go(p, "getRelease")
       \/ tag # None /\ Go(p, "failed") /\ UNCHANGED tag
    /\ UNCHANGED <<checkout, pr, merge, repo, release, faults, meddling>>

GetRelease(p) ==
    /\ pc[p] = "getRelease"
    /\ Go(p, CASE release = "none" -> "createRelease"
               [] release = "prerelease" -> "done"
               [] release = "other" -> "failed")
    /\ UNCHANGED <<checkout, pr, merge, repo, published, faults, meddling>>

CreateRelease(p) ==
    /\ pc[p] = "createRelease"
    /\ \/ release = "none" /\ release' = "prerelease" /\ Go(p, "done")
       \/ release # "none" /\ Go(p, "failed") /\ UNCHANGED release
    /\ UNCHANGED <<checkout, pr, merge, repo, tag, faults, meddling>>

\* HTTPError, URLError or the 45 s timeout: the request may have been carried
\* out all the same, and its answer is lost.  A kill of the script is the same.
RequestFails(p) ==
    /\ pc[p] \in Request
    /\ faults < MaxFaults
    /\ faults' = faults + 1
    /\ \/ UNCHANGED <<main, pulls, tag, release>>
       \/ /\ pc[p] = "createPull" /\ PullAllowed
          /\ pulls' = WithPull
          /\ UNCHANGED <<main, tag, release>>
       \/ /\ pc[p] = "mergePull" /\ Pinned(p)
          /\ MergeOnGitHub(pr[p])
          /\ UNCHANGED <<tag, release>>
       \/ /\ pc[p] = "createTag" /\ tag = None
          /\ tag' = merge[p]
          /\ UNCHANGED <<main, pulls, release>>
       \/ /\ pc[p] = "createRelease" /\ release = "none"
          /\ release' = "prerelease"
          /\ UNCHANGED <<main, pulls, tag>>
    /\ Go(p, "failed")
    /\ UNCHANGED <<checkout, pr, merge, branch, meddling>>

-----------------------------------------------------------------------------
(* People. *)

Meddle == meddling < MaxMeddling /\ meddling' = meddling + 1

\* Work goes on in the checkout, also while the script runs there.
WorkLocally(p) ==
    /\ \E c \in Local \ head[p] : head' = [head EXCEPT ![p] = @ \cup {c}]
    /\ Meddle
    /\ UNCHANGED <<tested, sha, pc, pr, merge, repo, published, faults>>

\* Main is merged into the branch, as the divergence error asks.
Reconcile(p) ==
    /\ head' = [head EXCEPT ![p] = @ \cup main]
    /\ Meddle
    /\ UNCHANGED <<tested, sha, pc, pr, merge, repo, published, faults>>

\* Git refuses a push that is not a fast-forward.
Push(p) ==
    /\ branch \subseteq head[p]
    /\ branch # head[p]
    /\ branch' = head[p]
    /\ UNCHANGED <<checkout, pc, pr, merge, main, pulls, published, faults, meddling>>

MoveMain ==
    /\ \E u \in Upstream \ main : main' = main \cup {u}
    /\ Meddle
    /\ UNCHANGED <<checkout, pc, pr, merge, branch, pulls, published, faults>>

\* Someone completes the pull request on the site, or closes it.
MergeByHand(i) ==
    /\ pulls[i].state = "open"
    /\ MergeOnGitHub(i)
    /\ Meddle
    /\ UNCHANGED <<checkout, pc, pr, merge, branch, published, faults>>

CloseByHand(i) ==
    /\ pulls[i].state = "open"
    /\ pulls' = [pulls EXCEPT ![i] = [@ EXCEPT !.state = "closed", !.head = branch]]
    /\ Meddle
    /\ UNCHANGED <<checkout, pc, pr, merge, branch, main, published, faults>>

\* Someone tags main or the branch, or publishes a release, under the same name.
TagByHand ==
    /\ tag = None
    /\ tag' \in {main, branch}
    /\ Meddle
    /\ UNCHANGED <<checkout, pc, pr, merge, repo, release, faults>>

ReleaseByHand ==
    /\ tag # None /\ release = "none"
    /\ release' \in {"prerelease", "other"}
    /\ Meddle
    /\ UNCHANGED <<checkout, pc, pr, merge, repo, tag, faults>>

-----------------------------------------------------------------------------
Step(p) ==
    \/ Start(p) \/ RevParse(p) \/ GetHead(p) \/ ListPulls(p) \/ Compare(p)
    \/ CreatePull(p) \/ MergePull(p) \/ Verify(p) \/ GetTag(p) \/ CreateTag(p)
    \/ GetRelease(p) \/ CreateRelease(p)

Next ==
    \/ \E p \in Publisher : Step(p) \/ RequestFails(p) \/ WorkLocally(p) \/ Reconcile(p) \/ Push(p)
    \/ \E i \in DOMAIN pulls : MergeByHand(i) \/ CloseByHand(i)
    \/ MoveMain \/ TagByHand \/ ReleaseByHand

Spec == Init /\ [][Next]_vars

\* Every request is answered or times out, and a failed script is run again.
FairSpec == Spec /\ \A p \in Publisher : WF_vars(Step(p))
-----------------------------------------------------------------------------
(* Properties. *)

\* A script that reports its prerelease has one, on a tag whose tree is the one
\* it set out to publish, whoever else merged, tagged or released meanwhile.
PublishedIsVerified ==
    \A p \in Publisher : pc[p] = "done" =>
        /\ release = "prerelease"
        /\ tag # None
        /\ Tree(tag) = Tree(sha[p])

\* What a script merges into main is the commit it was told to publish, even
\* when the branch is pushed to after the check of its head.
MergesItsCommit ==
    [][\A p \in Publisher : pc[p] = "mergePull" /\ pc'[p] # pc[p] /\ main' # main =>
           Tree(main') = Tree(main \cup sha[p])]_vars

\* What no rerun can repair.
Blocked(p) ==
    LET merged == InState(Matching(head[p]), "merged")
        last == pulls[Newest(merged)].merge
    IN \/ branch # head[p]
       \/ merged = {} /\ (~(main \subseteq head[p]) \/ head[p] \subseteq main)
       \/ merged # {} /\ (Tree(last) # Tree(head[p]) \/ tag \notin {None, last})
       \/ release = "other"

\* Reruns reconcile: whatever was lost or raced, each checkout is published in
\* the end unless its branch, main, the tag or the release stand in the way.
Reconciles == \A p \in Publisher : <>[](pc[p] = "done" \/ Blocked(p))

\* RELEASING.md: the merged tree equals the tested tree before a tag and a
\* release are created.
PublishedWasTested ==
    \A p \in Publisher : pc[p] = "done" => Tree(sha[p]) = Tree(tested[p])
=============================================================================
