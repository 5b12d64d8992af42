--------------------------- MODULE CampaignProofs ---------------------------
(***************************************************************************)
(* Proofs about Campaign, for any number of campaigns, sources, failures   *)
(* and signals.                                                            *)
(***************************************************************************)
EXTENDS Campaign, TLAPS

LEMMA TwoBudgets == DOMAIN Budgets = 1..2 /\ Len(Budgets) = 2
  BY DEF Budgets

LEMMA OverwriteSeq ==
  ASSUME NEW S, NEW s \in Seq(S), NEW i \in DOMAIN s, NEW c \in S
  PROVE  [s EXCEPT ![i] = c] \in Seq(S)
  OBVIOUS

\* What a file that is written leaves of the directory's typing.
LEMMA WriteType ==
  ASSUME TypeOK, NEW c \in Container \cup {Foreign}, Write(c) \/ UNCHANGED directory
  PROVE  results' \in Seq(Container \cup {Foreign}) /\ clashed' \subseteq DOMAIN results'
<1>1. results \in Seq(Container \cup {Foreign}) /\ clashed \subseteq DOMAIN results
  BY DEF TypeOK
<1>2. CASE results' = Append(results, c) /\ UNCHANGED clashed
  BY <1>1, <1>2
<1>3. CASE /\ results # <<>>
           /\ results' = [results EXCEPT ![Len(results)] = c]
           /\ clashed' = clashed \cup {Len(results)}
  <2>1. Len(results) \in DOMAIN results
    BY <1>1, <1>3
  <2>2. results' \in Seq(Container \cup {Foreign}) /\ DOMAIN results' = DOMAIN results
    BY <1>1, <1>3, <2>1, OverwriteSeq
  <2>3. QED
    BY <1>1, <1>3, <2>1, <2>2
<1>4. CASE UNCHANGED directory
  BY <1>1, <1>4 DEF directory
<1>5. QED
  BY <1>2, <1>3, <1>4 DEF Write

LEMMA TargetType ==
  ASSUME TypeOK, NEW r \in Runner
  PROVE  Target(r) \in Container
  BY CampaignAssumption, TwoBudgets DEF Target, TypeOK, Container, Variant

LEMMA JournalUpdates ==
  ASSUME TypeOK, NEW r \in Runner
  PROVE  /\ \A e \in Evidence :
               [journal EXCEPT ![r].evidence = Append(@, e)] \in [Runner -> Journal]
         /\ \A v \in Variant : [journal EXCEPT ![r].active = v] \in [Runner -> Journal]
         /\ [journal EXCEPT ![r].stopError = TRUE] \in [Runner -> Journal]
         /\ Restored(r) => journal' \in [Runner -> Journal]
<1>0. journal \in [Runner -> Journal] /\ journal[r] \in Journal
  BY DEF TypeOK
<1>1. ASSUME NEW e \in Evidence
      PROVE  [journal EXCEPT ![r].evidence = Append(@, e)] \in [Runner -> Journal]
  <2>1. Append(journal[r].evidence, e) \in Seq(Evidence)
    BY <1>0 DEF Journal
  <2>2. QED
    BY <1>0, <2>1 DEF Journal
<1>2. ASSUME NEW v \in Variant
      PROVE  [journal EXCEPT ![r].active = v] \in [Runner -> Journal]
  BY <1>0 DEF Journal
<1>3. [journal EXCEPT ![r].stopError = TRUE] \in [Runner -> Journal]
  BY <1>0 DEF Journal
<1>4. Restored(r) => journal' \in [Runner -> Journal]
  <2>1. [journal[r] EXCEPT !.restored = TRUE, !.active = None] \in Journal
    BY <1>0 DEF Journal
  <2>2. QED
    BY <1>0, <2>1 DEF Restored
<1>5. QED
  BY <1>1, <1>2, <1>3, <1>4

\* A process that is about to create a container has stopped the source.
StepInv == \A r \in Runner : pc[r] \in {"create", "bind"} => step[r] # 0

TypeInv == TypeOK /\ StepInv

USE DEF Go, Exit, Raise, daemon, local, files, directory, world, Fault

\* A benchmark, however it ends, and a request that was interrupted.
LEMMA BenchmarkType ==
  ASSUME TypeOK, NEW r \in Runner, Benchmark(r) \/ UNCHANGED directory
  PROVE  results' \in Seq(Container \cup {Foreign}) /\ clashed' \subseteq DOMAIN results'
  BY TargetType, WriteType DEF Benchmark

\* What an API call leaves of the typing of containers.
LEMMA EffectType ==
  ASSUME TypeOK, NEW r \in Runner
  PROVE  /\ Effect(r) \in [Container -> {"absent", "created", "loading", "serving", "exited"}]
         /\ \A c : StopOf(c) \in [Container -> {"absent", "created", "loading", "serving", "exited"}]
         /\ \A c : StartOf(c) \in [Container -> {"absent", "created", "loading", "serving", "exited"}]
  BY DEF TypeOK, Effect, StopOf, StartOf

LEMMA TypeInit == Init => TypeInv
  BY CampaignAssumption
     DEF Init, TypeInv, TypeOK, StepInv, Journal, Alive, Starting, Ended

\* Where an exception leaves a process, and the lock if the process ends.
LEMMA UnwindType ==
  ASSUME TypeOK, StepInv, NEW r \in Runner, Unwind(r) \/ Exit(r, "killed"),
         step' = step
  PROVE  /\ pc' \in [Runner -> Alive \cup Ended]
         /\ lockedBy' \in [Source -> Runner \cup {None}]
         /\ StepInv'
<1> USE DEF StepInv, Alive, Starting, Trying, Cleaning, Ended
<1>1. CASE Raise(r) /\ UNCHANGED lockedBy
  BY <1>1 DEF TypeOK
<1>2. CASE Go(r, "stopActive") /\ UNCHANGED lockedBy
  BY <1>2 DEF TypeOK
<1>3. CASE Exit(r, "aborted")
  BY <1>3, CampaignAssumption DEF TypeOK
<1>4. CASE Exit(r, "killed")
  BY <1>4, CampaignAssumption DEF TypeOK
<1>5. QED
  BY <1>1, <1>2, <1>3, <1>4, Zenon DEF Unwind

LEMMA TypeStep == TypeInv /\ [Next]_vars => TypeInv'
<1> SUFFICES ASSUME TypeOK, StepInv, [Next]_vars PROVE TypeOK' /\ StepInv'
  BY DEF TypeInv
<1> USE DEF StepInv, Alive, Starting, Trying, Cleaning, Ended
<1>1. ASSUME NEW r \in Runner, Decline(r) \/ Inspect(r) \/ Lock(r) \/ Prepare(r)
      PROVE  TypeOK' /\ StepInv'
  <2>1. CASE Decline(r)
    BY <2>1 DEF TypeOK, Decline
  <2>2. CASE Inspect(r)
    BY <2>2 DEF TypeOK, Inspect
  <2>3. CASE Lock(r)
    BY <2>3, CampaignAssumption DEF TypeOK, Lock
  <2>4. CASE Prepare(r)
    BY <2>4 DEF TypeOK, Prepare
  <2>5. QED
    BY <1>1, <2>1, <2>2, <2>3, <2>4
<1>2. ASSUME NEW r \in Runner, Ready(r) PROVE TypeOK' /\ StepInv'
  BY <1>2 DEF TypeOK, Ready
<1>3. ASSUME NEW r \in Runner, Glob(r) PROVE TypeOK' /\ StepInv'
  BY <1>3 DEF TypeOK, Glob
<1>4. ASSUME NEW r \in Runner, RunPaired(r) PROVE TypeOK' /\ StepInv'
  <2>1. results' \in Seq(Container \cup {Foreign}) /\ clashed' \subseteq DOMAIN results'
    BY <1>4, TargetType, WriteType, BenchmarkType DEF RunPaired
  <2>2. QED
    BY <1>4, <2>1 DEF TypeOK, RunPaired
<1>5. ASSUME NEW r \in Runner, Collect(r) PROVE TypeOK' /\ StepInv'
  <2>1. journal' \in [Runner -> Journal]
    <3>1. CASE Len(results) = before[r] + 1
      <4>1. [of |-> results[Len(results)], file |-> Len(results)] \in Evidence
        BY <3>1 DEF TypeOK, Evidence
      <4>2. Enter(r)
        BY <1>5, <3>1 DEF Collect
      <4>3. [journal EXCEPT ![r].evidence =
                Append(@, [of |-> results[Len(results)], file |-> Len(results)])]
              \in [Runner -> Journal]
        BY <4>1, JournalUpdates
      <4>4. QED
        BY <4>2, <4>3 DEF Enter
    <3>2. CASE Len(results) # before[r] + 1
      BY <1>5, <3>2 DEF Collect, TypeOK
    <3>3. QED
      BY <3>1, <3>2
  <2>2. QED
    BY <1>5, <2>1 DEF TypeOK, Collect
<1>6. ASSUME NEW r \in Runner, Truncate(r) \/ SaveJournal(r)
      PROVE  TypeOK' /\ StepInv'
  <2>1. CASE Truncate(r)
    BY <2>1 DEF TypeOK, Truncate
  <2>2. CASE SaveJournal(r)
    <3>1. AfterSave(r) \in {"startVariant", "stopActive", "lend", "stopVariant"}
      BY DEF AfterSave
    <3>2. disk' \in [Runner -> Journal \cup {Torn}]
      BY <2>2 DEF TypeOK, SaveJournal
    <3>3. CASE Exit(r, "done")
      BY <2>2, <3>2, <3>3, CampaignAssumption DEF TypeOK, SaveJournal
    <3>4. CASE Go(r, AfterSave(r)) /\ UNCHANGED lockedBy
      <4>1. /\ pc' \in [Runner -> Alive \cup Ended]
            /\ StepInv'
        BY <2>2, <3>1, <3>4 DEF TypeOK, SaveJournal
      <4>2. QED
        BY <2>2, <3>2, <3>4, <4>1 DEF TypeOK, SaveJournal
    <3>5. QED
      BY <2>2, <3>3, <3>4 DEF SaveJournal
  <2>3. QED
    BY <1>6, <2>1, <2>2
<1>7. ASSUME NEW r \in Runner, Lend(r) PROVE TypeOK' /\ StepInv'
  BY <1>7 DEF TypeOK, Lend
<1>8. ASSUME NEW r \in Runner, StopSource(r) \/ Create(r)
      PROVE  TypeOK' /\ StepInv'
  <2>1. container' \in [Container -> {"absent", "created", "loading", "serving", "exited"}]
    BY <1>8, EffectType DEF StopSource, Create
  <2>2. QED
    <3>1. CASE StopSource(r)
      BY <3>1, <2>1 DEF TypeOK, StopSource
    <3>2. CASE Create(r)
      BY <3>2, <2>1 DEF TypeOK, Create
    <3>3. QED
      BY <1>8, <3>1, <3>2
<1>9. ASSUME NEW r \in Runner, Bind(r) PROVE TypeOK' /\ StepInv'
  <2>1. <<r, step[r]>> \in Variant
    BY <1>9, TwoBudgets DEF Bind, TypeOK, Variant
  <2>2. journal' \in [Runner -> Journal]
    BY <1>9, <2>1, JournalUpdates DEF Bind
  <2>3. QED
    BY <1>9, <2>1, <2>2 DEF TypeOK, Bind
<1>10. ASSUME NEW r \in Runner, StartVariant(r) PROVE TypeOK' /\ StepInv'
  <2>1. container' \in [Container -> {"absent", "created", "loading", "serving", "exited"}]
    BY <1>10, EffectType DEF StartVariant, TypeOK
  <2>2. QED
    BY <1>10, <2>1 DEF TypeOK, StartVariant
<1>11. ASSUME NEW r \in Runner, StopVariant(r) PROVE TypeOK' /\ StepInv'
  <2>1. container' \in [Container -> {"absent", "created", "loading", "serving", "exited"}]
    BY <1>11, EffectType DEF StopVariant
  <2>2. step' \in [Runner -> 0..2] /\ StepInv'
    <3>1. CASE step[r] < Len(Budgets) /\ step' = [step EXCEPT ![r] = @ + 1]
                /\ Go(r, "create")
      <4>1. step[r] \in 0..2 /\ step[r] < 2
        BY <3>1, TwoBudgets DEF TypeOK
      <4>2. QED
        BY <3>1, <4>1 DEF TypeOK
    <3>2. CASE Go(r, "stopActive") /\ UNCHANGED step
      BY <3>2 DEF TypeOK
    <3>3. QED
      BY <1>11, <3>1, <3>2 DEF StopVariant
  <2>3. QED
    BY <1>11, <2>1, <2>2 DEF TypeOK, StopVariant
<1>12. ASSUME NEW r \in Runner, StopActive(r) PROVE TypeOK' /\ StepInv'
  <2>1. container' \in [Container -> {"absent", "created", "loading", "serving", "exited"}]
    BY <1>12, EffectType DEF StopActive, TypeOK
  <2>2. faults' \in Nat
    BY <1>12 DEF StopActive, TypeOK
  <2>3. QED
    <3>1. journal' \in [Runner -> Journal]
      <4>1. CASE UNCHANGED journal
        BY <4>1 DEF TypeOK
      <4>2. CASE journal' = [journal EXCEPT ![r].stopError = TRUE]
        BY <4>2, JournalUpdates
      <4>3. UNCHANGED <<journal, world>> => UNCHANGED journal
        OBVIOUS
      <4>4. QED
        <5> HIDE DEF world, Fault, Go
        <5>1. QED
          BY <1>12, <4>1, <4>2, <4>3, Zenon DEF StopActive
    <3>2. orphan' = orphan /\ signals' \in Nat
      BY <1>12 DEF StopActive, TypeOK
    <3>3. pc' \in [Runner -> Alive \cup Ended] /\ StepInv'
      BY <1>12 DEF StopActive, TypeOK
    <3>4. UNCHANGED <<lockedBy, step, active, stopped, checked, before, disk, directory>>
      BY <1>12 DEF StopActive
    <3>5. QED
      BY <2>1, <2>2, <3>1, <3>2, <3>3, <3>4 DEF TypeOK
<1>13. ASSUME NEW r \in Runner, StartSource(r) PROVE TypeOK' /\ StepInv'
  <2>1. container' \in [Container -> {"absent", "created", "loading", "serving", "exited"}]
    BY <1>13, EffectType DEF StartSource, TypeOK
  <2>2. QED
    <3>1. journal' \in [Runner -> Journal]
      BY <1>13, JournalUpdates DEF StartSource, TypeOK
    <3>2. QED
      BY <1>13, <2>1, <3>1 DEF TypeOK, StartSource
<1>14. ASSUME NEW r \in Runner, ReadySource(r) PROVE TypeOK' /\ StepInv'
  <2>1. journal' \in [Runner -> Journal]
    BY <1>14, JournalUpdates DEF ReadySource, TypeOK
  <2>2. QED
    BY <1>14, <2>1 DEF TypeOK, ReadySource
<1>15. ASSUME NEW r \in Runner, DockerFails(r) PROVE TypeOK' /\ StepInv'
  <2>1. container' \in [Container -> {"absent", "created", "loading", "serving", "exited"}]
    BY <1>15, EffectType DEF DockerFails, TypeOK
  <2>2. faults' \in Nat
    BY <1>15 DEF DockerFails, TypeOK
  <2>3. Unwind(r) /\ UNCHANGED <<local, files, orphan, signals>>
    BY <1>15 DEF DockerFails
  <2>4. QED
    BY <2>1, <2>2, <2>3, UnwindType DEF TypeOK
<1>16. ASSUME NEW r \in Runner, SaveFails(r) \/ Interrupt(r) \/ Kill(r)
       PROVE  TypeOK' /\ StepInv'
  <2>1. faults' \in Nat /\ signals' \in Nat
    BY <1>16 DEF SaveFails, Interrupt, Kill, TypeOK
  <2>2. disk' \in [Runner -> Journal \cup {Torn}] /\ orphan' \in SUBSET Runner
    BY <1>16 DEF SaveFails, Interrupt, Kill, TypeOK
  <2>3. /\ Unwind(r) \/ Exit(r, "killed")
        /\ UNCHANGED <<local, journal>>
    BY <1>16 DEF SaveFails, Interrupt, Kill
  <2>4. results' \in Seq(Container \cup {Foreign}) /\ clashed' \subseteq DOMAIN results'
    BY <1>16, BenchmarkType DEF SaveFails, Interrupt, UnderWay, Kill
  <2>5. container' \in [Container -> {"absent", "created", "loading", "serving", "exited"}]
    BY <1>16, EffectType DEF SaveFails, Interrupt, UnderWay, Kill, TypeOK
  <2>6. QED
    BY <2>1, <2>2, <2>3, <2>4, <2>5, UnwindType DEF TypeOK
<1>17. ASSUME NEW r \in Runner, OrphanEnds(r) PROVE TypeOK' /\ StepInv'
  <2>1. results' \in Seq(Container \cup {Foreign}) /\ clashed' \subseteq DOMAIN results'
    BY <1>17, BenchmarkType DEF OrphanEnds
  <2>2. QED
    BY <1>17, <2>1 DEF TypeOK, OrphanEnds
<1>18. ASSUME NEW c \in Container, Load(c) \/ Die(c) PROVE TypeOK' /\ StepInv'
  <2>1. faults' \in Nat
    BY <1>18 DEF Load, Die, TypeOK
  <2>2. QED
    BY <1>18, <2>1 DEF TypeOK, Load, Die
<1>19. ASSUME ManualRun PROVE TypeOK' /\ StepInv'
  <2>1. results' \in Seq(Container \cup {Foreign}) /\ clashed' \subseteq DOMAIN results'
    BY <1>19, WriteType DEF ManualRun
  <2>2. QED
    BY <1>19, <2>1 DEF TypeOK, ManualRun
<1>20. ASSUME NEW s \in Source, Rescue(s) PROVE TypeOK' /\ StepInv'
  <2>1. container' \in [Container -> {"absent", "created", "loading", "serving", "exited"}]
    BY <1>20, EffectType DEF Rescue, TypeOK, StopOf, StartOf
  <2>2. pc' \in [Runner -> Alive \cup Ended] /\ StepInv'
    BY <1>20 DEF Rescue, TypeOK
  <2>3. QED
    BY <1>20, <2>1, <2>2 DEF TypeOK, Rescue
<1>21. CASE UNCHANGED vars
  BY <1>21 DEF TypeOK, vars
<1>22. QED
  BY <1>1, <1>2, <1>3, <1>4, <1>5, <1>6, <1>7, <1>8, <1>9, <1>10, <1>11, <1>12,
     <1>13, <1>14, <1>15, <1>16, <1>17, <1>18, <1>19, <1>20, <1>21
     DEF Next, Step

\* The variables keep their types and every container of a campaign is created
\* for one of its budgets (campaign.py lines 127-157).
THEOREM TypeCorrect == Spec => []TypeOK
<1>1. Init => TypeInv
  BY TypeInit
<1>2. TypeInv /\ [Next]_vars => TypeInv'
  BY TypeStep
<1>3. TypeInv => TypeOK
  BY DEF TypeInv
<1>4. QED
  BY <1>1, <1>2, <1>3, PTL DEF Spec

-----------------------------------------------------------------------------
(* The lock. *)

\* A campaign past the lock is the holder of its source's lock: what makes
\* OneCampaignPerSource inductive.
LockInv == \A r \in Runner : pc[r] \in Holding => lockedBy[SourceOf[r]] = r

LEMMA LockInit == Init => LockInv
  BY DEF Init, LockInv, Holding, Alive, Starting, Trying, Cleaning

\* A step takes the lock, gives up the locks of a process that ends, or leaves
\* the locks and the set of processes past them alone.
LEMMA LockSteps ==
  ASSUME TypeOK, [Next]_vars
  PROVE  \/ \E r \in Runner : Lock(r)
         \/ \E r \in Runner : \E p \in Ended : Exit(r, p)
         \/ /\ UNCHANGED lockedBy
            /\ \A r \in Runner : pc'[r] \in Holding => pc[r] \in Holding
<1> USE DEF Holding, Alive, Starting, Trying, Cleaning, Ended, TypeOK
<1>1. ASSUME NEW r \in Runner, Decline(r) \/ Kill(r)
      PROVE  \E p \in Ended : Exit(r, p)
  BY <1>1 DEF Decline, Kill
<1>2. ASSUME NEW r \in Runner, Interrupt(r) \/ SaveFails(r) \/ DockerFails(r)
      PROVE  \/ \E p \in Ended : Exit(r, p)
             \/ /\ UNCHANGED lockedBy
                /\ \A q \in Runner : pc'[q] \in Holding => pc[q] \in Holding
  BY <1>2 DEF Interrupt, SaveFails, DockerFails, Unwind
<1>3. ASSUME NEW r \in Runner, SaveJournal(r) \/ ReadySource(r)
      PROVE  \/ \E p \in Ended : Exit(r, p)
             \/ /\ UNCHANGED lockedBy
                /\ \A q \in Runner : pc'[q] \in Holding => pc[q] \in Holding
  BY <1>3 DEF SaveJournal, ReadySource, SavePoint
<1>4. ASSUME NEW r \in Runner,
             \/ Inspect(r) \/ Prepare(r) \/ Ready(r) \/ Glob(r) \/ RunPaired(r)
             \/ Collect(r) \/ Truncate(r) \/ Lend(r) \/ StopSource(r) \/ Create(r)
             \/ Bind(r) \/ StartVariant(r) \/ StopVariant(r) \/ StopActive(r)
             \/ StartSource(r) \/ OrphanEnds(r)
      PROVE  /\ UNCHANGED lockedBy
             /\ \A q \in Runner : pc'[q] \in Holding => pc[q] \in Holding
  <2>1. CASE Inspect(r) \/ Prepare(r) \/ Ready(r) \/ Glob(r) \/ RunPaired(r)
    BY <2>1 DEF Inspect, Prepare, Ready, Glob, RunPaired
  <2>2. CASE Collect(r) \/ Truncate(r) \/ Lend(r) \/ StopSource(r) \/ Create(r)
    BY <2>2 DEF Collect, Truncate, Lend, StopSource, Create, SavePoint
  <2>3. CASE \/ Bind(r) \/ StartVariant(r) \/ StopVariant(r) \/ StopActive(r)
             \/ StartSource(r) \/ OrphanEnds(r)
    BY <2>3 DEF Bind, StartVariant, StopVariant, StopActive, StartSource, OrphanEnds
  <2>4. QED
    BY <1>4, <2>1, <2>2, <2>3
<1>5. ASSUME \/ \E c \in Container : Load(c) \/ Die(c)
             \/ \E s \in Source : Rescue(s)
             \/ ManualRun
             \/ UNCHANGED vars
      PROVE  /\ UNCHANGED lockedBy
             /\ \A q \in Runner : pc'[q] \in Holding => pc[q] \in Holding
  BY <1>5 DEF Load, Die, Rescue, ManualRun, vars
<1>6. QED
  BY <1>1, <1>2, <1>3, <1>4, <1>5 DEF Next, Step

LEMMA LockStep == TypeOK /\ LockInv /\ [Next]_vars => LockInv'
<1> SUFFICES ASSUME TypeOK, LockInv, [Next]_vars PROVE LockInv'
  OBVIOUS
<1> USE CampaignAssumption DEF TypeOK, LockInv
<1>1. ASSUME NEW r \in Runner, Lock(r) PROVE LockInv'
  BY <1>1 DEF Lock, Holding, Alive, Starting, Trying, Cleaning
<1>2. ASSUME NEW r \in Runner, NEW p \in Ended, Exit(r, p) PROVE LockInv'
  <2>1. p \notin Holding
    BY DEF Holding, Alive, Starting, Trying, Cleaning, Ended
  <2>2. QED
    BY <1>2, <2>1
<1>3. CASE /\ UNCHANGED lockedBy
           /\ \A r \in Runner : pc'[r] \in Holding => pc[r] \in Holding
  BY <1>3
<1>4. CASE \E r \in Runner : \E p \in Ended : Exit(r, p)
  <2>1. PICK r \in Runner, p \in Ended : Exit(r, p)
    BY <1>4 DEF Exit
  <2>2. QED
    BY <2>1, <1>2
<1>5. QED
  <2>1. \/ \E r \in Runner : Lock(r)
        \/ \E r \in Runner : \E p \in Ended : Exit(r, p)
        \/ /\ UNCHANGED lockedBy
           /\ \A r \in Runner : pc'[r] \in Holding => pc[r] \in Holding
    BY LockSteps
  <2>2. QED
    BY <2>1, <1>1, <1>3, <1>4

\* However many campaigns are started, killed and started again on one source,
\* at most one is past its flock (campaign.py lines 75-79).
THEOREM CampaignExclusion == Spec => []OneCampaignPerSource
<1>1. Init => TypeInv /\ LockInv
  BY TypeInit, LockInit
<1>2. TypeInv /\ LockInv /\ [Next]_vars => TypeInv' /\ LockInv'
  BY TypeStep, LockStep DEF TypeInv
<1>3. LockInv => OneCampaignPerSource
  <2>1. ASSUME LockInv, NEW r1 \in Runner, NEW r2 \in Runner, r1 # r2,
               SourceOf[r1] = SourceOf[r2], pc[r1] \in Holding, pc[r2] \in Holding
        PROVE  FALSE
    BY <2>1 DEF LockInv
  <2>2. QED
    BY <2>1 DEF OneCampaignPerSource
<1>4. QED
  BY <1>1, <1>2, <1>3, PTL DEF Spec

-----------------------------------------------------------------------------
(* The journal. *)

\* Why a running variant is always named on disk: its id reaches the journal
\* and the disk before it is started, the process keeps it in `active' until
\* it has stopped it, and forgets it after a failed stop only.
NamedInv(r) ==
    /\ pc[r] \in {"saveVariant", "startVariant"} =>
          /\ step[r] # 0
          /\ active[r] = <<r, step[r]>>
          /\ journal[r].active = active[r]
    /\ pc[r] \in {"lend", "stopSource"} => step[r] = 0
    /\ pc[r] = "startVariant" => disk[r] = journal[r]
    /\ \A i \in DOMAIN Budgets : Up(<<r, i>>) =>
          /\ step[r] # 0
          /\ pc[r] \notin Starting \cup {"create", "bind", "declined"}
          /\ pc[r] \in Trying \cup {"saveError", "stopActive"} =>
                active[r] = <<r, i>> /\ journal[r].active = <<r, i>>
          /\ pc[r] \in {"startSource", "readySource", "saveRestored"} =>
                journal[r].stopError
          /\ \/ disk[r] = Torn
             \/ disk[r].active = <<r, i>>
             \/ pc[r] = "done" /\ disk[r].stopError

FindInv == \A r \in Runner : NamedInv(r)

LEMMA NamedInit == Init => FindInv
<1> SUFFICES ASSUME Init, NEW r \in Runner PROVE NamedInv(r)
  BY DEF FindInv
<1>1. ASSUME NEW i \in DOMAIN Budgets PROVE ~ Up(<<r, i>>)
  <2>1. <<r, i>> \in Variant /\ <<r, i>> \in Container
    BY DEF Variant, Container
  <2>2. container[<<r, i>>] = "absent"
    BY <2>1 DEF Init
  <2>3. QED
    BY <2>2 DEF Up
<1>2. pc[r] = "inspect"
  BY DEF Init
<1>3. QED
  BY <1>1, <1>2 DEF NamedInv

\* A step of the process r, as opposed to one of its surroundings.
Act(r) == Step(r) \/ DockerFails(r) \/ SaveFails(r) \/ Interrupt(r) \/ Kill(r)
          \/ OrphanEnds(r)

\* A step of r leaves what belongs to any other process alone.
LEMMA OthersLocal ==
  ASSUME TypeOK, NEW r \in Runner, Act(r), NEW q \in Runner, q # r
  PROVE  /\ pc'[q] = pc[q] /\ step'[q] = step[q] /\ active'[q] = active[q]
         /\ journal'[q] = journal[q] /\ disk'[q] = disk[q]
<1> DEFINE Same == /\ pc'[q] = pc[q] /\ step'[q] = step[q] /\ active'[q] = active[q]
                   /\ journal'[q] = journal[q] /\ disk'[q] = disk[q]
<1> USE DEF TypeOK
<1>1. CASE Decline(r) \/ Inspect(r) \/ Lock(r) \/ Prepare(r) \/ Ready(r) \/ Glob(r)
  BY <1>1 DEF Decline, Inspect, Lock, Prepare, Ready, Glob
<1>2. CASE RunPaired(r) \/ Collect(r) \/ Truncate(r) \/ SaveJournal(r) \/ Lend(r)
  BY <1>2 DEF RunPaired, Collect, Enter, Truncate, SaveJournal, Lend
<1>3. CASE StopSource(r) \/ Create(r) \/ Bind(r) \/ StartVariant(r) \/ StopVariant(r)
  BY <1>3 DEF StopSource, Create, Bind, StartVariant, StopVariant
<1>4. CASE StopActive(r) \/ StartSource(r) \/ ReadySource(r)
  BY <1>4 DEF StopActive, StartSource, ReadySource, Restored
<1>5. CASE DockerFails(r) \/ SaveFails(r) \/ Interrupt(r) \/ Kill(r) \/ OrphanEnds(r)
  BY <1>5 DEF DockerFails, SaveFails, Interrupt, Kill, OrphanEnds, Unwind
<1>6. QED
  BY <1>1, <1>2, <1>3, <1>4, <1>5 DEF Act, Step

\* What a step of r can make of the containers.
LEMMA ContainerSteps ==
  ASSUME NEW r \in Runner, Act(r)
  PROVE  container' \in {container, Effect(r)}
<1>1. CASE Decline(r) \/ Inspect(r) \/ Lock(r) \/ Prepare(r) \/ Ready(r) \/ Glob(r)
  BY <1>1 DEF Decline, Inspect, Lock, Prepare, Ready, Glob
<1>2. CASE RunPaired(r) \/ Collect(r) \/ Truncate(r) \/ SaveJournal(r) \/ Lend(r)
  BY <1>2 DEF RunPaired, Collect, Truncate, SaveJournal, Lend
<1>3. CASE StopSource(r) \/ Create(r) \/ Bind(r) \/ StartVariant(r) \/ StopVariant(r)
  BY <1>3 DEF StopSource, Create, Bind, StartVariant, StopVariant
<1>4. CASE StopActive(r) \/ StartSource(r) \/ ReadySource(r)
  BY <1>4 DEF StopActive, StartSource, ReadySource
<1>5. CASE DockerFails(r) \/ SaveFails(r) \/ Interrupt(r) \/ Kill(r) \/ OrphanEnds(r)
  BY <1>5 DEF DockerFails, SaveFails, Interrupt, UnderWay, Kill, OrphanEnds
<1>6. QED
  BY <1>1, <1>2, <1>3, <1>4, <1>5 DEF Act, Step

\* What a request is about.
LEMMA EffectCases ==
  ASSUME NEW r \in Runner
  PROVE  /\ pc[r] = "create" => Effect(r) = [container EXCEPT ![<<r, step[r]>>] = "created"]
         /\ pc[r] = "stopSource" => Effect(r) = StopOf(SourceOf[r])
         /\ pc[r] \in {"stopVariant", "stopActive"} => Effect(r) \in {container, StopOf(active[r])}
         /\ pc[r] = "startVariant" => Effect(r) \in {container, StartOf(active[r])}
         /\ pc[r] = "startSource" => Effect(r) = IF stopped[r] THEN StartOf(SourceOf[r]) ELSE container
         /\ pc[r] \notin {"create", "stopSource", "stopVariant", "stopActive", "startVariant",
                           "startSource"} => Effect(r) = container
<1> HIDE DEF Go
<1>1. CASE pc[r] \in {"create", "stopSource", "stopVariant"}
  BY <1>1 DEF Effect
<1>2. CASE pc[r] = "startVariant"
  BY <1>2 DEF Effect
<1>3. CASE pc[r] \in {"stopActive", "startSource"}
  BY <1>3 DEF Effect
<1>4. CASE pc[r] \notin {"create", "stopSource", "stopVariant", "stopActive", "startVariant",
                         "startSource"}
  BY <1>4 DEF Effect
<1>5. QED
  BY <1>1, <1>2, <1>3, <1>4

\* The only variant a step of r can bring up is the one it is about to start.
LEMMA UpSteps ==
  ASSUME TypeOK, NEW r \in Runner, Act(r),
         NEW q \in Runner, NEW i \in DOMAIN Budgets, Up(<<q, i>>)'
  PROVE  Up(<<q, i>>) \/ (pc[r] = "startVariant" /\ <<q, i>> = active[r])
<1> DEFINE v == <<q, i>>
<1>0. v \in Variant /\ v \in Container /\ SourceOf[r] # v
  BY CampaignAssumption DEF Variant, Container
<1> HIDE DEF v
<1>1. ASSUME NEW c, StopOf(c)[v] \in {"loading", "serving"}
      PROVE  Up(v)
  BY <1>0, <1>1 DEF StopOf, Up, TypeOK
<1>2. ASSUME NEW c, c # v, StartOf(c)[v] \in {"loading", "serving"}
      PROVE  Up(v)
  BY <1>0, <1>2 DEF StartOf, Up, TypeOK
<1>3. ASSUME Effect(r)[v] \in {"loading", "serving"}
      PROVE  Up(v) \/ (pc[r] = "startVariant" /\ v = active[r])
  <2>1. CASE pc[r] = "create"
    BY <1>0, <1>3, <2>1, EffectCases DEF Up, TypeOK
  <2>2. CASE pc[r] \in {"stopSource", "stopVariant", "stopActive"}
    <3>1. \/ Effect(r) = container
          \/ Effect(r) = StopOf(SourceOf[r])
          \/ Effect(r) = StopOf(active[r])
      BY <2>2, EffectCases
    <3>2. QED
      BY <1>1, <1>3, <3>1 DEF Up
  <2>3. CASE pc[r] = "startSource"
    BY <1>0, <1>2, <1>3, <2>3, EffectCases DEF Up
  <2>4. CASE pc[r] = "startVariant"
    BY <1>2, <1>3, <2>4, EffectCases DEF Up
  <2>5. CASE pc[r] \notin {"create", "stopSource", "stopVariant", "stopActive", "startSource",
                           "startVariant"}
    BY <1>3, <2>5, EffectCases DEF Up
  <2>6. QED
    BY <2>1, <2>2, <2>3, <2>4, <2>5
<1>4. container'[v] \in {"loading", "serving"}
  BY DEF Up, v
<1>5. Up(v) \/ (pc[r] = "startVariant" /\ v = active[r])
  BY <1>3, <1>4, ContainerSteps DEF Up
<1>6. QED
  BY <1>5 DEF v

\* A process whose own state and whose variants a step leaves alone.
LEMMA NamedFrame ==
  ASSUME NEW q \in Runner, NamedInv(q),
         pc'[q] = pc[q], step'[q] = step[q], active'[q] = active[q],
         journal'[q] = journal[q], disk'[q] = disk[q],
         \A i \in DOMAIN Budgets : Up(<<q, i>>)' => Up(<<q, i>>)
  PROVE  NamedInv(q)'
  BY DEF NamedInv

\* A step of r keeps its own part of the invariant.
LEMMA NamedOwn ==
  ASSUME TypeInv, NEW r \in Runner, NamedInv(r), Act(r)
  PROVE  NamedInv(r)'
<1>0. /\ TypeOK
      /\ \A i \in DOMAIN Budgets :
            Up(<<r, i>>)' => Up(<<r, i>>) \/ (pc[r] = "startVariant" /\ <<r, i>> = active[r])
  BY UpSteps DEF TypeInv
<1> USE <1>0 DEF TypeOK, NamedInv, Starting, Trying
<1>1. CASE Decline(r) \/ Inspect(r) \/ Lock(r) \/ Prepare(r)
  BY <1>1 DEF Decline, Inspect, Lock, Prepare
<1>2. CASE Ready(r) \/ Glob(r) \/ RunPaired(r)
  BY <1>2 DEF Ready, Glob, RunPaired
<1>3. CASE Collect(r)
  <2>1. journal'[r].active = journal[r].active
    BY <1>3 DEF Collect, Enter, Journal
  <2>2. QED
    BY <1>3, <2>1 DEF Collect
<1>4. CASE Truncate(r)
  BY <1>4 DEF Truncate, SavePoint
<1>5. CASE SaveJournal(r)
  <2>1. disk'[r] = journal[r] /\ UNCHANGED <<journal, container, active, step>>
    BY <1>5 DEF SaveJournal
  <2>2. CASE pc[r] = "saveRestored" /\ pc'[r] = "done"
    BY <2>1, <2>2 DEF Cleaning, Up
  <2>3. CASE pc[r] = "saveVariant" /\ pc'[r] = "startVariant"
    BY <2>1, <2>3 DEF Up
  <2>4. CASE pc[r] = "saveError" /\ pc'[r] = "stopActive"
    BY <2>1, <2>4 DEF Up
  <2>5. CASE /\ pc[r] = "saveEvidence"
             /\ pc'[r] = IF step[r] = 0 THEN "lend" ELSE "stopVariant"
    BY <2>1, <2>5 DEF Up
  <2>6. QED
    BY <1>5, <2>2, <2>3, <2>4, <2>5 DEF SaveJournal, SavePoint, AfterSave
<1>6. CASE Lend(r) \/ StopSource(r) \/ Create(r)
  BY <1>6 DEF Lend, StopSource, Create
<1>7. CASE Bind(r)
  <2>1. step[r] # 0
    BY <1>7 DEF TypeInv, StepInv, Bind
  <2>2. journal'[r].active = <<r, step[r]>> /\ active'[r] = <<r, step[r]>>
    BY <1>7 DEF Bind, Journal
  <2>3. QED
    BY <1>7, <2>1, <2>2 DEF Bind
<1>8. CASE StartVariant(r)
  BY <1>8 DEF StartVariant
<1>9. CASE StopVariant(r)
  <2>1. \A i \in DOMAIN Budgets : ~ Up(<<r, i>>)'
    <3>1. container' = StopOf(active[r])
      BY <1>9 DEF StopVariant, Effect
    <3>2. ASSUME NEW i \in DOMAIN Budgets, Up(<<r, i>>)' PROVE FALSE
      <4>1. active[r] = <<r, i>> /\ <<r, i>> \in Container
        BY <1>9, <3>2 DEF StopVariant, Variant, Container
      <4>2. QED
        BY <3>1, <3>2, <4>1 DEF StopOf, Up
    <3>3. QED
      BY <3>2
  <2>2. QED
    BY <1>9, <2>1 DEF StopVariant
<1>10. CASE StopActive(r)
  <2>1. CASE container' = Effect(r) /\ UNCHANGED journal
    <3>0. Effect(r) = IF active[r] = None THEN container ELSE StopOf(active[r])
      BY <1>10 DEF StopActive, Effect
    <3>1. ASSUME NEW i \in DOMAIN Budgets, Up(<<r, i>>)' PROVE FALSE
      <4>1. <<r, i>> \in Container /\ <<r, i>> # None
        BY CampaignAssumption DEF Variant, Container
      <4>2. active[r] = <<r, i>>
        BY <1>10, <2>1, <3>0, <3>1, <4>1 DEF StopActive, StopOf, Up
      <4>3. QED
        BY <2>1, <3>0, <3>1, <4>1, <4>2 DEF StopOf, Up
    <3>2. QED
      BY <1>10, <3>1 DEF StopActive
  <2>2. CASE journal' = [journal EXCEPT ![r].stopError = TRUE]
    <3>1. journal'[r].stopError
      BY <2>2 DEF Journal
    <3>2. QED
      BY <1>10, <3>1 DEF StopActive
  <2>3. QED
    BY <1>10, <2>1, <2>2 DEF StopActive
<1>11. CASE StartSource(r) \/ ReadySource(r)
  <2>1. Restored(r) => journal'[r].stopError = journal[r].stopError
    BY DEF Restored, Journal
  <2>2. QED
    BY <1>11, <2>1 DEF StartSource, ReadySource
<1>12. CASE DockerFails(r)
  <2>1. UNCHANGED <<journal, disk, active, step>>
    BY <1>12 DEF DockerFails
  <2>2. CASE pc[r] = "startVariant" /\ pc'[r] = "saveError"
    BY <2>1, <2>2
  <2>3. CASE /\ pc[r] \in {"ready", "stopSource", "create", "stopVariant"}
             /\ pc'[r] = "saveError"
    BY <2>1, <2>3
  <2>4. CASE pc[r] \in {"startSource", "readySource"} /\ pc'[r] = "aborted"
    BY <2>1, <2>4
  <2>5. QED
    BY <1>12, <2>2, <2>3, <2>4 DEF DockerFails, Unwind, Cleaning
<1>13. CASE SaveFails(r) \/ Interrupt(r)
  BY <1>13 DEF SaveFails, Interrupt, Unwind, Cleaning, SavePoint
<1>14. CASE Kill(r) \/ OrphanEnds(r)
  BY <1>14 DEF Kill, OrphanEnds, Alive, Cleaning
<1>15. QED
  BY <1>1, <1>2, <1>3, <1>4, <1>5, <1>6, <1>7, <1>8, <1>9, <1>10, <1>11, <1>12,
     <1>13, <1>14 DEF Act, Step

LEMMA NamedStep == TypeInv /\ FindInv /\ [Next]_vars => FindInv'
<1> SUFFICES ASSUME TypeInv, FindInv, [Next]_vars, NEW q \in Runner
             PROVE  NamedInv(q)'
  BY DEF FindInv
<1>0. TypeOK /\ NamedInv(q)
  BY DEF TypeInv, FindInv
<1>1. ASSUME NEW r \in Runner, Act(r) PROVE NamedInv(q)'
  <2>1. CASE q = r
    BY <1>0, <1>1, <2>1, NamedOwn
  <2>2. CASE q # r
    <3>1. ASSUME NEW i \in DOMAIN Budgets, Up(<<q, i>>)' PROVE Up(<<q, i>>)
      <4>1. CASE pc[r] = "startVariant" /\ <<q, i>> = active[r]
        <5>1. active[r] = <<r, step[r]>>
          BY <4>1 DEF FindInv, NamedInv
        <5>2. QED
          BY <4>1, <5>1, <2>2
      <4>2. QED
        BY <1>0, <1>1, <3>1, <4>1, UpSteps
    <3>2. QED
      BY <1>0, <1>1, <2>2, <3>1, OthersLocal, NamedFrame
  <2>3. QED
    BY <2>1, <2>2
<1>2. ASSUME NEW c \in Container, Load(c) \/ Die(c) PROVE NamedInv(q)'
  <2>1. ASSUME NEW i \in DOMAIN Budgets, Up(<<q, i>>)' PROVE Up(<<q, i>>)
    <3>1. <<q, i>> \in Container
      BY DEF Container, Variant
    <3>2. QED
      BY <1>0, <1>2, <2>1, <3>1 DEF Load, Die, Up, TypeOK
  <2>2. QED
    BY <1>0, <1>2, <2>1, NamedFrame DEF Load, Die
<1>3. ASSUME NEW s \in Source, Rescue(s) PROVE NamedInv(q)'
  <2>1. ASSUME NEW i \in DOMAIN Budgets, Up(<<q, i>>)' PROVE Up(<<q, i>>)
    <3>1. <<q, i>> \in Container /\ <<q, i>> # s
      BY CampaignAssumption DEF Container, Variant
    <3>2. container'[<<q, i>>] \in {container[<<q, i>>], StopOf(<<q, i>>)[<<q, i>>]}
      BY <1>3, <3>1 DEF Rescue
    <3>3. QED
      BY <1>0, <2>1, <3>1, <3>2 DEF StopOf, Up, TypeOK
  <2>2. UNCHANGED <<step, active, journal, disk>>
    BY <1>3 DEF Rescue
  <2>3. CASE pc'[q] = pc[q]
    BY <1>0, <2>1, <2>2, <2>3, NamedFrame
  <2>4. CASE pc[q] \in {"killed", "aborted"} /\ pc'[q] = "rescued"
    BY <1>0, <2>1, <2>2, <2>4 DEF NamedInv, Starting, Trying
  <2>5. QED
    BY <1>0, <1>3, <2>3, <2>4 DEF Rescue, TypeOK
<1>4. CASE ManualRun \/ UNCHANGED vars
  BY <1>0, <1>4, NamedFrame DEF ManualRun, vars, Up
<1>5. QED
  BY <1>1, <1>2, <1>3, <1>4 DEF Next, Act

\* At every instant, whatever has failed, been interrupted or been killed, a
\* running variant can be found from campaign.json (campaign.py lines 148-151
\* and 162-174): recovery after SIGKILL rests on this.
THEOREM JournalFindsVariants == Spec => []JournalNamesVariant
<1>1. Init => TypeInv /\ FindInv
  BY TypeInit, NamedInit
<1>2. TypeInv /\ FindInv /\ [Next]_vars => TypeInv' /\ FindInv'
  BY TypeStep, NamedStep
<1>3. FindInv => JournalNamesVariant
  <2>1. ASSUME FindInv, NEW v \in Variant, Up(v)
        PROVE  \/ disk[v[1]] = Torn
               \/ disk[v[1]].active = v
               \/ pc[v[1]] = "done" /\ disk[v[1]].stopError
    <3>1. PICK r \in Runner, i \in DOMAIN Budgets : v = <<r, i>>
      BY DEF Variant
    <3>2. NamedInv(r) /\ v[1] = r
      BY <2>1, <3>1 DEF FindInv
    <3>3. QED
      BY <2>1, <3>1, <3>2 DEF NamedInv
  <2>2. QED
    BY <2>1 DEF JournalNamesVariant
<1>4. QED
  BY <1>1, <1>2, <1>3, PTL DEF Spec

-----------------------------------------------------------------------------
(* Source and variant. *)

AnyUp(q) == \E i \in DOMAIN Budgets : Up(<<q, i>>)
Excused(q) == journal[q].stopError \/ (pc[q] = "rescued" /\ disk[q] = Torn)
Measured == {"glob", "run", "collect", "saveEvidence", "lend"}
Away == Trying \cup {"saveError", "stopActive", "startSource"}

\* Why source and variant stay apart: a campaign keeps its source down from before its
\* first variant until its cleanup (1-4), its own variant is down by then or known to be
\* not stoppable (5), and it found the source serving under the lock, which no
\* campaign before it left so beside a variant of its own (6).
ApartInv ==
    /\ \A r \in Runner : pc[r] \in Starting => ~stopped[r]
    /\ \A r \in Runner : step[r] # 0 \/ pc[r] = "stopSource" => stopped[r]
    /\ \A r \in Runner : pc[r] = "stopVariant" => step[r] # 0
    /\ \A r \in Runner : step[r] # 0 /\ pc[r] \in Away => ~Up(SourceOf[r])
    /\ \A r \in Runner : /\ AnyUp(r) /\ Up(SourceOf[r]) => Excused(r)
                         /\ pc[r] \in {"done", "rescued"} /\ AnyUp(r) => Excused(r)
    /\ \A r \in Runner : pc[r] \in Holding /\ (stopped[r] \/ pc[r] \in Measured) =>
          \A q \in Runner \ {r} : SourceOf[q] = SourceOf[r] /\ AnyUp(q) => Excused(q)

LEMMA ApartInit == Init => ApartInv
<1> SUFFICES ASSUME Init, NEW r \in Runner PROVE ~AnyUp(r) /\ pc[r] = "inspect" /\ step[r] = 0 /\ ~stopped[r]
  BY DEF ApartInv, Away, Holding, Measured, Starting, Trying
<1>1. ASSUME NEW i \in DOMAIN Budgets PROVE ~Up(<<r, i>>)
  <2>1. <<r, i>> \in Variant /\ <<r, i>> \in Container
    BY DEF Variant, Container
  <2>2. QED
    BY <2>1 DEF Init, Up
<1>2. QED
  BY <1>1 DEF Init, AnyUp

\* The only process that can bring up a source is one that has stopped it.
LEMMA SourceSteps ==
  ASSUME TypeOK, NEW r \in Runner, Act(r), NEW s \in Source, Up(s)'
  PROVE  Up(s) \/ (pc[r] = "startSource" /\ stopped[r] /\ s = SourceOf[r])
<1>0. s \in Container /\ s \notin Variant /\ s # None
  BY CampaignAssumption DEF Container
<1>1. active[r] # s
  BY <1>0 DEF TypeOK
<1>2. ASSUME NEW c, StopOf(c)[s] \in {"loading", "serving"}
      PROVE  Up(s)
  BY <1>0, <1>2 DEF StopOf, Up, TypeOK
<1>3. ASSUME NEW c, c # s, StartOf(c)[s] \in {"loading", "serving"}
      PROVE  Up(s)
  BY <1>0, <1>3 DEF StartOf, Up, TypeOK
<1>4. ASSUME Effect(r)[s] \in {"loading", "serving"}
      PROVE  Up(s) \/ (pc[r] = "startSource" /\ stopped[r] /\ s = SourceOf[r])
  <2>1. CASE pc[r] = "create"
    <3>1. <<r, step[r]>> # s
      <4>1. CASE step[r] \in 1..2
        BY <1>0, <4>1, TwoBudgets DEF Variant
      <4>2. CASE step[r] = 0
        BY <1>0, <1>4, <2>1, <4>2, EffectCases DEF Up, TypeOK
      <4>3. QED
        BY <4>1, <4>2 DEF TypeOK
    <3>2. QED
      BY <1>0, <1>4, <2>1, <3>1, EffectCases DEF Up, TypeOK
  <2>2. CASE pc[r] \in {"stopSource", "stopVariant", "stopActive"}
    <3>1. \/ Effect(r) = container
          \/ Effect(r) = StopOf(SourceOf[r])
          \/ Effect(r) = StopOf(active[r])
      BY <2>2, EffectCases
    <3>2. QED
      BY <1>2, <1>4, <3>1 DEF Up
  <2>3. CASE pc[r] = "startSource"
    BY <1>3, <1>4, <2>3, EffectCases DEF Up
  <2>4. CASE pc[r] = "startVariant"
    BY <1>1, <1>3, <1>4, <2>4, EffectCases DEF Up
  <2>5. CASE pc[r] \notin {"create", "stopSource", "stopVariant", "stopActive", "startSource",
                           "startVariant"}
    BY <1>4, <2>5, EffectCases DEF Up
  <2>6. QED
    BY <2>1, <2>2, <2>3, <2>4, <2>5
<1>5. container'[s] \in {"loading", "serving"}
  BY DEF Up
<1>6. QED
  BY <1>4, <1>5, ContainerSteps DEF Up

\* Outside the lock a process changes nothing.
LEMMA QuietOutside ==
  ASSUME NEW r \in Runner, Act(r), pc[r] \notin Holding
  PROVE  UNCHANGED <<container, journal, disk, stopped, step>>
<1> USE DEF Holding, Alive, Starting, Trying, Cleaning, SavePoint
<1>0. UNCHANGED container
  BY ContainerSteps, EffectCases
<1>1. CASE Decline(r) \/ Inspect(r) \/ Lock(r) \/ Prepare(r) \/ Ready(r) \/ Glob(r)
  BY <1>1 DEF Decline, Inspect, Lock, Prepare, Ready, Glob
<1>2. CASE RunPaired(r) \/ Collect(r) \/ Truncate(r) \/ SaveJournal(r) \/ Lend(r)
  BY <1>2 DEF RunPaired, Collect, Truncate, SaveJournal, Lend
<1>3. CASE \/ StopSource(r) \/ Create(r) \/ Bind(r) \/ StartVariant(r) \/ StopVariant(r)
           \/ StopActive(r) \/ StartSource(r) \/ ReadySource(r)
  BY <1>3 DEF StopSource, Create, Bind, StartVariant, StopVariant, StopActive, StartSource, ReadySource
<1>4. CASE DockerFails(r) \/ SaveFails(r) \/ Interrupt(r) \/ Kill(r) \/ OrphanEnds(r)
  BY <1>0, <1>4 DEF DockerFails, SaveFails, Interrupt, Kill, OrphanEnds, Unwind
<1>5. QED
  BY <1>1, <1>2, <1>3, <1>4 DEF Act, Step

\* What a step of r can do to where it is and to what it remembers.
Progress(r) ==
    /\ journal[r].stopError => journal'[r].stopError
    /\ pc[r] = "rescued" => pc'[r] = "rescued" /\ disk'[r] = disk[r]
    /\ pc'[r] = "rescued" => pc[r] = "rescued"
    /\ pc'[r] = "done" => pc[r] \in {"done", "saveRestored"}
    /\ pc'[r] \in Starting => pc[r] \in Starting /\ stopped'[r] = stopped[r]
    /\ pc'[r] \in Holding => pc[r] \in Holding \/ pc'[r] = "prepare"
    /\ pc'[r] \in Away => pc[r] \in Away \/ pc[r] = "prepare"
    /\ stopped[r] => stopped'[r]
    /\ stopped'[r] => stopped[r] \/ pc[r] = "lend"
    /\ pc'[r] = "stopSource" => stopped'[r]
    /\ pc'[r] \in Measured => \/ pc[r] \in Measured
                              \/ pc[r] = "ready" /\ container[Target(r)] = "serving"
    /\ pc'[r] = "stopVariant" => step'[r] # 0
    /\ pc[r] = "startSource" /\ pc'[r] \in Away => UNCHANGED container
    /\ step'[r] # step[r] =>
          \/ step[r] # 0
          \/ pc[r] = "stopSource" /\ container' = StopOf(SourceOf[r])

LEMMA ProgressOf ==
  ASSUME TypeOK, NEW r \in Runner, Act(r),
         pc[r] = "stopVariant" => step[r] # 0, pc[r] = "stopSource" => stopped[r]
  PROVE  Progress(r)
<1> USE DEF TypeOK, Progress, Starting, Holding, Alive, Trying, Cleaning, Measured, Away, Ended
<1>1. CASE Decline(r) \/ Inspect(r) \/ Lock(r) \/ Prepare(r) \/ Ready(r) \/ Glob(r)
  BY <1>1 DEF Decline, Inspect, Lock, Prepare, Ready, Glob
<1>2. CASE RunPaired(r) \/ Truncate(r) \/ Lend(r)
  BY <1>2 DEF RunPaired, Truncate, Lend, SavePoint
<1>3. CASE Collect(r)
  <2>1. journal'[r].stopError = journal[r].stopError
    BY <1>3 DEF Collect, Enter, Journal
  <2>2. QED
    BY <1>3, <2>1 DEF Collect
<1>4. CASE SaveJournal(r)
  <2>1. UNCHANGED <<journal, container, step, stopped>>
    BY <1>4 DEF SaveJournal
  <2>2. CASE pc[r] = "saveRestored" /\ pc'[r] = "done"
    BY <2>1, <2>2
  <2>3. CASE pc[r] = "saveVariant" /\ pc'[r] = "startVariant"
    BY <2>1, <2>3
  <2>4. CASE pc[r] = "saveError" /\ pc'[r] = "stopActive"
    BY <2>1, <2>4
  <2>5. CASE pc[r] = "saveEvidence" /\ pc'[r] = IF step[r] = 0 THEN "lend" ELSE "stopVariant"
    BY <2>1, <2>5
  <2>6. QED
    BY <1>4, <2>2, <2>3, <2>4, <2>5 DEF SaveJournal, SavePoint, AfterSave
<1>5. CASE StopSource(r)
  BY <1>5 DEF StopSource, Effect
<1>6. CASE Create(r) \/ StartVariant(r)
  BY <1>6 DEF Create, StartVariant
<1>7. CASE Bind(r)
  <2>1. journal'[r].stopError = journal[r].stopError
    BY <1>7 DEF Bind, Journal
  <2>2. QED
    BY <1>7, <2>1 DEF Bind
<1>8. CASE StopVariant(r)
  BY <1>8 DEF StopVariant
<1>9. CASE StopActive(r)
  <2>1. journal[r].stopError => journal'[r].stopError
    BY <1>9 DEF StopActive, Journal
  <2>2. QED
    BY <1>9, <2>1 DEF StopActive
<1>10. CASE StartSource(r) \/ ReadySource(r)
  <2>1. Restored(r) => journal'[r].stopError = journal[r].stopError
    BY DEF Restored, Journal
  <2>2. QED
    BY <1>10, <2>1 DEF StartSource, ReadySource
<1>11. CASE DockerFails(r) \/ SaveFails(r) \/ Interrupt(r)
  BY <1>11 DEF DockerFails, SaveFails, Interrupt, Unwind, SavePoint
<1>12. CASE Kill(r)
  <2>1. pc[r] \in Alive /\ pc'[r] = "killed" /\ UNCHANGED <<journal, disk, step, stopped>>
    BY <1>12 DEF Kill
  <2>2. QED
    BY <2>1
<1>13. CASE OrphanEnds(r)
  <2>1. UNCHANGED <<container, pc, journal, disk, step, stopped>>
    BY <1>13 DEF OrphanEnds
  <2>2. QED
    BY <2>1
<1>14. QED
  BY <1>1, <1>2, <1>3, <1>4, <1>5, <1>6, <1>7, <1>8, <1>9, <1>10, <1>11, <1>12, <1>13 DEF Act, Step

\* A process that was excused stays so.
LEMMA StillExcused ==
  ASSUME NEW q \in Runner, Excused(q), journal[q].stopError => journal'[q].stopError,
         pc[q] = "rescued" => pc'[q] = "rescued" /\ disk'[q] = disk[q]
  PROVE  Excused(q)'
  BY DEF Excused

\* A step of r and the part of the invariant that is about r.
LEMMA ApartOwn ==
  ASSUME TypeInv, FindInv, ApartInv, NEW r \in Runner, Act(r)
  PROVE  /\ pc'[r] \in Starting => ~stopped'[r]
         /\ step'[r] # 0 \/ pc'[r] = "stopSource" => stopped'[r]
         /\ pc'[r] = "stopVariant" => step'[r] # 0
         /\ step'[r] # 0 /\ pc'[r] \in Away => ~Up(SourceOf[r])'
         /\ AnyUp(r)' /\ Up(SourceOf[r])' => Excused(r)'
         /\ pc'[r] \in {"done", "rescued"} /\ AnyUp(r)' => Excused(r)'
<1>0. /\ TypeOK /\ NamedInv(r) /\ SourceOf[r] \in Source
      /\ pc[r] \in Starting => ~stopped[r]
      /\ step[r] # 0 \/ pc[r] = "stopSource" => stopped[r]
      /\ pc[r] = "stopVariant" => step[r] # 0
      /\ step[r] # 0 /\ pc[r] \in Away => ~Up(SourceOf[r])
      /\ AnyUp(r) /\ Up(SourceOf[r]) => Excused(r)
      /\ pc[r] \in {"done", "rescued"} /\ AnyUp(r) => Excused(r)
  BY CampaignAssumption DEF TypeInv, FindInv, ApartInv
<1>1. Progress(r)
  BY <1>0, ProgressOf
<1>2. Up(SourceOf[r])' => Up(SourceOf[r]) \/ (pc[r] = "startSource" /\ stopped[r])
  BY <1>0, SourceSteps
<1>3. AnyUp(r)' => AnyUp(r) \/ pc[r] = "startVariant"
  BY <1>0, UpSteps DEF AnyUp
<1>4. pc[r] = "startVariant" => step[r] # 0
  BY <1>0 DEF NamedInv
<1>5. pc[r] \in {"startSource", "saveRestored"} /\ AnyUp(r) => journal[r].stopError
  BY <1>0 DEF NamedInv, AnyUp
<1>6. Excused(r) => Excused(r)'
  BY <1>1, StillExcused DEF Progress
<1>7. journal[r].stopError => Excused(r)'
  BY <1>1 DEF Progress, Excused
<1>8. pc'[r] \in Starting => ~stopped'[r]
  BY <1>0, <1>1 DEF Progress
<1>9. step'[r] # 0 \/ pc'[r] = "stopSource" => stopped'[r]
  BY <1>0, <1>1 DEF Progress
<1>10. ASSUME step'[r] # 0, pc'[r] \in Away, Up(SourceOf[r])'
       PROVE  FALSE
  <2>1. Up(SourceOf[r])
    BY <1>1, <1>2, <1>10 DEF Progress, Up
  <2>2. step[r] = 0
    BY <1>0, <1>1, <1>10, <2>1 DEF Progress, Starting
  <2>3. container' = StopOf(SourceOf[r])
    BY <1>1, <1>10, <2>2 DEF Progress
  <2>4. QED
    BY <1>0, <1>10, <2>1, <2>3 DEF StopOf, Up, TypeOK, Container
<1>11. ASSUME AnyUp(r)', Up(SourceOf[r])'
       PROVE  Excused(r)'
  <2>1. CASE pc[r] = "startVariant"
    BY <1>0, <1>2, <1>4, <1>11, <2>1 DEF Away, Trying
  <2>2. CASE pc[r] = "startSource"
    BY <1>3, <1>5, <1>7, <1>11, <2>2
  <2>3. CASE pc[r] \notin {"startVariant", "startSource"}
    BY <1>0, <1>2, <1>3, <1>6, <1>11, <2>3
  <2>4. QED
    BY <2>1, <2>2, <2>3
<1>12. ASSUME pc'[r] \in {"done", "rescued"}, AnyUp(r)'
       PROVE  Excused(r)'
  <2>1. pc[r] \in {"done", "rescued", "saveRestored"}
    BY <1>1, <1>12 DEF Progress
  <2>2. QED
    BY <1>0, <1>3, <1>5, <1>6, <1>7, <1>12, <2>1
<1>13. pc'[r] = "stopVariant" => step'[r] # 0
  BY <1>1 DEF Progress
<1>14. QED
  BY <1>8, <1>9, <1>10, <1>11, <1>12, <1>13

\* A step of r and what r relies on of the others.
LEMMA ApartRelied ==
  ASSUME TypeInv, FindInv, LockInv, ApartInv, NEW r \in Runner, Act(r),
         pc'[r] \in Holding, stopped'[r] \/ pc'[r] \in Measured,
         NEW q \in Runner \ {r}, SourceOf[q] = SourceOf[r], AnyUp(q)'
  PROVE  Excused(q)'
<1>0. /\ TypeOK /\ q # r
      /\ pc[r] \in Starting => ~stopped[r]
      /\ pc[r] = "stopSource" => stopped[r]
      /\ pc[r] = "stopVariant" => step[r] # 0
      /\ step[r] # 0 => stopped[r]
  BY DEF TypeInv, ApartInv
<1>1. Progress(r)
  BY <1>0, ProgressOf
<1>2. AnyUp(q)
  <2>1. pc[r] = "startVariant" => active[r] = <<r, step[r]>>
    BY DEF FindInv, NamedInv
  <2>2. ASSUME NEW i \in DOMAIN Budgets, Up(<<q, i>>)' PROVE Up(<<q, i>>)
    BY <1>0, <2>1, <2>2, UpSteps
  <2>3. QED
    BY <2>2 DEF AnyUp
<1>3. pc'[q] = pc[q] /\ journal'[q] = journal[q] /\ disk'[q] = disk[q]
  BY <1>0, OthersLocal
<1>4. CASE stopped[r] \/ pc[r] \in Measured
  <2>1. pc[r] \in Holding
    <3>1. pc[r] \in Starting => pc[r] \notin Measured
      BY DEF Starting, Measured
    <3>2. pc'[r] # "prepare"
      <4>1. SUFFICES ASSUME pc'[r] = "prepare" PROVE FALSE
        OBVIOUS
      <4>2. pc[r] \in Starting
        BY <1>1, <4>1 DEF Progress, Starting
      <4>3. QED
        BY <1>0, <1>4, <3>1, <4>2
    <3>3. QED
      BY <1>1, <3>2 DEF Progress
  <2>2. Excused(q)
    BY <1>2, <1>4, <2>1 DEF ApartInv
  <2>3. QED
    BY <1>3, <2>2 DEF Excused
<1>5. CASE ~stopped[r] /\ pc[r] \notin Measured
  <2>1. pc[r] = "ready" /\ container[Target(r)] = "serving"
    BY <1>1, <1>5 DEF Progress, Measured
  <2>2. Up(SourceOf[q])
    BY <1>0, <1>5, <2>1 DEF Target, Up
  <2>3. Excused(q)
    BY <1>2, <2>2 DEF ApartInv
  <2>4. QED
    BY <1>3, <2>3 DEF Excused
<1>6. QED
  BY <1>4, <1>5

\* What a step of r leaves of the invariant of the others.
LEMMA ApartOthers ==
  ASSUME TypeInv, FindInv, LockInv, ApartInv, NEW r \in Runner, Act(r), NEW q \in Runner \ {r}
  PROVE  /\ UNCHANGED <<pc[q], step[q], stopped[q], journal[q], disk[q]>>
         /\ AnyUp(q)' => AnyUp(q)
         /\ step[q] # 0 /\ pc[q] \in Away => ~Up(SourceOf[q])'
         /\ AnyUp(q)' /\ Up(SourceOf[q])' => Excused(q)
         /\ pc[q] \in Holding /\ SourceOf[q] = SourceOf[r] =>
                /\ AnyUp(r)' => AnyUp(r)
                /\ Excused(r) => Excused(r)'
<1>0. TypeOK /\ q # r /\ SourceOf[q] \in Source
  BY CampaignAssumption DEF TypeInv
<1>1. UNCHANGED <<pc[q], step[q], journal[q], disk[q]>>
  BY <1>0, OthersLocal
<1>2. UNCHANGED stopped[q]
  <2> USE <1>0 DEF TypeOK
  <2>1. CASE Decline(r) \/ Inspect(r) \/ Lock(r) \/ Prepare(r) \/ Ready(r) \/ Glob(r)
    BY <2>1 DEF Decline, Inspect, Lock, Prepare, Ready, Glob
  <2>2. CASE RunPaired(r) \/ Collect(r) \/ Truncate(r) \/ SaveJournal(r) \/ Lend(r)
    BY <2>2 DEF RunPaired, Collect, Truncate, SaveJournal, Lend
  <2>3. CASE \/ StopSource(r) \/ Create(r) \/ Bind(r) \/ StartVariant(r) \/ StopVariant(r)
             \/ StopActive(r) \/ StartSource(r) \/ ReadySource(r)
    BY <2>3 DEF StopSource, Create, Bind, StartVariant, StopVariant, StopActive, StartSource, ReadySource
  <2>4. CASE DockerFails(r) \/ SaveFails(r) \/ Interrupt(r) \/ Kill(r) \/ OrphanEnds(r)
    BY <2>4 DEF DockerFails, SaveFails, Interrupt, Kill, OrphanEnds
  <2>5. QED
    BY <2>1, <2>2, <2>3, <2>4 DEF Act, Step
<1>3. AnyUp(q)' => AnyUp(q)
  <2>1. pc[r] = "startVariant" => active[r] = <<r, step[r]>>
    BY DEF FindInv, NamedInv
  <2>2. ASSUME NEW i \in DOMAIN Budgets, Up(<<q, i>>)' PROVE Up(<<q, i>>)
    BY <1>0, <2>1, <2>2, UpSteps
  <2>3. QED
    BY <2>2 DEF AnyUp
<1>4. Up(SourceOf[q])' => \/ Up(SourceOf[q])
                          \/ pc[r] = "startSource" /\ stopped[r] /\ SourceOf[q] = SourceOf[r]
  BY <1>0, SourceSteps
<1>5. pc[q] \in Holding /\ SourceOf[q] = SourceOf[r] => pc[r] \notin Holding
  BY <1>0 DEF LockInv
<1>6. "startSource" \in Holding /\ \A p \in Away : p \in Holding
  BY DEF Holding, Away, Alive, Trying, Cleaning
<1>7. step[q] # 0 /\ pc[q] \in Away => ~Up(SourceOf[q])'
  BY <1>4, <1>5, <1>6 DEF ApartInv
<1>8. AnyUp(q)' /\ Up(SourceOf[q])' => Excused(q)
  BY <1>3, <1>4, <1>6 DEF ApartInv
<1>9. ASSUME pc[q] \in Holding, SourceOf[q] = SourceOf[r]
      PROVE  (AnyUp(r)' => AnyUp(r)) /\ (Excused(r) => Excused(r)')
  <2>1. UNCHANGED <<container, journal, disk>>
    BY <1>5, <1>9, QuietOutside
  <2>2. AnyUp(r)' => AnyUp(r)
    BY <2>1 DEF AnyUp, Up
  <2>3. pc[r] = "rescued" => pc'[r] = "rescued"
    BY <1>0, ProgressOf DEF Progress, ApartInv
  <2>4. QED
    BY <2>1, <2>2, <2>3 DEF Excused
<1>10. QED
  BY <1>1, <1>2, <1>3, <1>7, <1>8, <1>9

\* Nothing that matters here changes, but for containers that go down.
LEMMA ApartFrame ==
  ASSUME ApartInv, UNCHANGED <<pc, step, stopped, journal, disk>>,
         \A r \in Runner : (AnyUp(r)' => AnyUp(r)) /\ (Up(SourceOf[r])' => Up(SourceOf[r]))
  PROVE  ApartInv'
  BY DEF ApartInv, Excused

\* The rescue starts the source once the variants named on disk are stopped.
LEMMA ApartRescue ==
  ASSUME TypeInv, FindInv, LockInv, ApartInv, NEW s \in Source, Rescue(s)
  PROVE  ApartInv'
<1>0. /\ TypeOK /\ \A r \in Runner : SourceOf[r] \in Source
      /\ \A c \in Variant : c \in Container /\ c \notin Source
      /\ \A c \in Source : c \in Container /\ c \notin Variant
  BY CampaignAssumption DEF TypeInv, Container
<1>1. UNCHANGED <<step, stopped, journal, disk>>
  BY DEF Rescue
<1>2. /\ lockedBy[s] = None
      /\ \A r \in Runner : pc'[r] = pc[r] \/ (pc[r] \in {"killed", "aborted"} /\ pc'[r] = "rescued")
      /\ \A r \in Runner : SourceOf[r] = s /\ pc[r] \in {"killed", "aborted"} => pc'[r] = "rescued"
  BY <1>0 DEF Rescue, TypeOK
<1>3. ASSUME NEW r \in Runner, AnyUp(r)'
      PROVE  /\ AnyUp(r)
             /\ pc'[r] = "rescued" /\ pc[r] # "rescued" => Excused(r)'
  <2>1. PICK i \in DOMAIN Budgets : Up(<<r, i>>)'
    BY <1>3 DEF AnyUp
  <2> DEFINE v == <<r, i>>
  <2>2. v \in Variant
    BY DEF Variant
  <2> HIDE DEF v
  <2>3. Up(v)'
    BY <2>1 DEF v
  <2>4. container'[v] \in {container[v], StopOf(v)[v]}
    BY <1>0, <2>2 DEF Rescue
  <2>5. container'[v] = container[v] /\ Up(v)
    BY <1>0, <2>2, <2>3, <2>4 DEF StopOf, Up, TypeOK
  <2>6. AnyUp(r)
    BY <2>5 DEF AnyUp, v
  <2>7. ASSUME pc'[r] = "rescued", pc[r] # "rescued", disk[r] # Torn
        PROVE  FALSE
    <3>1. disk[r].active = v
      BY <1>2, <2>5, <2>7 DEF FindInv, NamedInv, v
    <3>2. SourceOf[r] = s /\ pc[r] \in {"killed", "aborted"}
      BY <1>0, <2>7 DEF Rescue, TypeOK
    <3>3. v \in Named(r)
      BY <1>0, <2>2, <2>7, <3>1, CampaignAssumption DEF Named
    <3>4. container'[v] = StopOf(v)[v]
      BY <1>0, <2>2, <3>2, <3>3 DEF Rescue
    <3>5. QED
      BY <1>0, <2>2, <2>3, <3>4 DEF StopOf, Up, TypeOK
  <2>8. QED
    BY <1>1, <2>6, <2>7 DEF Excused
<1>4. ASSUME NEW r \in Runner, Excused(r) PROVE Excused(r)'
  BY <1>1, <1>2, <1>4 DEF Excused
<1>5. ASSUME NEW r \in Runner, SourceOf[r] # s, Up(SourceOf[r])' PROVE Up(SourceOf[r])
  <2>1. container'[SourceOf[r]] \in {container[SourceOf[r]], StopOf(SourceOf[r])[SourceOf[r]]}
    BY <1>0, <1>5 DEF Rescue
  <2>2. QED
    BY <1>0, <1>5, <2>1 DEF StopOf, Up, TypeOK
<1>6. ASSUME NEW r \in Runner, SourceOf[r] = s PROVE pc[r] \notin Holding
  BY <1>0, <1>2, <1>6, CampaignAssumption DEF LockInv, Container
<1>7. Away \subseteq Holding /\ "rescued" \notin Holding \cup Starting \cup Away \cup Measured \cup {"stopSource", "stopVariant"}
  BY DEF Holding, Away, Alive, Starting, Trying, Cleaning, Measured
<1>8. ASSUME NEW r \in Runner
      PROVE  /\ pc'[r] \in Starting => ~stopped'[r]
             /\ step'[r] # 0 \/ pc'[r] = "stopSource" => stopped'[r]
             /\ pc'[r] = "stopVariant" => step'[r] # 0
  BY <1>1, <1>2, <1>7 DEF ApartInv
<1>9. ASSUME NEW r \in Runner, step'[r] # 0, pc'[r] \in Away, Up(SourceOf[r])'
      PROVE  FALSE
  BY <1>1, <1>2, <1>5, <1>6, <1>7, <1>9 DEF ApartInv
<1>10. ASSUME NEW r \in Runner, AnyUp(r)', pc'[r] \in {"done", "rescued"}
       PROVE  Excused(r)'
  BY <1>2, <1>3, <1>4, <1>10 DEF ApartInv
<1>11. ASSUME NEW r \in Runner, AnyUp(r)', Up(SourceOf[r])'
       PROVE  Excused(r)'
  <2>1. CASE SourceOf[r] # s
    BY <1>3, <1>4, <1>5, <1>11, <2>1 DEF ApartInv
  <2>2. CASE SourceOf[r] = s
    <3>1. PICK i \in DOMAIN Budgets : Up(<<r, i>>)
      BY <1>3, <1>11 DEF AnyUp
    <3>2. pc[r] \notin Starting \cup {"declined"}
      BY <3>1 DEF FindInv, NamedInv
    <3>3. pc[r] \in {"done", "aborted", "killed", "rescued"}
      BY <1>0, <1>6, <2>2, <3>2 DEF TypeOK, Holding, Starting, Alive, Ended
    <3>4. pc'[r] \in {"done", "rescued"}
      BY <1>2, <2>2, <3>3
    <3>5. QED
      BY <1>10, <1>11, <3>4
  <2>3. QED
    BY <2>1, <2>2
<1>12. ASSUME NEW r \in Runner, pc'[r] \in Holding, stopped'[r] \/ pc'[r] \in Measured,
              NEW q \in Runner \ {r}, SourceOf[q] = SourceOf[r], AnyUp(q)'
       PROVE  Excused(q)'
  BY <1>1, <1>2, <1>3, <1>4, <1>7, <1>12 DEF ApartInv
<1>13. QED
  BY <1>8, <1>9, <1>10, <1>11, <1>12 DEF ApartInv

LEMMA ApartStep == TypeInv /\ FindInv /\ LockInv /\ ApartInv /\ [Next]_vars => ApartInv'
<1> SUFFICES ASSUME TypeInv, FindInv, LockInv, ApartInv, [Next]_vars PROVE ApartInv'
  OBVIOUS
<1>0. TypeOK /\ \A r \in Runner : SourceOf[r] \in Source
  BY CampaignAssumption DEF TypeInv
<1>1. ASSUME NEW r \in Runner, Act(r) PROVE ApartInv'
  <2>1. ASSUME NEW q \in Runner
        PROVE  /\ pc'[q] \in Starting => ~stopped'[q]
               /\ step'[q] # 0 \/ pc'[q] = "stopSource" => stopped'[q]
               /\ pc'[q] = "stopVariant" => step'[q] # 0
               /\ step'[q] # 0 /\ pc'[q] \in Away => ~Up(SourceOf[q])'
               /\ AnyUp(q)' /\ Up(SourceOf[q])' => Excused(q)'
               /\ pc'[q] \in {"done", "rescued"} /\ AnyUp(q)' => Excused(q)'
    <3>1. CASE q = r
      BY <1>1, <3>1, ApartOwn
    <3>2. CASE q # r
      BY <1>1, <3>2, ApartOthers DEF ApartInv, Excused
    <3>3. QED
      BY <3>1, <3>2
  <2>2. ASSUME NEW q \in Runner, pc'[q] \in Holding, stopped'[q] \/ pc'[q] \in Measured,
               NEW o \in Runner \ {q}, SourceOf[o] = SourceOf[q], AnyUp(o)'
        PROVE  Excused(o)'
    <3>1. CASE q = r
      BY <1>1, <2>2, <3>1, ApartRelied
    <3>2. CASE q # r
      <4>1. pc[q] \in Holding /\ (stopped[q] \/ pc[q] \in Measured)
        BY <1>1, <2>2, <3>2, ApartOthers
      <4>2. CASE o = r
        <5>1. AnyUp(r) /\ (Excused(r) => Excused(r)')
          BY <1>1, <2>2, <3>2, <4>1, <4>2, ApartOthers
        <5>2. QED
          BY <2>2, <4>1, <4>2, <5>1 DEF ApartInv
      <4>3. CASE o # r
        <5>1. AnyUp(o) /\ UNCHANGED <<pc[o], journal[o], disk[o]>>
          BY <1>1, <2>2, <4>3, ApartOthers
        <5>2. Excused(o)
          BY <2>2, <4>1, <5>1 DEF ApartInv
        <5>3. QED
          BY <5>1, <5>2 DEF Excused
      <4>4. QED
        BY <4>2, <4>3
    <3>3. QED
      BY <3>1, <3>2
  <2>3. QED
    BY <2>1, <2>2 DEF ApartInv
<1>2. ASSUME NEW c \in Container, Load(c) \/ Die(c) PROVE ApartInv'
  <2>1. ASSUME NEW d \in Container, Up(d)' PROVE Up(d)
    BY <1>0, <1>2, <2>1 DEF Load, Die, Up, TypeOK
  <2>2. ASSUME NEW r \in Runner
        PROVE  (AnyUp(r)' => AnyUp(r)) /\ (Up(SourceOf[r])' => Up(SourceOf[r]))
    BY <1>0, <2>1 DEF AnyUp, Container, Variant
  <2>3. UNCHANGED <<pc, step, stopped, journal, disk>>
    BY <1>2 DEF Load, Die
  <2>4. QED
    BY <2>2, <2>3, ApartFrame
<1>3. ASSUME NEW s \in Source, Rescue(s) PROVE ApartInv'
  BY <1>3, ApartRescue
<1>4. CASE ManualRun \/ UNCHANGED vars
  <2>1. UNCHANGED <<container, pc, step, stopped, journal, disk>>
    BY <1>4 DEF ManualRun, vars
  <2>2. \A r \in Runner : (AnyUp(r)' => AnyUp(r)) /\ (Up(SourceOf[r])' => Up(SourceOf[r]))
    BY <2>1 DEF AnyUp, Up
  <2>3. QED
    BY <2>1, <2>2, ApartFrame
<1>5. QED
  BY <1>1, <1>2, <1>3, <1>4 DEF Next, Act

\* Source and variant are never loaded together (campaign.py: the source is stopped
\* before the first variant, line 134, and started again after the last, line 170),
\* with any number of campaigns on any number of sources, started, failing,
\* interrupted, killed and rescued in any order, but for the two cases it names.
THEOREM SourceAndVariantApart == Spec => []NeverBoth
<1>1. Init => TypeInv /\ FindInv /\ LockInv /\ ApartInv
  BY TypeInit, NamedInit, LockInit, ApartInit
<1>2. TypeInv /\ FindInv /\ LockInv /\ ApartInv /\ [Next]_vars
        => TypeInv' /\ FindInv' /\ LockInv' /\ ApartInv'
  BY TypeStep, NamedStep, LockStep, ApartStep DEF TypeInv
<1>3. ApartInv => NeverBoth
  <2>1. ASSUME ApartInv, NEW v \in Variant, Up(v), Up(SourceOf[v[1]])
        PROVE  Excused(v[1])
    <3>1. PICK r \in Runner, i \in DOMAIN Budgets : v = <<r, i>>
      BY DEF Variant
    <3>2. AnyUp(r) /\ v[1] = r
      BY <2>1, <3>1 DEF AnyUp
    <3>3. QED
      BY <2>1, <3>2 DEF ApartInv
  <2>2. QED
    BY <2>1 DEF NeverBoth, Excused
<1>4. QED
  BY <1>1, <1>2, <1>3, PTL DEF Spec

-----------------------------------------------------------------------------
(* The evidence files. *)

Listed == Starting \cup Trying
OwnEvidence(r) ==
    \A i \in DOMAIN journal[r].evidence :
        \/ journal[r].evidence[i].of = IF i = 1 THEN SourceOf[r] ELSE <<r, i - 1>>
        \/ Clashing(journal[r].evidence[i])

\* Evidence entered so far: the containers before this step's, and this one's
\* once its file is collected.
Due(r) ==
    IF pc[r] \in {"saveEvidence", "lend", "stopSource", "stopVariant"}
    THEN step[r] + 1 ELSE step[r]

\* Between the end of the benchmark and the collection the campaign's own file has
\* come on top of those counted, and is there still or was overwritten, or it
\* overwrote the last of those counted.
Come(r) ==
    \/ before[r] \in clashed
    \/ \E i \in DOMAIN results : i > before[r] /\ (results[i] = Target(r) \/ i \in clashed)

\* The file is told from others by their number.
EvidenceAt(r) ==
    /\ pc[r] \in Listed => Len(journal[r].evidence) = Due(r)
    /\ pc[r] \in Starting \cup {"lend", "stopSource"} => step[r] = 0
    /\ pc[r] \in {"run", "collect"} => before[r] <= Len(results)
    /\ pc[r] = "collect" => Come(r)
    /\ OwnEvidence(r)

EvidenceInv == \A r \in Runner : EvidenceAt(r)

\* What a step does to the directory: nothing, or a file is written.
Grows ==
    \/ UNCHANGED directory
    \/ \E c \in Container \cup {Foreign} : Write(c)

\* No file goes, and one that changes is known to have been overwritten.
LEMMA GrowsKeeps ==
  ASSUME TypeOK, Grows
  PROVE  /\ Len(results) \in Nat /\ Len(results') \in Nat
         /\ Len(results) <= Len(results')
         /\ clashed \subseteq clashed'
         /\ \A i \in DOMAIN results :
               i \in DOMAIN results' /\ (results'[i] = results[i] \/ i \in clashed')
<1>1. results \in Seq(Container \cup {Foreign})
  BY DEF TypeOK
<1>2. CASE UNCHANGED directory
  BY <1>1, <1>2
<1>3. ASSUME NEW c \in Container \cup {Foreign}, results' = Append(results, c), UNCHANGED clashed
      PROVE  /\ Len(results) \in Nat /\ Len(results') \in Nat
             /\ Len(results) <= Len(results')
             /\ clashed \subseteq clashed'
             /\ \A i \in DOMAIN results : i \in DOMAIN results' /\ results'[i] = results[i]
  BY <1>1, <1>3
<1>4. ASSUME NEW c \in Container \cup {Foreign}, results # <<>>,
             results' = [results EXCEPT ![Len(results)] = c],
             clashed' = clashed \cup {Len(results)}
      PROVE  /\ Len(results) \in Nat /\ Len(results') \in Nat
             /\ Len(results) <= Len(results')
             /\ clashed \subseteq clashed'
             /\ \A i \in DOMAIN results :
                   i \in DOMAIN results' /\ (results'[i] = results[i] \/ i \in clashed')
  <2>1. DOMAIN results' = DOMAIN results /\ Len(results') = Len(results)
    BY <1>1, <1>4
  <2>2. \A i \in DOMAIN results : i # Len(results) => results'[i] = results[i]
    BY <1>1, <1>4
  <2>3. QED
    BY <1>1, <1>4, <2>1, <2>2
<1>5. QED
  BY <1>2, <1>3, <1>4 DEF Grows, Write

\* An entry of the journal is no less its own for what is written later.
LEMMA OwnStays ==
  ASSUME NEW r \in Runner, OwnEvidence(r), clashed \subseteq clashed',
         journal'[r].evidence = journal[r].evidence
  PROVE  OwnEvidence(r)'
  BY DEF OwnEvidence, Clashing

\* What a step leaves of a process whose place in the code it leaves alone, or
\* takes to where no evidence is gathered any more.
LEMMA EvidenceFrame ==
  ASSUME TypeOK, Grows, NEW r \in Runner, EvidenceAt(r),
         journal'[r].evidence = journal[r].evidence,
         \/ pc'[r] \notin Listed
         \/ pc'[r] = pc[r] /\ step'[r] = step[r] /\ before'[r] = before[r]
  PROVE  EvidenceAt(r)'
<1>1. OwnEvidence(r)'
  BY GrowsKeeps, OwnStays DEF EvidenceAt
<1>2. CASE pc'[r] \notin Listed
  BY <1>1, <1>2 DEF EvidenceAt, Listed, Starting, Trying
<1>3. CASE pc'[r] = pc[r] /\ step'[r] = step[r] /\ before'[r] = before[r]
  <2>1. before[r] \in Nat
    BY DEF TypeOK
  <2>2. Due(r)' = Due(r) /\ Target(r)' = Target(r)
    BY <1>3 DEF Due, Target
  <2>3. pc[r] \in {"run", "collect"} => before[r] <= Len(results')
    BY <2>1, GrowsKeeps DEF EvidenceAt
  <2>4. Come(r) => Come(r)'
    BY <1>3, <2>2, GrowsKeeps DEF Come
  <2>5. QED
    BY <1>1, <1>3, <2>2, <2>3, <2>4 DEF EvidenceAt
<1>4. QED
  BY <1>2, <1>3

\* The step of a process that goes on without touching the evidence.
LEMMA EvidenceMoves ==
  ASSUME TypeOK, NEW r \in Runner, EvidenceAt(r),
         \/ Inspect(r) \/ Lock(r) \/ Prepare(r) \/ Ready(r) \/ Glob(r) \/ Lend(r)
         \/ StopSource(r) \/ Create(r) \/ Bind(r) \/ StartVariant(r) \/ StopVariant(r)
         \/ SaveJournal(r)
  PROVE  EvidenceAt(r)'
<1> USE DEF Listed, Starting, Trying
<1>0. /\ pc \in [Runner -> Alive \cup Ended] /\ step \in [Runner -> 0..2]
      /\ before \in [Runner -> Nat] /\ Len(results) \in Nat
      /\ journal \in [Runner -> Journal]
  BY DEF TypeOK
<1>1. /\ OwnEvidence(r)' /\ UNCHANGED directory
      /\ journal'[r].evidence = journal[r].evidence
  <2>1. journal'[r].evidence = journal[r].evidence
    BY <1>0 DEF Inspect, Lock, Prepare, Ready, Glob, Lend, StopSource, Create, Bind,
                StartVariant, StopVariant, SaveJournal, Journal
  <2>2. UNCHANGED directory
    BY DEF Inspect, Lock, Prepare, Ready, Glob, Lend, StopSource, Create, Bind,
           StartVariant, StopVariant, SaveJournal
  <2>3. QED
    BY <2>1, <2>2, OwnStays DEF EvidenceAt
<1>2. CASE Inspect(r) \/ Lock(r) \/ Prepare(r)
  BY <1>0, <1>1, <1>2 DEF Inspect, Lock, Prepare, EvidenceAt, Due
<1>3. CASE Ready(r)
  BY <1>0, <1>1, <1>3 DEF Ready, EvidenceAt, Due
<1>4. CASE Glob(r)
  BY <1>0, <1>1, <1>4 DEF Glob, EvidenceAt, Due
<1>5. CASE Lend(r) \/ StopSource(r)
  BY <1>0, <1>1, <1>5 DEF Lend, StopSource, EvidenceAt, Due
<1>6. CASE Create(r) \/ Bind(r) \/ StartVariant(r)
  BY <1>0, <1>1, <1>6 DEF Create, Bind, StartVariant, EvidenceAt, Due
<1>7. CASE StopVariant(r)
  BY <1>0, <1>1, <1>7 DEF StopVariant, EvidenceAt, Due
<1>8. CASE SaveJournal(r)
  BY <1>0, <1>1, <1>8 DEF SaveJournal, AfterSave, SavePoint, EvidenceAt, Due, Ended
<1>9. QED
  BY <1>2, <1>3, <1>4, <1>5, <1>6, <1>7, <1>8

LEMMA EvidenceRun ==
  ASSUME TypeOK, NEW r \in Runner, EvidenceAt(r), RunPaired(r)
  PROVE  EvidenceAt(r)'
<1>1. UNCHANGED <<journal, step, before>> /\ Target(r) \in Container
  BY TargetType DEF RunPaired
<1>2. Grows
  BY <1>1 DEF RunPaired, Benchmark, Grows
<1>3. CASE Raise(r)
  BY <1>1, <1>2, <1>3, EvidenceFrame DEF TypeOK, Listed, Starting, Trying
<1>4. CASE Write(Target(r)) /\ Go(r, "collect")
  <2>1. results \in Seq(Container \cup {Foreign}) /\ before[r] \in Nat
    BY DEF TypeOK
  <2>2. before[r] <= Len(results) /\ pc[r] = "run" /\ pc'[r] = "collect"
    BY <1>4 DEF EvidenceAt, RunPaired, TypeOK
  <2>3. OwnEvidence(r)' /\ Target(r)' = Target(r)
    BY <1>1, <1>2, GrowsKeeps, OwnStays DEF EvidenceAt, Target
  <2>4. Len(journal'[r].evidence) = Due(r)'
    BY <1>1, <2>2 DEF EvidenceAt, Due, Listed, Trying
  <2>5. before'[r] <= Len(results')
    BY <1>1, <1>2, <2>1, <2>2, GrowsKeeps
  <2>6. Come(r)'
    <3>1. CASE results' = Append(results, Target(r))
      <4>1. /\ Len(results') \in DOMAIN results' /\ Len(results') > before'[r]
            /\ results'[Len(results')] = Target(r)
        BY <1>1, <2>1, <2>2, <3>1
      <4>2. QED
        BY <2>3, <4>1 DEF Come
    <3>2. CASE results # <<>> /\ clashed' = clashed \cup {Len(results)}
               /\ results' = [results EXCEPT ![Len(results)] = Target(r)]
      <4>1. Len(results) \in DOMAIN results' /\ Len(results) \in clashed'
        BY <2>1, <3>2
      <4>2. before[r] = Len(results) \/ Len(results) > before[r]
        BY <2>1, <2>2
      <4>3. QED
        BY <1>1, <4>1, <4>2 DEF Come
    <3>3. QED
      BY <1>4, <3>1, <3>2 DEF Write
  <2>7. QED
    BY <2>2, <2>3, <2>4, <2>5, <2>6 DEF EvidenceAt, Starting
<1>5. QED
  BY <1>3, <1>4 DEF RunPaired

LEMMA EvidenceCollected ==
  ASSUME TypeOK, NEW r \in Runner, EvidenceAt(r), Collect(r)
  PROVE  EvidenceAt(r)'
<1>1. CASE Raise(r) /\ UNCHANGED journal
  BY <1>1, EvidenceFrame DEF TypeOK, Collect, Grows, Listed, Starting, Trying
<1>2. CASE Len(results) = before[r] + 1 /\ Enter(r) /\ Go(r, "saveEvidence")
  <2> DEFINE old == journal[r].evidence
             new == [of |-> results[Len(results)], file |-> Len(results)]
  <2>1. /\ results \in Seq(Container \cup {Foreign}) /\ before[r] \in Nat
        /\ old \in Seq(Evidence) /\ step[r] \in 0..2
    BY DEF TypeOK, Journal
  <2>2. new \in Evidence
    BY <1>2, <2>1 DEF Evidence
  <2>3. new.of = Target(r) \/ Clashing(new)
    <3>1. Come(r) /\ new.of = results[Len(results)] /\ new.file = Len(results)
          /\ new.file - 1 = before[r]
      BY <1>2, <2>1 DEF EvidenceAt, Collect
    <3>2. CASE before[r] \in clashed
      BY <3>1, <3>2 DEF Clashing
    <3>3. ASSUME NEW i \in DOMAIN results, i > before[r], results[i] = Target(r) \/ i \in clashed
          PROVE  new.of = Target(r) \/ Clashing(new)
      <4>1. i = Len(results)
        BY <1>2, <2>1, <3>3
      <4>2. QED
        BY <3>1, <3>3, <4>1 DEF Clashing
    <3>4. QED
      BY <3>1, <3>2, <3>3 DEF Come
  <2>4. journal'[r].evidence = Append(old, new)
    BY <1>2 DEF TypeOK, Journal, Enter
  <2>5. Len(old) = step[r]
    BY DEF EvidenceAt, Collect, Due, Listed, Trying
  <2>6. Target(r) = IF Len(old) + 1 = 1 THEN SourceOf[r] ELSE <<r, Len(old)>>
    BY <2>1, <2>5 DEF Target
  <2>7. pc'[r] = "saveEvidence" /\ step' = step /\ UNCHANGED clashed
    BY <1>2 DEF TypeOK, Collect
  <2> HIDE DEF old, new
  <2>8. OwnEvidence(r)'
    <3> SUFFICES ASSUME NEW i \in DOMAIN Append(old, new)
                 PROVE  \/ Append(old, new)[i].of = IF i = 1 THEN SourceOf[r] ELSE <<r, i - 1>>
                        \/ Clashing(Append(old, new)[i])
      BY <2>4, <2>7 DEF OwnEvidence, Clashing
    <3>1. CASE i \in DOMAIN old
      <4>1. \/ old[i].of = IF i = 1 THEN SourceOf[r] ELSE <<r, i - 1>>
            \/ Clashing(old[i])
        BY <3>1 DEF EvidenceAt, OwnEvidence, old
      <4>2. Append(old, new)[i] = old[i]
        BY <2>1, <2>2, <3>1
      <4>3. QED
        BY <4>1, <4>2
    <3>2. CASE i = Len(old) + 1
      <4>1. Append(old, new)[i] = new /\ i - 1 = Len(old) /\ Len(old) \in Nat
        BY <2>1, <2>2, <3>2
      <4>2. QED
        BY <2>3, <2>6, <3>2, <4>1
    <3>3. QED
      BY <2>1, <2>2, <3>1, <3>2
  <2>9. Len(journal'[r].evidence) = step[r] + 1
    BY <2>1, <2>2, <2>4, <2>5
  <2>10. QED
    BY <2>7, <2>8, <2>9 DEF EvidenceAt, Due, Starting
<1>3. QED
  BY <1>1, <1>2 DEF Collect

LEMMA BenchmarkGrows ==
  ASSUME TypeOK, NEW r \in Runner, Benchmark(r)
  PROVE  Grows
  BY TargetType DEF Benchmark, Grows

\* Steps that keep the evidence and lead nowhere where more is gathered.
LEMMA EvidenceLeaves ==
  ASSUME TypeOK, NEW r \in Runner, EvidenceAt(r),
         \/ Decline(r) \/ Truncate(r) \/ StopActive(r) \/ StartSource(r) \/ ReadySource(r)
         \/ DockerFails(r) \/ SaveFails(r) \/ Interrupt(r) \/ Kill(r)
  PROVE  EvidenceAt(r)'
<1> USE DEF TypeOK, Listed, Starting, Trying, Ended
<1>1. journal'[r].evidence = journal[r].evidence /\ Grows
  <2>1. CASE StopActive(r)
    BY <2>1 DEF StopActive, Grows, Journal
  <2>2. CASE StartSource(r) \/ ReadySource(r)
    <3>1. journal[r] \in Journal
      OBVIOUS
    <3>2. Restored(r) => journal'[r].evidence = journal[r].evidence
      BY <3>1 DEF Restored, Journal
    <3>3. Restored(r) \/ UNCHANGED journal
      BY <2>2 DEF StartSource, ReadySource
    <3>4. UNCHANGED directory
      BY <2>2 DEF StartSource, ReadySource
    <3>5. QED
      BY <3>2, <3>3, <3>4 DEF Grows
  <2>3. CASE Decline(r) \/ Truncate(r) \/ DockerFails(r) \/ SaveFails(r) \/ Kill(r)
    BY <2>3 DEF Decline, Truncate, DockerFails, SaveFails, Kill, Grows
  <2>4. CASE Interrupt(r)
    BY <2>4, BenchmarkGrows DEF Interrupt, UnderWay, Grows
  <2>5. QED
    BY <2>1, <2>2, <2>3, <2>4
<1>2. \/ pc'[r] \notin Listed
      \/ pc'[r] = pc[r] /\ step'[r] = step[r] /\ before'[r] = before[r]
  <2>1. CASE Truncate(r)
    BY <2>1 DEF Truncate
  <2>2. CASE Decline(r) \/ StopActive(r) \/ StartSource(r) \/ ReadySource(r) \/ Kill(r)
    BY <2>2 DEF Decline, StopActive, StartSource, ReadySource, Kill
  <2>3. CASE DockerFails(r) \/ SaveFails(r) \/ Interrupt(r)
    BY <2>3 DEF DockerFails, SaveFails, Interrupt, Unwind
  <2>4. QED
    BY <2>1, <2>2, <2>3
<1>3. QED
  BY <1>1, <1>2, EvidenceFrame

LEMMA EvidenceOthers ==
  ASSUME TypeOK, NEW r \in Runner, Act(r),
         NEW q \in Runner, q # r \/ OrphanEnds(r), EvidenceAt(q)
  PROVE  EvidenceAt(q)'
<1>1. Grows
  <2>1. CASE Decline(r) \/ Inspect(r) \/ Lock(r) \/ Prepare(r) \/ Ready(r) \/ Glob(r)
    BY <2>1 DEF Decline, Inspect, Lock, Prepare, Ready, Glob, Grows
  <2>2. CASE Collect(r) \/ Truncate(r) \/ SaveJournal(r) \/ Lend(r)
    BY <2>2 DEF Collect, Truncate, SaveJournal, Lend, Grows
  <2>3. CASE StopSource(r) \/ Create(r) \/ Bind(r) \/ StartVariant(r) \/ StopVariant(r)
    BY <2>3 DEF StopSource, Create, Bind, StartVariant, StopVariant, Grows
  <2>4. CASE StopActive(r) \/ StartSource(r) \/ ReadySource(r)
    BY <2>4 DEF StopActive, StartSource, ReadySource, Grows
  <2>5. CASE DockerFails(r) \/ SaveFails(r) \/ Kill(r)
    BY <2>5 DEF DockerFails, SaveFails, Kill, Grows
  <2>6. CASE RunPaired(r) \/ OrphanEnds(r) \/ Interrupt(r)
    <3>1. Benchmark(r) \/ Write(Target(r)) \/ UNCHANGED directory
      BY <2>6 DEF RunPaired, OrphanEnds, Interrupt, UnderWay
    <3>2. QED
      BY <3>1, TargetType, BenchmarkGrows DEF Grows
  <2>7. QED
    BY <2>1, <2>2, <2>3, <2>4, <2>5, <2>6 DEF Act, Step
<1>2. journal'[q] = journal[q] /\ pc'[q] = pc[q] /\ step'[q] = step[q]
  BY OthersLocal DEF OrphanEnds
<1>3. before'[q] = before[q]
  <2>1. CASE Glob(r)
    BY <2>1 DEF Glob, TypeOK, OrphanEnds
  <2>2. CASE ~Glob(r)
    BY <2>2 DEF Act, Step, Decline, Inspect, Lock, Prepare, Ready, RunPaired, Collect,
       Truncate, SaveJournal, Lend, StopSource, Create, Bind, StartVariant, StopVariant,
       StopActive, StartSource, ReadySource, DockerFails, SaveFails, Interrupt,
       Kill, OrphanEnds
  <2>3. QED
    BY <2>1, <2>2
<1>4. QED
  BY <1>1, <1>2, <1>3, EvidenceFrame

LEMMA EvidenceStep ==
  ASSUME TypeOK, EvidenceInv, [Next]_vars
  PROVE  EvidenceInv'
<1> SUFFICES ASSUME NEW q \in Runner PROVE EvidenceAt(q)'
  BY DEF EvidenceInv
<1>0. EvidenceAt(q)
  BY DEF EvidenceInv
<1>1. ASSUME NEW r \in Runner, Act(r) PROVE EvidenceAt(q)'
  <2>1. CASE q # r \/ OrphanEnds(r)
    BY <1>0, <1>1, <2>1, EvidenceOthers
  <2>2. CASE q = r /\ ~OrphanEnds(r)
    BY <1>0, <1>1, <2>2, EvidenceMoves, EvidenceRun, EvidenceCollected, EvidenceLeaves
       DEF Act, Step
  <2>3. QED
    BY <2>1, <2>2
<1>2. CASE ManualRun
  <2>1. Grows
    BY <1>2 DEF ManualRun, Grows
  <2>2. QED
    BY <1>0, <1>2, <2>1, EvidenceFrame DEF ManualRun
<1>3. CASE UNCHANGED vars \/ \E c \in Container : Load(c) \/ Die(c)
  <2>1. UNCHANGED <<journal, directory, pc, step, before>>
    BY <1>3 DEF vars, Load, Die
  <2>2. QED
    BY <1>0, <2>1, EvidenceFrame DEF Grows
<1>4. ASSUME NEW s \in Source, Rescue(s) PROVE EvidenceAt(q)'
  <2>1. UNCHANGED <<journal, directory, step, before>>
    BY <1>4 DEF Rescue
  <2>2. pc'[q] = pc[q] \/ pc'[q] = "rescued"
    BY <1>4 DEF Rescue
  <2>3. QED
    BY <1>0, <2>1, <2>2, EvidenceFrame DEF Grows, Listed, Starting, Trying
<1>5. QED
  BY <1>1, <1>2, <1>3, <1>4 DEF Next, Act

\* A campaign enters only evidence of the container it was measuring (measure(),
\* campaign.py lines 103-120), whatever other campaigns, benchmarks run by hand and
\* those of killed campaigns write into the directory meanwhile; where names of one
\* second overwrite each other, only the file overwritten and the next can deceive it.
THEOREM EvidenceIsItsOwn == Spec => []EvidenceIsOwn
<1>1. Init => TypeInv /\ EvidenceInv
  <2> SUFFICES ASSUME Init, NEW r \in Runner PROVE EvidenceAt(r)
    BY TypeInit DEF EvidenceInv
  <2>1. pc[r] = "inspect" /\ step[r] = 0 /\ journal[r].evidence = <<>>
    BY DEF Init
  <2>2. Len(journal[r].evidence) = 0 /\ DOMAIN journal[r].evidence = {}
    BY <2>1
  <2>3. QED
    BY <2>1, <2>2 DEF EvidenceAt, OwnEvidence, Due
<1>2. TypeInv /\ EvidenceInv /\ [Next]_vars => TypeInv' /\ EvidenceInv'
  BY TypeStep, EvidenceStep DEF TypeInv
<1>3. EvidenceInv => EvidenceIsOwn
  <2>1. ASSUME EvidenceInv, NEW r \in Runner PROVE OwnEvidence(r)
    BY <2>1 DEF EvidenceInv, EvidenceAt
  <2>2. QED
    BY <2>1, Zenon DEF OwnEvidence, EvidenceIsOwn
<1>4. QED
  BY <1>1, <1>2, <1>3, PTL DEF Spec

-----------------------------------------------------------------------------
(* The loan. *)

Settled == {"saveRestored", "done"}
Baseline == {"ready", "glob", "run", "collect", "saveEvidence"}

\* Why a campaign keeps the rules of the loan: a process holds no lock but its own
\* source's, has not stopped the source before "lend", has then not found it ready before
\* its cleanup does, and ends well only after that.
LoanInvOf(r) ==
    /\ pc[r] \in Starting \cup {"declined", "lend"} => ~stopped[r]
    /\ pc[r] \in Baseline /\ step[r] = 0 => ~stopped[r]
    /\ pc[r] \in Alive \ Settled => ~(stopped[r] /\ checked[r])
    /\ pc[r] \in Settled /\ stopped[r] => checked[r]

LoanInv ==
    /\ \A s \in Source, r \in Runner : lockedBy[s] = r => SourceOf[r] = s
    /\ \A r \in Runner : LoanInvOf(r)

LEMMA LoanInit == Init => LoanInv
  BY CampaignAssumption DEF Init, LoanInv, LoanInvOf, Starting, Alive, Settled, Baseline

\* The steps of a process, as far as the loan can tell them apart: it goes on, it
\* finishes, or it is one of the four steps the loan is about.
Moves(r) ==
    /\ UNCHANGED <<lockedBy, stopped, checked>>
    /\ \/ pc'[r] = pc[r] /\ step'[r] = step[r]
       \/ /\ pc[r] \in Alive \ Settled
          /\ pc'[r] \in Alive \ {"lend"}
          /\ pc[r] \in Starting \/ pc'[r] \notin Starting
          /\ pc'[r] \in Baseline /\ step'[r] = 0 =>
                pc[r] \in Starting \/ (pc[r] \in Baseline /\ step[r] = 0)
          /\ pc'[r] = "saveRestored" => ~stopped[r]
       \/ pc[r] = "saveEvidence" /\ step[r] = 0 /\ pc'[r] = "lend"

Ends(r) ==
    /\ UNCHANGED <<stopped, checked>>
    /\ \/ pc[r] \in Starting /\ Exit(r, "declined")
       \/ pc[r] \in Alive /\ Exit(r, "killed")
       \/ pc[r] \in Cleaning /\ Exit(r, "aborted")
       \/ pc[r] = "saveRestored" /\ Exit(r, "done")

LEMMA LoanSteps ==
  ASSUME TypeInv, NEW r \in Runner, NamedInv(r), Act(r)
  PROVE  Moves(r) \/ Ends(r) \/ Lock(r) \/ Lend(r) \/ Ready(r) \/ ReadySource(r)
<1> USE DEF TypeInv, TypeOK, Moves, Ends, Starting, Alive, Trying, Cleaning, Settled, Baseline
<1>1. CASE Decline(r) \/ Kill(r)
  BY <1>1 DEF Decline, Kill
<1>2. CASE Inspect(r) \/ Prepare(r) \/ Glob(r) \/ RunPaired(r) \/ Collect(r)
  BY <1>2 DEF Inspect, Prepare, Glob, RunPaired, Collect
<1>3. CASE Truncate(r) \/ OrphanEnds(r)
  BY <1>3 DEF Truncate, OrphanEnds
<1>4. CASE SaveJournal(r)
  BY <1>4 DEF SaveJournal, AfterSave, SavePoint
<1>5. CASE StopSource(r) \/ Create(r) \/ Bind(r)
  BY <1>5 DEF StopSource, Create, Bind
<1>6. CASE StartVariant(r)
  BY <1>6 DEF StartVariant, NamedInv
<1>7. CASE StopVariant(r) \/ StopActive(r)
  BY <1>7 DEF StopVariant, StopActive
<1>8. CASE StartSource(r)
  BY <1>8 DEF StartSource
<1>9. CASE DockerFails(r) \/ SaveFails(r) \/ Interrupt(r)
  BY <1>9 DEF DockerFails, SaveFails, Interrupt, Unwind, SavePoint
<1>10. QED
  BY <1>1, <1>2, <1>3, <1>4, <1>5, <1>6, <1>7, <1>8, <1>9 DEF Act, Step

\* A step of r leaves what the loans of the others are made of alone.
LEMMA LoanLocal ==
  ASSUME TypeOK, NEW r \in Runner, Act(r), NEW q \in Runner, q # r
  PROVE  pc'[q] = pc[q] /\ step'[q] = step[q] /\ stopped'[q] = stopped[q] /\ checked'[q] = checked[q]
<1>1. pc'[q] = pc[q] /\ step'[q] = step[q]
  BY OthersLocal
<1>2. UNCHANGED <<stopped, checked>> \/ Lend(r) \/ Ready(r) \/ ReadySource(r)
  <2>1. CASE Decline(r) \/ Inspect(r) \/ Lock(r) \/ Prepare(r) \/ Glob(r) \/ RunPaired(r) \/ Collect(r)
    BY <2>1 DEF Decline, Inspect, Lock, Prepare, Glob, RunPaired, Collect
  <2>2. CASE Truncate(r) \/ SaveJournal(r) \/ StopSource(r) \/ Create(r) \/ Bind(r) \/ StartVariant(r)
    BY <2>2 DEF Truncate, SaveJournal, StopSource, Create, Bind, StartVariant
  <2>3. CASE StopVariant(r) \/ StopActive(r) \/ StartSource(r) \/ OrphanEnds(r)
    BY <2>3 DEF StopVariant, StopActive, StartSource, OrphanEnds
  <2>4. CASE DockerFails(r) \/ SaveFails(r) \/ Interrupt(r) \/ Kill(r)
    BY <2>4 DEF DockerFails, SaveFails, Interrupt, Kill
  <2>5. QED
    BY <2>1, <2>2, <2>3, <2>4 DEF Act, Step
<1>3. stopped'[q] = stopped[q] /\ checked'[q] = checked[q]
  BY <1>2 DEF TypeOK, Lend, Ready, ReadySource
<1>4. QED
  BY <1>1, <1>3

\* The invariant, for the process that moves.
LEMMA LoanInvStep ==
  ASSUME TypeInv, FindInv, LoanInv, NEW r \in Runner, Act(r)
  PROVE  LoanInvOf(r)'
<1> USE DEF LoanInv, LoanInvOf, TypeInv, TypeOK, Starting, Alive, Trying, Cleaning, Settled, Baseline
<1>1. CASE Moves(r)
  BY <1>1 DEF Moves
<1>2. CASE Ends(r)
  BY <1>2 DEF Ends
<1>3. CASE Lock(r)
  BY <1>3 DEF Lock
<1>4. CASE Lend(r)
  BY <1>4 DEF Lend
<1>5. CASE Ready(r)
  <2>1. UNCHANGED <<stopped, step>> /\ pc[r] = "ready" /\ pc'[r] \in {"glob", "saveError"}
    BY <1>5 DEF Ready
  <2>2. checked'[r] = (checked[r] \/ step[r] = 0) \/ checked'[r] = checked[r]
    BY <1>5 DEF Ready
  <2>3. QED
    BY <2>1, <2>2
<1>6. CASE ReadySource(r)
  BY <1>6 DEF ReadySource
<1>7. QED
  BY <1>1, <1>2, <1>3, <1>4, <1>5, <1>6, LoanSteps DEF FindInv

\* No process comes to hold the lock of a source that is not its own.
LEMMA HoldersStep ==
  ASSUME TypeOK, LoanInv, [Next]_vars, NEW s \in Source, NEW r \in Runner, lockedBy'[s] = r
  PROVE  SourceOf[r] = s
<1>1. CASE UNCHANGED lockedBy
  BY <1>1 DEF LoanInv
<1>2. ASSUME NEW q \in Runner, Lock(q)
      PROVE  SourceOf[r] = s
  BY <1>2, CampaignAssumption DEF LoanInv, Lock, TypeOK
<1>3. ASSUME NEW q \in Runner, NEW p \in Ended, Exit(q, p)
      PROVE  SourceOf[r] = s
  BY <1>3, CampaignAssumption DEF LoanInv, Container
<1>4. QED
  BY <1>1, <1>2, <1>3, LockSteps

LEMMA LoanInvNext == TypeInv /\ FindInv /\ LoanInv /\ [Next]_vars => LoanInv'
<1> SUFFICES ASSUME TypeInv, FindInv, LoanInv, [Next]_vars PROVE LoanInv'
  OBVIOUS
<1>1. \A s \in Source, r \in Runner : lockedBy'[s] = r => SourceOf[r] = s
  BY HoldersStep DEF TypeInv
<1>2. ASSUME NEW r \in Runner PROVE LoanInvOf(r)'
  <2>1. LoanInvOf(r)
    BY DEF LoanInv
  <2>2. ASSUME NEW q \in Runner, Act(q)
        PROVE  LoanInvOf(r)'
    <3>1. CASE q = r
      BY <2>2, <3>1, LoanInvStep
    <3>2. CASE q # r
      BY <2>1, <2>2, <3>2, LoanLocal DEF TypeInv, LoanInvOf
    <3>3. QED
      BY <3>1, <3>2
  <2>3. CASE UNCHANGED vars \/ ManualRun \/ \E c \in Container : Load(c) \/ Die(c)
    BY <2>1, <2>3 DEF vars, ManualRun, Load, Die, LoanInvOf
  <2>4. CASE \E s \in Source : Rescue(s)
    <3>1. UNCHANGED <<stopped, checked, step>> /\ (pc'[r] = pc[r] \/ pc'[r] = "rescued")
      BY <2>4 DEF Rescue
    <3>2. QED
      BY <2>1, <3>1 DEF LoanInvOf, Starting, Alive, Trying, Cleaning, Settled, Baseline
  <2>5. QED
    BY <2>2, <2>3, <2>4 DEF Next, Act
<1>3. QED
  BY <1>1, <1>2 DEF LoanInv

\* What the mapping makes of the variable loan.
LoanMap == [r \in Runner |-> LoanOf(r)]

\* The other processes' loans.
LEMMA LoanOthers ==
  ASSUME TypeOK, NEW r \in Runner, Act(r), NEW q \in Runner, q # r
  PROVE  LoanOf(q)' = LoanOf(q)
  BY LoanLocal DEF LoanOf

LEMMA LoanSame ==
  ASSUME TypeOK, NEW r \in Runner, Act(r), UNCHANGED lockedBy, LoanOf(r)' = LoanOf(r)
  PROVE  UNCHANGED Loan!vars
<1>1. \A q \in Runner : LoanOf(q)' = LoanOf(q)
  BY LoanOthers
<1>2. QED
  BY <1>1 DEF Loan!vars

LEMMA LoanMoved ==
  ASSUME TypeOK, NEW r \in Runner, Act(r), NEW v, LoanOf(r)' = v
  PROVE  LoanMap' = [LoanMap EXCEPT ![r] = v]
<1>1. \A q \in Runner \ {r} : LoanOf(q)' = LoanOf(q)
  BY LoanOthers
<1>2. QED
  BY <1>1 DEF LoanMap

\* Every step of a process.
LEMMA LoanAct ==
  ASSUME TypeInv, FindInv, LockInv, LoanInv, NEW r \in Runner, Act(r)
  PROVE  [Loan!Next]_(Loan!vars)
<1> USE DEF Starting, Alive, Trying, Cleaning, Settled, Baseline
<1>0. TypeOK /\ SourceOf[r] \in Source /\ LoanInvOf(r) /\ r # None
  BY CampaignAssumption DEF TypeInv, LoanInv, Container
<1>1. CASE Moves(r)
  <2>1. UNCHANGED lockedBy /\ stopped'[r] = stopped[r] /\ checked'[r] = checked[r]
    BY <1>1 DEF Moves
  <2>2. pc'[r] = pc[r] \/ (pc[r] \in Alive /\ pc'[r] \in Alive)
    BY <1>1 DEF Moves
  <2>3. LoanOf(r)' = LoanOf(r)
    BY <2>1, <2>2 DEF LoanOf
  <2>4. QED
    BY <1>0, <2>1, <2>3, LoanSame
<1>2. CASE Ends(r)
  <2>1. PICK p \in Ended : Exit(r, p) /\ p # "rescued"
    BY <1>2 DEF Ends, Ended
  <2>2. stopped'[r] = stopped[r] /\ checked'[r] = checked[r] /\ pc[r] \in Alive /\ pc'[r] = p
    BY <1>0, <1>2, <2>1 DEF Ends, TypeOK
  <2>3. LoanOf(r)' = IF LoanOf(r) = "lent" THEN "stranded" ELSE LoanOf(r)
    <3>1. p \in {"declined", "done"} => LoanOf(r) # "lent" /\ LoanOf(r)' = LoanOf(r)
      <4>1. pc'[r] = p /\ TypeOK
        BY <1>0, <2>2
      <4>2. p = "declined" => pc[r] \in Starting
        BY <1>2, <4>1 DEF Ends, TypeOK
      <4>3. p = "done" => pc[r] = "saveRestored"
        BY <1>2, <4>1 DEF Ends, TypeOK
      <4>4. p \in {"declined", "done"} => ~stopped[r] \/ checked[r]
        BY <1>0, <4>2, <4>3 DEF LoanInvOf
      <4>5. QED
        BY <2>2, <4>4 DEF LoanOf
    <3>2. p \in {"killed", "aborted"} => LoanOf(r)' = IF LoanOf(r) = "lent" THEN "stranded" ELSE LoanOf(r)
      BY <2>2 DEF LoanOf
    <3>3. QED
      BY <2>1, <3>1, <3>2 DEF Ended
  <2>4. CASE lockedBy[SourceOf[r]] = r
    <3>1. lockedBy' = [lockedBy EXCEPT ![SourceOf[r]] = None]
      <4>1. \A s \in Source : lockedBy[s] = r <=> s = SourceOf[r]
        BY <2>4 DEF LoanInv
      <4>2. QED
        BY <1>0, <2>1, <4>1 DEF TypeOK
    <3>2. LoanMap' = [LoanMap EXCEPT ![r] = IF @ = "lent" THEN "stranded" ELSE @]
      BY <1>0, <2>3, LoanMoved DEF LoanMap
    <3>3. Loan!Release(r)
      BY <2>4, <3>1, <3>2 DEF Loan!Release, LoanMap
    <3>4. QED
      BY <3>3 DEF Loan!Next
  <2>5. CASE lockedBy[SourceOf[r]] # r
    <3>1. UNCHANGED lockedBy
      <4>1. \A s \in Source : lockedBy[s] # r
        BY <2>5 DEF LoanInv
      <4>2. QED
        BY <1>0, <2>1, <4>1 DEF TypeOK
    <3>2. pc[r] \in {"inspect", "lock"}
      BY <2>2, <2>5 DEF LockInv, Holding
    <3>3. LoanOf(r)' = LoanOf(r)
      BY <1>0, <2>3, <3>2 DEF LoanInvOf, LoanOf
    <3>4. QED
      BY <1>0, <3>1, <3>3, LoanSame
  <2>6. QED
    BY <2>4, <2>5
<1>3. CASE Lock(r)
  <2>1. LoanOf(r) = "none" /\ LoanOf(r)' = "none"
    BY <1>0, <1>3 DEF Lock, LoanInvOf, LoanOf, TypeOK
  <2>2. LoanMap' = LoanMap
    BY <1>0, <2>1, LoanMoved DEF LoanMap
  <2>3. Loan!Claim(r)
    BY <1>3, <2>1, <2>2 DEF Lock, Loan!Claim, LoanMap
  <2>4. QED
    BY <2>3 DEF Loan!Next
<1>4. CASE Lend(r)
  <2>1. LoanOf(r) = "none" /\ LoanOf(r)' = "lent" /\ UNCHANGED lockedBy
    BY <1>0, <1>4 DEF Lend, LoanInvOf, LoanOf, TypeOK
  <2>2. LoanMap' = [LoanMap EXCEPT ![r] = "lent"]
    BY <1>0, <2>1, LoanMoved
  <2>3. lockedBy[SourceOf[r]] = r
    BY <1>4 DEF Lend, LockInv, Holding
  <2>4. Loan!Lend(r)
    BY <2>1, <2>2, <2>3 DEF Loan!Lend, LoanMap
  <2>5. QED
    BY <2>4 DEF Loan!Next
<1>5. CASE Ready(r)
  <2>1. UNCHANGED <<lockedBy, stopped>> /\ pc[r] \in Alive /\ pc'[r] \in Alive
    BY <1>0, <1>5 DEF Ready, TypeOK
  <2>2. stopped[r] => checked'[r] = checked[r]
    BY <1>0, <1>5 DEF Ready, LoanInvOf, TypeOK
  <2>3. LoanOf(r)' = LoanOf(r)
    BY <2>1, <2>2 DEF LoanOf
  <2>4. QED
    BY <1>0, <2>1, <2>3, LoanSame
<1>6. CASE ReadySource(r)
  <2>1. CASE checked' = [checked EXCEPT ![r] = TRUE] /\ Go(r, "saveRestored") /\ UNCHANGED lockedBy
    <3>1. pc[r] = "readySource" /\ pc'[r] = "saveRestored" /\ checked'[r] = TRUE /\ stopped'[r] = stopped[r]
      BY <1>0, <1>6, <2>1 DEF ReadySource, TypeOK
    <3>2. CASE stopped[r]
      <4>1. LoanOf(r) = "lent" /\ LoanOf(r)' = "returned"
        BY <1>0, <3>1, <3>2 DEF LoanOf, LoanInvOf
      <4>2. LoanMap' = [LoanMap EXCEPT ![r] = "returned"]
        BY <1>0, <4>1, LoanMoved
      <4>3. lockedBy[SourceOf[r]] = r
        BY <3>1 DEF LockInv, Holding
      <4>4. Loan!Return(r)
        BY <2>1, <4>1, <4>2, <4>3 DEF Loan!Return, LoanMap
      <4>5. QED
        BY <4>4 DEF Loan!Next
    <3>3. CASE ~stopped[r]
      <4>1. LoanOf(r)' = LoanOf(r)
        BY <3>1, <3>3 DEF LoanOf
      <4>2. QED
        BY <1>0, <2>1, <4>1, LoanSame
    <3>4. QED
      BY <3>2, <3>3
  <2>2. CASE Exit(r, "aborted") /\ UNCHANGED checked
    <3>1. Ends(r)
      BY <1>6, <2>2 DEF ReadySource, Ends
    <3>2. QED
      BY <1>2, <3>1
  <2>3. QED
    BY <1>6, <2>1, <2>2 DEF ReadySource
<1>7. QED
  BY <1>1, <1>2, <1>3, <1>4, <1>5, <1>6, LoanSteps DEF FindInv

\* An operator's rescue is the rescue of the loan.
LEMMA LoanRescue ==
  ASSUME TypeOK, NEW s \in Source, Rescue(s)
  PROVE  Loan!Rescue(s)
<1>1. lockedBy[s] = None /\ UNCHANGED <<lockedBy, stopped, checked>>
  BY DEF Rescue
<1>2. ASSUME NEW r \in Runner
      PROVE  LoanOf(r)' = IF SourceOf[r] = s /\ LoanOf(r) = "stranded" THEN "rescued" ELSE LoanOf(r)
  <2>1. pc'[r] = IF SourceOf[r] = s /\ pc[r] \in {"killed", "aborted"} THEN "rescued" ELSE pc[r]
    BY DEF Rescue
  <2>2. QED
    BY <1>1, <2>1 DEF LoanOf
<1>3. QED
  BY <1>1, <1>2 DEF Loan!Rescue

\* Each step is a step of the loan, or changes nothing of it.
LEMMA LoanStep ==
  TypeInv /\ FindInv /\ LockInv /\ LoanInv /\ [Next]_vars => [Loan!Next]_(Loan!vars)
<1> SUFFICES ASSUME TypeInv, FindInv, LockInv, LoanInv, [Next]_vars
             PROVE  [Loan!Next]_(Loan!vars)
  OBVIOUS
<1>1. ASSUME NEW r \in Runner, Act(r) PROVE [Loan!Next]_(Loan!vars)
  BY <1>1, LoanAct
<1>2. CASE UNCHANGED vars \/ ManualRun \/ \E c \in Container : Load(c) \/ Die(c)
  <2>1. UNCHANGED <<lockedBy, pc, stopped, checked>>
    BY <1>2 DEF vars, ManualRun, Load, Die
  <2>2. \A r \in Runner : LoanOf(r)' = LoanOf(r)
    BY <2>1 DEF LoanOf
  <2>3. QED
    BY <2>1, <2>2 DEF Loan!vars
<1>3. ASSUME NEW s \in Source, Rescue(s) PROVE [Loan!Next]_(Loan!vars)
  BY <1>3, LoanRescue DEF TypeInv, Loan!Next
<1>4. QED
  BY <1>1, <1>2, <1>3 DEF Next, Act

\* A campaign implements the loan of its source (campaign.py lines 75-79, 133 and
\* 162-176): it claims the source alone, lends it once, returns it verified to be serving
\* and only then lets go of it, or leaves it stranded; with any number of campaigns on
\* any number of sources, failing, interrupted, killed and rescued in any order.
THEOREM LoanIsKept == Spec => LoanKept
<1>1. Init => TypeInv /\ FindInv /\ LockInv /\ LoanInv
  BY TypeInit, NamedInit, LockInit, LoanInit
<1>2. TypeInv /\ FindInv /\ LockInv /\ LoanInv /\ [Next]_vars
        => TypeInv' /\ FindInv' /\ LockInv' /\ LoanInv'
  BY TypeStep, NamedStep, LockStep, LoanInvNext DEF TypeInv
<1>3. Init => Loan!Init
  BY DEF Init, Loan!Init, LoanOf
<1>4. QED
  BY <1>1, <1>2, <1>3, LoanStep, PTL DEF Spec, LoanKept, Loan!Spec
=============================================================================
