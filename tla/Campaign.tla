------------------------------ MODULE Campaign ------------------------------
(***************************************************************************)
(* The prefill campaign of srh/recommendation/campaign.py: a process that  *)
(* takes a running source container out of service, measures two variants  *)
(* of it one after the other, and puts the source back.  Several campaign  *)
(* processes, the Docker daemon, operators running the benchmark by hand,  *)
(* signals, Docker failures and SIGKILL interleave at the granularity of   *)
(* one API call, one file operation or one subprocess.                     *)
(***************************************************************************)
EXTENDS Naturals, Sequences

CONSTANTS Runner,      \* campaign processes
          Source,      \* source containers
          SourceOf,    \* the container each process was given (--container)
          None,        \* no container, no process
          Torn,        \* campaign.json missing, or truncated by an unfinished save
          Foreign,     \* evidence written by a benchmark run by hand
          SameSecond,  \* may two evidence files get the same time stamp?
          MaxFaults,   \* bound: Docker errors, container deaths, full disks
          MaxSignals,  \* bound: SIGTERM deliveries
          MaxResults   \* bound: evidence files in the shared directory
                       \* (each by the set of campaigns that are not declined)

Budgets == <<4096, 16384>>              \* variants, in the order measured
Variant == Runner \X DOMAIN Budgets     \* a container per process and budget
Container == Source \cup Variant

\* An entry of the journal: what its file measured and, as history, which of the
\* files of the results directory it was copied from.
Evidence == [of : Container \cup {Foreign}, file : Nat]

Journal == [active : Variant \cup {None}, evidence : Seq(Evidence),
            restored : BOOLEAN, stopError : BOOLEAN]

ASSUME CampaignAssumption ==
    /\ SourceOf \in [Runner -> Source]
    /\ Source \cap Variant = {}
    /\ None \notin Container \cup Runner
    /\ Foreign \notin Container
    /\ Torn \notin Journal
    /\ SameSecond \in BOOLEAN
    /\ \A bound \in {MaxFaults, MaxSignals, MaxResults} : bound \in [SUBSET Runner -> Nat]

VARIABLES
    container,  \* Docker's view of each container
    lockedBy,   \* holder of the flock on each source's lock file
    pc,         \* where each campaign process is
    step,       \* 0 for the baseline, then the index of the budget
    active,     \* local variable active
    stopped,    \* local variable stopped
    checked,    \* history: ready(source) returned, and no stop since
    journal,    \* the journal dictionary in memory
    disk,       \* the content of campaign.json
    before,     \* evidence files counted before the subprocess
    results,    \* the shared results directory: what each file measured
    clashed,    \* history: the files that a later run of their second overwrote
    orphan,     \* killed processes whose benchmark subprocess still runs
    faults, signals

daemon == <<container>>
local == <<step, active, stopped, checked, before>>
directory == <<results, clashed>>
files == <<journal, disk, results, clashed>>
world == <<orphan, faults, signals>>
vars == <<container, lockedBy, pc, step, active, stopped, checked, journal,
          disk, before, results, clashed, orphan, faults, signals>>

Starting == {"inspect", "lock", "prepare"}
Trying == {"ready", "glob", "run", "collect", "saveEvidence", "lend",
           "stopSource", "create", "bind", "saveVariant", "startVariant",
           "stopVariant"}
Cleaning == {"stopActive", "startSource", "readySource", "saveRestored"}
Ended == {"declined", "done", "aborted", "killed", "rescued"}
Alive == Starting \cup Trying \cup {"saveError"} \cup Cleaning
SavePoint == {"saveEvidence", "saveVariant", "saveError", "saveRestored"}

Up(c) == container[c] \in {"loading", "serving"}
Owns(r) == lockedBy[SourceOf[r]] = r
Target(r) == IF step[r] = 0 THEN SourceOf[r] ELSE <<r, step[r]>>

TypeOK ==
    /\ container \in [Container -> {"absent", "created", "loading", "serving", "exited"}]
    /\ lockedBy \in [Source -> Runner \cup {None}]
    /\ pc \in [Runner -> Alive \cup Ended]
    /\ step \in [Runner -> 0..2]
    /\ active \in [Runner -> Variant \cup {None}]
    /\ stopped \in [Runner -> BOOLEAN]
    /\ checked \in [Runner -> BOOLEAN]
    /\ journal \in [Runner -> Journal]
    /\ disk \in [Runner -> Journal \cup {Torn}]
    /\ before \in [Runner -> Nat]
    /\ results \in Seq(Container \cup {Foreign})
    /\ clashed \subseteq DOMAIN results
    /\ orphan \in SUBSET Runner
    /\ faults \in Nat
    /\ signals \in Nat

Init ==
    /\ container \in [Container -> {"absent", "loading", "serving", "exited"}]
    /\ \A c \in Container : c \in Variant <=> container[c] = "absent"
    /\ lockedBy = [s \in Source |-> None]
    /\ pc = [r \in Runner |-> "inspect"]
    /\ step = [r \in Runner |-> 0]
    /\ active = [r \in Runner |-> None]
    /\ stopped = [r \in Runner |-> FALSE]
    /\ checked = [r \in Runner |-> FALSE]
    /\ journal = [r \in Runner |-> [active |-> None, evidence |-> <<>>,
                                    restored |-> FALSE, stopError |-> FALSE]]
    /\ disk = [r \in Runner |-> Torn]
    /\ before = [r \in Runner |-> 0]
    /\ results = <<>>
    /\ clashed = {}
    /\ orphan = {}
    /\ faults = 0
    /\ signals = 0

Go(r, p) == pc' = [pc EXCEPT ![r] = p]

\* The ExitStack closes the lock file when the process ends.
Exit(r, p) ==
    /\ Go(r, p)
    /\ lockedBy' = [s \in Source |-> IF lockedBy[s] = r THEN None ELSE lockedBy[s]]

Campaigning == {r \in Runner : pc[r] # "declined"}

Fault == faults < MaxFaults[Campaigning] /\ faults' = faults + 1 /\ UNCHANGED <<orphan, signals>>

\* An exception goes to the except clause of the campaign, from there to finally.
Raise(r) == Go(r, "saveError")

\* Docker's answers 304 (already started, already stopped) are not errors.
StopOf(c) == [container EXCEPT ![c] = IF Up(c) THEN "exited" ELSE @]
StartOf(c) == [container EXCEPT ![c] = IF Up(c) THEN @ ELSE "loading"]

-----------------------------------------------------------------------------
(* Before the signal handler is installed nothing has been changed: every  *)
(* parser.error, the preview without --execute and every failure just end  *)
(* the process.                                                            *)
Decline(r) ==
    /\ pc[r] \in Starting
    /\ Exit(r, "declined")
    /\ UNCHANGED <<daemon, local, files, world>>

\* The source is inspected, and found running, before the lock is taken.
Inspect(r) ==
    /\ pc[r] = "inspect"
    /\ Up(SourceOf[r])
    /\ Go(r, "lock")
    /\ UNCHANGED <<lockedBy, daemon, local, files, world>>

\* Mutant: the lock file is opened and never locked.
LockUnguarded(r) ==
    /\ pc[r] = "lock"
    /\ lockedBy' = [lockedBy EXCEPT ![SourceOf[r]] = r]
    /\ Go(r, "prepare")
    /\ UNCHANGED <<daemon, local, files, world>>

\* flock(LOCK_EX | LOCK_NB); a held lock is a Decline.
Lock(r) ==
    /\ pc[r] = "lock"
    /\ lockedBy[SourceOf[r]] = None
    /\ lockedBy' = [lockedBy EXCEPT ![SourceOf[r]] = r]
    /\ Go(r, "prepare")
    /\ UNCHANGED <<daemon, local, files, world>>

\* Output directory, private inspection, journal in memory, SIGTERM handler.
Prepare(r) ==
    /\ pc[r] = "prepare"
    /\ Go(r, "ready")
    /\ UNCHANGED <<lockedBy, daemon, local, files, world>>

\* ready(): the API answered, or the container exited or the deadline passed.
Ready(r) ==
    /\ pc[r] = "ready"
    /\ \/ /\ container[Target(r)] = "serving"
          /\ checked' = [checked EXCEPT ![r] = @ \/ step[r] = 0]
          /\ Go(r, "glob")
       \/ /\ container[Target(r)] # "serving"
          /\ Raise(r)
          /\ UNCHANGED checked
    /\ UNCHANGED <<lockedBy, daemon, step, active, stopped, before, files, world>>

\* measure(): the files present before the benchmark.
Glob(r) ==
    /\ pc[r] = "glob"
    /\ before' = [before EXCEPT ![r] = Len(results)]
    /\ Go(r, "run")
    /\ UNCHANGED <<lockedBy, daemon, step, active, stopped, checked, files, world>>

\* A new file or, when its name has the same second, the last one again.
Write(c) ==
    \/ /\ results' = Append(results, c)
       /\ UNCHANGED clashed
    \/ /\ SameSecond /\ results # <<>>
       /\ results' = [results EXCEPT ![Len(results)] = c]
       /\ clashed' = clashed \cup {Len(results)}

\* The benchmark of r, however it ends, has written its file or has not.
Benchmark(r) ==
    \/ UNCHANGED directory
    \/ container[Target(r)] = "serving" /\ Write(Target(r))

\* measure(): the paired_modes subprocess, which ends, or fails or is timed out
\* before or after it wrote its file.
RunPaired(r) ==
    /\ pc[r] = "run"
    /\ \/ /\ container[Target(r)] = "serving"
          /\ Write(Target(r))
          /\ Go(r, "collect")
       \/ /\ Benchmark(r)
          /\ Raise(r)
    /\ UNCHANGED <<lockedBy, daemon, local, journal, disk, world>>

Enter(r) ==
    journal' = [journal EXCEPT ![r].evidence =
                   Append(@, [of |-> results[Len(results)], file |-> Len(results)])]

\* Mutant: the newest file is taken without counting the new ones.
CollectNewest(r) ==
    /\ pc[r] = "collect"
    /\ Enter(r)
    /\ Go(r, "saveEvidence")
    /\ UNCHANGED <<lockedBy, daemon, local, disk, directory, world>>

\* measure(): exactly one new file, copied and entered in the journal.
Collect(r) ==
    /\ pc[r] = "collect"
    /\ \/ /\ Len(results) = before[r] + 1
          /\ Enter(r)
          /\ Go(r, "saveEvidence")
       \/ /\ Len(results) # before[r] + 1
          /\ Raise(r)
          /\ UNCHANGED journal
    /\ UNCHANGED <<lockedBy, daemon, local, disk, directory, world>>

\* save(): write_text truncates campaign.json, then writes it.
Truncate(r) ==
    /\ pc[r] \in SavePoint
    /\ disk[r] # Torn
    /\ disk' = [disk EXCEPT ![r] = Torn]
    /\ UNCHANGED <<lockedBy, pc, daemon, local, journal, directory, world>>

AfterSave(r) == CASE pc[r] = "saveVariant" -> "startVariant"
                  [] pc[r] = "saveError" -> "stopActive"
                  [] pc[r] = "saveEvidence" /\ step[r] = 0 -> "lend"
                  [] OTHER -> "stopVariant"

SaveJournal(r) ==
    /\ pc[r] \in SavePoint
    /\ disk[r] = Torn
    /\ disk' = [disk EXCEPT ![r] = journal[r]]
    /\ \/ /\ pc[r] = "saveRestored"
          /\ Exit(r, "done")
       \/ /\ pc[r] # "saveRestored"
          /\ Go(r, AfterSave(r))
          /\ UNCHANGED lockedBy
    /\ UNCHANGED <<daemon, local, journal, directory, world>>

\* Mutant: the flag is never set.
LendUnflagged(r) ==
    /\ pc[r] = "lend"
    /\ checked' = [checked EXCEPT ![r] = FALSE]
    /\ Go(r, "stopSource")
    /\ UNCHANGED <<lockedBy, daemon, step, active, stopped, before, files, world>>

\* The flag is set before the request, so that cleanup covers a stop that
\* Docker carried out and did not acknowledge.
Lend(r) ==
    /\ pc[r] = "lend"
    /\ stopped' = [stopped EXCEPT ![r] = TRUE]
    /\ checked' = [checked EXCEPT ![r] = FALSE]
    /\ Go(r, "stopSource")
    /\ UNCHANGED <<lockedBy, daemon, step, active, before, files, world>>

\* Every variant of every campaign is published on 127.0.0.1:18301.
PortFree(r) == \A v \in Variant \ {active[r]} : ~Up(v)

\* What Docker does when it carries out the request of the current step.
Effect(r) == CASE pc[r] = "stopSource" -> StopOf(SourceOf[r])
               [] pc[r] = "create" -> [container EXCEPT ![<<r, step[r]>>] = "created"]
               [] pc[r] = "startVariant" /\ PortFree(r) -> StartOf(active[r])
               [] pc[r] = "stopVariant" -> StopOf(active[r])
               [] pc[r] = "stopActive" /\ active[r] # None -> StopOf(active[r])
               [] pc[r] = "startSource" /\ stopped[r] -> StartOf(SourceOf[r])
               [] OTHER -> container

StopSource(r) ==
    /\ pc[r] = "stopSource"
    /\ container' = Effect(r)
    /\ step' = [step EXCEPT ![r] = 1]
    /\ Go(r, "create")
    /\ UNCHANGED <<lockedBy, active, stopped, checked, before, files, world>>

\* The container exists before the process knows its id.
Create(r) ==
    /\ pc[r] = "create"
    /\ container' = Effect(r)
    /\ Go(r, "bind")
    /\ UNCHANGED <<lockedBy, local, files, world>>

\* Mutant: the variant is started before its id is saved.
BindUnsaved(r) ==
    /\ pc[r] = "bind"
    /\ active' = [active EXCEPT ![r] = <<r, step[r]>>]
    /\ journal' = [journal EXCEPT ![r].active = <<r, step[r]>>]
    /\ Go(r, "startVariant")
    /\ UNCHANGED <<lockedBy, daemon, step, stopped, checked, before, disk, directory, world>>

Bind(r) ==
    /\ pc[r] = "bind"
    /\ active' = [active EXCEPT ![r] = <<r, step[r]>>]
    /\ journal' = [journal EXCEPT ![r].active = <<r, step[r]>>]
    /\ Go(r, "saveVariant")
    /\ UNCHANGED <<lockedBy, daemon, step, stopped, checked, before, disk, directory, world>>

StartVariant(r) ==
    /\ pc[r] = "startVariant"
    /\ \/ PortFree(r) /\ container' = Effect(r) /\ Go(r, "ready")
       \/ ~PortFree(r) /\ Raise(r) /\ UNCHANGED container
    /\ UNCHANGED <<lockedBy, local, files, world>>

\* Mutant: the loop runs once more.
StopVariantOffByOne(r) ==
    /\ pc[r] = "stopVariant"
    /\ container' = Effect(r)
    /\ active' = [active EXCEPT ![r] = None]
    /\ step' = [step EXCEPT ![r] = @ + 1]
    /\ Go(r, "create")
    /\ UNCHANGED <<lockedBy, stopped, checked, before, files, world>>

StopVariant(r) ==
    /\ pc[r] = "stopVariant"
    /\ container' = Effect(r)
    /\ active' = [active EXCEPT ![r] = None]
    /\ \/ /\ step[r] < Len(Budgets)
          /\ step' = [step EXCEPT ![r] = @ + 1]
          /\ Go(r, "create")
       \/ /\ step[r] = Len(Budgets)
          /\ Go(r, "stopActive")
          /\ UNCHANGED step
    /\ UNCHANGED <<lockedBy, stopped, checked, before, files, world>>

-----------------------------------------------------------------------------
(* The finally clause. *)

\* Mutant: cleanup restores the source and leaves the variant running.
StopActiveSkipped(r) ==
    /\ pc[r] = "stopActive"
    /\ Go(r, "startSource")
    /\ UNCHANGED <<lockedBy, daemon, local, files, world>>

\* A failed stop is recorded in the journal and does not keep the source down.
StopActive(r) ==
    /\ pc[r] = "stopActive"
    /\ \/ /\ container' = Effect(r)
          /\ UNCHANGED <<journal, world>>
       \/ /\ active[r] # None
          /\ Fault
          /\ container' \in {container, Effect(r)}
          /\ journal' = [journal EXCEPT ![r].stopError = TRUE]
    /\ Go(r, "startSource")
    /\ UNCHANGED <<lockedBy, local, disk, directory>>

Restored(r) ==
    journal' = [journal EXCEPT ![r] = [@ EXCEPT !.restored = TRUE, !.active = None]]

\* Mutant: restoration is reported without waiting for readiness.
StartSourceUnchecked(r) ==
    /\ pc[r] = "startSource"
    /\ container' = IF stopped[r] THEN StartOf(SourceOf[r]) ELSE container
    /\ Restored(r)
    /\ Go(r, "saveRestored")
    /\ UNCHANGED <<lockedBy, local, disk, directory, world>>

\* A source this process never stopped is reported restored as it is.
StartSource(r) ==
    /\ pc[r] = "startSource"
    /\ \/ /\ stopped[r]
          /\ container' = Effect(r)
          /\ Go(r, "readySource")
          /\ UNCHANGED journal
       \/ /\ ~stopped[r]
          /\ Restored(r)
          /\ Go(r, "saveRestored")
          /\ UNCHANGED container
    /\ UNCHANGED <<lockedBy, local, disk, directory, world>>

\* Mutant: the wait for readiness has no deadline and ignores an exited container.
ReadySourceForever(r) ==
    /\ pc[r] = "readySource"
    /\ container[SourceOf[r]] = "serving"
    /\ checked' = [checked EXCEPT ![r] = TRUE]
    /\ Restored(r)
    /\ Go(r, "saveRestored")
    /\ UNCHANGED <<lockedBy, daemon, step, active, stopped, before, disk, directory, world>>

ReadySource(r) ==
    /\ pc[r] = "readySource"
    /\ \/ /\ container[SourceOf[r]] = "serving"
          /\ checked' = [checked EXCEPT ![r] = TRUE]
          /\ Restored(r)
          /\ Go(r, "saveRestored")
          /\ UNCHANGED lockedBy
       \/ /\ container[SourceOf[r]] # "serving"
          /\ Exit(r, "aborted")
          /\ UNCHANGED <<checked, journal>>
    /\ UNCHANGED <<daemon, step, active, stopped, before, disk, directory, world>>

-----------------------------------------------------------------------------
(* Failures. *)

\* Where an exception raised at the current step takes the process.
Unwind(r) ==
    \/ pc[r] \in Trying /\ Raise(r) /\ UNCHANGED lockedBy
    \/ pc[r] = "saveError" /\ Go(r, "stopActive") /\ UNCHANGED lockedBy
    \/ pc[r] \in Cleaning /\ Exit(r, "aborted")

\* An API call fails, with or without its effect on the daemon.
DockerFails(r) ==
    /\ pc[r] \in {"ready", "stopSource", "create", "startVariant", "stopVariant",
                  "startSource", "readySource"}
    /\ pc[r] = "startSource" => stopped[r]
    /\ pc[r] = "startVariant" => PortFree(r)
    /\ container' \in {container, Effect(r)}
    /\ Unwind(r)
    /\ Fault
    /\ UNCHANGED <<local, files>>

\* A save fails after the file was truncated.
SaveFails(r) ==
    /\ pc[r] \in SavePoint
    /\ disk' = [disk EXCEPT ![r] = Torn]
    /\ Unwind(r)
    /\ Fault
    /\ UNCHANGED <<daemon, local, journal, directory>>

\* A request or a benchmark may be under way when the process is interrupted: Docker
\* carries the request out (before the next about that container) or does not, and
\* the benchmark, which subprocess.run kills, has written its file or has not.
UnderWay(r) ==
    /\ container' \in {container, Effect(r)}
    /\ IF pc[r] = "run" THEN Benchmark(r) ELSE UNCHANGED directory

\* SIGTERM: the handler raises KeyboardInterrupt wherever the process is.
Interrupt(r) ==
    /\ signals < MaxSignals[Campaigning]
    /\ signals' = signals + 1
    /\ UnderWay(r)
    /\ Unwind(r)
    /\ UNCHANGED <<local, journal, disk, orphan, faults>>

\* SIGKILL: the lock goes with the process, a running benchmark stays.
Kill(r) ==
    /\ pc[r] \in Alive
    /\ Exit(r, "killed")
    /\ container' \in {container, Effect(r)}
    /\ orphan' = IF pc[r] = "run" THEN orphan \cup {r} ELSE orphan
    /\ UNCHANGED <<local, files, faults, signals>>

-----------------------------------------------------------------------------
(* The surroundings. *)

Load(c) ==
    /\ container[c] = "loading"
    /\ container' = [container EXCEPT ![c] = "serving"]
    /\ UNCHANGED <<lockedBy, pc, local, files, world>>

Die(c) ==
    /\ Up(c)
    /\ container' = [container EXCEPT ![c] = "exited"]
    /\ Fault
    /\ UNCHANGED <<lockedBy, pc, local, files>>

\* Evidence captured manually with the same benchmark, into the same directory.
ManualRun ==
    /\ Len(results) < MaxResults[Campaigning]
    /\ Write(Foreign)
    /\ UNCHANGED <<lockedBy, pc, daemon, local, journal, disk, world>>

OrphanEnds(r) ==
    /\ r \in orphan
    /\ orphan' = orphan \ {r}
    /\ Benchmark(r)
    /\ UNCHANGED <<lockedBy, pc, daemon, local, journal, disk, faults, signals>>

\* The procedure of srh/recommendation/README.md after campaigns that could
\* not clean up: stop the variants their journals name, then start the source.
Named(r) == IF disk[r] = Torn THEN {} ELSE {disk[r].active} \ {None}

Rescue(s) ==
    LET lost == {r \in Runner : SourceOf[r] = s /\ pc[r] \in {"killed", "aborted"}}
        named == UNION {Named(r) : r \in lost}
    IN /\ lockedBy[s] = None
       /\ lost # {}
       /\ container' = [c \in Container |->
                           IF c \in named THEN StopOf(c)[c]
                           ELSE IF c = s THEN StartOf(c)[c]
                           ELSE container[c]]
       /\ pc' = [r \in Runner |-> IF r \in lost THEN "rescued" ELSE pc[r]]
       /\ UNCHANGED <<lockedBy, local, files, world>>

-----------------------------------------------------------------------------
Step(r) ==
    \/ Decline(r) \/ Inspect(r) \/ Lock(r) \/ Prepare(r) \/ Ready(r) \/ Glob(r)
    \/ RunPaired(r) \/ Collect(r) \/ Truncate(r) \/ SaveJournal(r) \/ Lend(r)
    \/ StopSource(r) \/ Create(r) \/ Bind(r) \/ StartVariant(r) \/ StopVariant(r)
    \/ StopActive(r) \/ StartSource(r) \/ ReadySource(r)

Next ==
    \/ \E r \in Runner : \/ Step(r) \/ DockerFails(r) \/ SaveFails(r)
                         \/ Interrupt(r) \/ Kill(r) \/ OrphanEnds(r)
    \/ \E c \in Container : Load(c) \/ Die(c)
    \/ \E s \in Source : Rescue(s)
    \/ ManualRun

Spec == Init /\ [][Next]_vars

\* A live process keeps running; nothing is assumed of Docker or the operator.
FairSpec == Spec /\ \A r \in Runner : WF_vars(Step(r))
-----------------------------------------------------------------------------
(* Properties. *)

Holding == Alive \ {"inspect", "lock"}

\* Two campaigns are never both past the lock of one source container: the
\* flock of line 77, held until the process ends, covers every step between.
OneCampaignPerSource ==
    \A r1, r2 \in Runner :
        r1 # r2 /\ SourceOf[r1] = SourceOf[r2] =>
            ~(pc[r1] \in Holding /\ pc[r2] \in Holding)

\* A running variant can be found from campaign.json at every instant: the file
\* names it, or is being rewritten, or the campaign has ended and recorded that
\* it could not stop it.  This is what recovery after SIGKILL rests on.
JournalNamesVariant ==
    \A v \in Variant :
        LET r == v[1] IN
        Up(v) => \/ disk[r] = Torn
                 \/ disk[r].active = v
                 \/ pc[r] = "done" /\ disk[r].stopError

\* The source and a variant of it are never loaded together, whichever step
\* failed or was interrupted, and after the README's rescue too, unless Docker
\* refused to stop the variant or the campaign was killed inside save().
NeverBoth ==
    \A v \in Variant :
        LET r == v[1] IN
        Up(v) /\ Up(SourceOf[r]) =>
            journal[r].stopError \/ (pc[r] = "rescued" /\ disk[r] = Torn)

\* The file of an entry, or the one before it, was overwritten.
Clashing(e) == e.file \in clashed \/ e.file - 1 \in clashed

\* The k-th evidence file of a campaign measures the container the campaign was
\* measuring then, although the results directory is shared with other writers,
\* unless a second run ended within the second of the campaign's own and the later
\* of the two overwrote the earlier: the file entered, or the one before it.
EvidenceIsOwn ==
    \A r \in Runner : \A i \in DOMAIN journal[r].evidence :
        LET e == journal[r].evidence[i]
        IN e.of = (IF i = 1 THEN SourceOf[r] ELSE <<r, i - 1>>) \/ Clashing(e)

\* A campaign that gets as far as stopping the source ends with the source
\* verified ready and the journal on disk saying so, unless it is killed or
\* its own cleanup fails.
SourceComesBack ==
    \A r \in Runner :
        pc[r] = "stopSource" ~>
            \/ pc[r] = "done" /\ checked[r] /\ disk[r].restored
            \/ pc[r] \in {"killed", "aborted", "rescued"}

\* The README: the journal marks restoration only after readiness.
RestoredOnlyAfterReady ==
    \A r \in Runner : pc[r] = "done" /\ disk[r].restored => checked[r]

\* The README: the source is restarted also on SIGTERM.
SigtermRestartsSource ==
    \A r \in Runner : pc[r] = "aborted" /\ stopped[r] => Up(SourceOf[r])

-----------------------------------------------------------------------------
(* The campaign implements the loan. *)

LoanOf(r) == IF ~stopped[r] THEN "none"
             ELSE IF checked[r] THEN "returned"
             ELSE IF pc[r] \in {"killed", "aborted"} THEN "stranded"
             ELSE IF pc[r] = "rescued" THEN "rescued"
             ELSE "lent"

Loan == INSTANCE SourceLoan WITH
            holder <- lockedBy,
            loan <- [r \in Runner |-> LoanOf(r)]

\* Every step of a campaign is a step of the loan or changes nothing of it: the
\* source is borrowed under the lock, and given up returned or stranded.
LoanKept == Loan!Spec

\* No loan lasts for ever: the campaign that stopped the source returns it verified,
\* or is killed or aborts, and then the lock of the source is free.
LoanEnds == Loan!Fairness
=============================================================================
