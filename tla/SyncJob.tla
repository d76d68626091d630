------------------------------- MODULE SyncJob -------------------------------
(***************************************************************************)
(* The sync orchestrator of the server package (part_000, sync.go):        *)
(* runSyncJob, the scheduler loop runSyncJobs/syncRunner and the ad-hoc    *)
(* API CreateSyncEntry, RunSync and DeleteSyncEntry, over a transactional  *)
(* metadata store.                                                          *)
(*                                                                         *)
(* All entries sync one apply-file repository whose branch head is        *)
(* `head`; every app has its own source whose version is `src[a]`.         *)
(* A job is one call of runSyncJob, run by the scheduler worker Sched or   *)
(* by an API caller in Requesters; its transaction is a write set over    *)
(* the committed store `db`, published at commit and dropped at rollback.  *)
(* Time is abstracted to the age of an entry's LastExecutionTime in timer *)
(* ticks, saturated at the schedule frequency Freq.                        *)
(***************************************************************************)
EXTENDS Naturals, FiniteSets, TLC

CONSTANTS
    Entries,             \* sync entry ids (cl_syn_...)
    Apps,                \* app paths created by the entries' apply files
    Owner,               \* Owner[a]: the entry whose apply file defines app a
    Policy,              \* Policy[e]: the entry's Metadata.Reload option
    Requesters,          \* concurrent API callers
    Sched,               \* the scheduler goroutine
    None, Gone,          \* no entry/app yet; sync entry deleted (ids are never reused)
    Freq,                \* Metadata.ScheduleFrequency, in timer ticks
    MaxSyncFailureCount, \* config.System.MaxSyncFailureCount
    MaxCommit,           \* commits pushed to the apply-file branch
    MaxSrc,              \* versions pushed to an app's own source
    MaxFaults,           \* failures the environment may inject (apply, reload, out-of-band delete, listing)
    ListCanFail,         \* whether GetSyncEntries may fail in the scheduler
    InitEntries,         \* entries already created (by a successful first run) at start
    Scheduled            \* entries with IsScheduled set and ScheduleFrequency > 0

ASSUME Freq \in Nat \ {0} /\ MaxSyncFailureCount \in Nat \ {0}
ASSUME Owner \in [Apps -> Entries] /\ Policy \in [Entries -> {"matched", "none"}]
ASSUME MaxCommit \in Nat \ {0} /\ MaxSrc \in Nat \ {0} /\ MaxFaults \in Nat

Workers == Requesters \cup {Sched}
AppsOf(e) == {a \in Apps : Owner[a] = e}
Commits == 0 .. MaxCommit          \* 0 is the empty commit id ""
Idle == [op |-> "idle"]

AppRec == [def : 1 .. MaxCommit, src : 1 .. MaxSrc]
Status == [commit : Commits, failures : Nat, state : {"", "Enabled", "Failing", "Disabled"},
           age : 0 .. Freq, apps : SUBSET Apps, error : BOOLEAN]
RepoCacheState == [sha : Commits, co : Commits]   \* one repo key: 0 = not cached

\* The Status of a freshly built SyncEntry: LastExecutionTime is zero, which
\* the scheduler treats as due (age Freq).
ZeroStatus == [commit |-> 0, failures |-> 0, state |-> "", age |-> Freq,
               apps |-> {}, error |-> FALSE]
EmptyCache == [sha |-> 0, co |-> 0]

VARIABLES
    head,    \* apply-file branch head
    src,     \* src[a]: head of app a's own source
    db,      \* committed store: [sync |-> entry -> Status, app |-> app -> AppRec]
    job,     \* job[w]: the runSyncJob call worker w is in, or Idle
    sched,   \* scheduler loop: pc, tick snapshot, entries left, tick-wide RepoCache
    faults,  \* injected failures so far
    fails    \* history: consecutive failed runs of each entry
vars == <<head, src, db, job, sched, faults, fails>>

Job == [op : {"create", "run", "tick"}, e : Entries, snap : Status, check : BOOLEAN,
        pc : {"apply", "reload", "finish"}, writes : UNION {[D -> AppRec] : D \in SUBSET Apps},
        reloaded : UNION {[D -> 1 .. MaxSrc] : D \in SUBSET Apps}, cache : RepoCacheState, status : Status]

TypeOK ==
    /\ head \in 1 .. MaxCommit /\ src \in [Apps -> 1 .. MaxSrc]
    /\ db \in [sync : [Entries -> Status \cup {None, Gone}], app : [Apps -> AppRec \cup {None}]]
    /\ job \in [Workers -> Job \cup {Idle}]
    /\ sched.pc \in {"wait", "scan", "stopped"} /\ sched.todo \subseteq Entries
    /\ sched.snap \in [Entries -> Status \cup {None, Gone}] /\ sched.cache \in RepoCacheState
    /\ faults \in 0 .. MaxFaults /\ fails \in [Entries -> Nat]

-----------------------------------------------------------------------------
(* Helpers                                                                 *)

\* A store read inside a transaction sees its own writes.
View(j) == j.writes @@ db.app

\* The failure bookkeeping of runSyncJob (lines 513-518, 565-570).
FailedStatus(j, s) ==
    LET n == j.snap.failures + 1
    IN [s EXCEPT !.error = TRUE, !.failures = n,
                 !.state = IF n >= MaxSyncFailureCount THEN "Disabled" ELSE "Failing"]

\* The apps after the transaction commits: Apply's writes, then ReloadApp's
\* update of the reloaded apps' source version (an update of a row deleted
\* meanwhile changes nothing).
Committed(j) ==
    LET base == j.writes @@ db.app
    IN [a \in Apps |-> IF a \in DOMAIN j.reloaded /\ base[a] # None
                       THEN [base[a] EXCEPT !.src = j.reloaded[a]] ELSE base[a]]

NewJob(op, e, snap, cache) ==
    [op |-> op, e |-> e, snap |-> snap, check |-> TRUE, pc |-> "apply", writes |-> <<>>,
     reloaded |-> <<>>, cache |-> cache, status |-> ZeroStatus]

\* RepoCache.GetSha and CheckoutRepo for commit "": the cached answer, or the
\* branch head, which is then cached for the rest of the cache's life.
CachedSha(j) == IF j.cache.sha # 0 THEN j.cache.sha ELSE head

\* Mutant: an empty cache slot is taken for a hit.
CheckoutTrustsEmptySlot(j) == j.cache.co

CachedCheckout(j) == IF j.cache.co # 0 THEN j.cache.co ELSE head

-----------------------------------------------------------------------------
(* The Apply collaborator (spec section 6): resolve the branch head with    *)
(* GetSha; no drift at lastRunCommitId means SkippedApply, otherwise check *)
(* out the branch and (re)create every app of the apply file at that       *)
(* commit. Followed by the status construction of runSyncJob.              *)

ApplyAt(w, lastRunCommitId) ==
    LET j == job[w]
        sha == CachedSha(j)
        co == CachedCheckout(j)
        ok == [ZeroStatus EXCEPT !.state = "Enabled", !.age = 0]
    IN /\ j # Idle /\ j.pc = "apply"
       /\ IF sha = lastRunCommitId
          THEN \* SkippedApply: nothing written, FilteredApps empty
               job' = [job EXCEPT ![w].cache.sha = sha,
                         ![w].status = [ok EXCEPT !.commit = sha,
                                        !.apps = IF Policy[j.e] = "matched" THEN j.snap.apps ELSE {}],
                         ![w].pc = IF Policy[j.e] = "matched" THEN "reload" ELSE "finish"]
          ELSE job' = [job EXCEPT ![w].cache = [sha |-> sha, co |-> co],
                         ![w].writes = [a \in AppsOf(j.e) |-> [def |-> co, src |-> src[a]]] @@ j.writes,
                         ![w].status = [ok EXCEPT !.commit = co, !.apps = AppsOf(j.e)],
                         ![w].pc = "finish"]
       /\ UNCHANGED <<head, src, db, sched, faults, fails>>

\* Mutant: the rerun's checkCommitHash = false is not passed on to Apply.
ApplyIgnoresCheck(w) == ApplyAt(w, job[w].snap.commit)

\* lastRunCommitId is the last run's commit only when checkCommitHash is set.
Apply(w) == ApplyAt(w, IF job[w].check THEN job[w].snap.commit ELSE 0)

\* Apply reports an error, possibly after writing some apps in the transaction;
\* the status keeps the last run's apps (lines 507-518).
ApplyFails(w) ==
    LET j == job[w] IN
    /\ j # Idle /\ j.pc = "apply" /\ faults < MaxFaults
    /\ \E done \in SUBSET AppsOf(j.e) :
          job' = [job EXCEPT ![w].writes = [a \in done |-> [def |-> CachedCheckout(j), src |-> src[a]]] @@ j.writes,
                   ![w].status = FailedStatus(j, [ZeroStatus EXCEPT !.age = 0, !.apps = j.snap.apps]),
                   ![w].pc = "finish"]
    /\ faults' = faults + 1
    /\ UNCHANGED <<head, src, db, sched, fails>>

-----------------------------------------------------------------------------
(* Skip optimisation (lines 528-586), reached when Apply was skipped and    *)
(* the entry's reload policy is "matched".                                 *)

\* GetAppTx failed for an app of the last run (lines 539-554): a run with
\* checkCommitHash set reruns the whole job with it false (line 554); a run
\* without it returns the "unexpected" error of line 552 before any status
\* is written, and its transaction is rolled back.
ReloadAppMissing(w) ==
    LET j == job[w] IN
    /\ j # Idle /\ j.pc = "reload"
    /\ \E a \in j.snap.apps : View(j)[a] = None
    /\ job' = IF j.check
             THEN [job EXCEPT ![w].check = FALSE, ![w].pc = "apply",
                     ![w].status = ZeroStatus]
             ELSE [job EXCEPT ![w] = Idle]
    /\ UNCHANGED <<head, src, db, sched, faults, fails>>

\* ReloadApp on every app of the last run from its own source, stopping at
\* the first failure; a failure records the error and failure count.
ReloadApps(w) ==
    LET j == job[w]
        reload(S) == [a \in S |-> src[a]] @@ j.reloaded
    IN /\ j # Idle /\ j.pc = "reload"
       /\ \A a \in j.snap.apps : View(j)[a] # None
       /\ \/ /\ job' = [job EXCEPT ![w].reloaded = reload(j.snap.apps), ![w].pc = "finish"]
             /\ UNCHANGED faults
          \/ /\ faults < MaxFaults
             /\ \E bad \in j.snap.apps, done \in SUBSET j.snap.apps :
                   /\ bad \notin done
                   /\ job' = [job EXCEPT ![w].reloaded = reload(done), ![w].pc = "finish",
                                ![w].status = FailedStatus(j, j.status)]
             /\ faults' = faults + 1
       /\ UNCHANGED <<head, src, db, sched, fails>>

-----------------------------------------------------------------------------
(* End of runSyncJob (lines 589-613) together with the caller's            *)
(* CompleteTransaction. A failed run rolls its transaction back and        *)
(* writes the status in a fresh transaction that is rolled back on return; *)
(* for CreateSyncEntry and RunSync the rollback is of the caller's         *)
(* transaction, which then returns the error. A successful run commits its *)
(* writes and status; UpdateSyncStatus of an entry deleted meanwhile       *)
(* updates no row.                                                          *)

\* Mutant: the error path completes the run's transaction instead of
\* rolling it back.
FinishJobCommitsFailed(w) ==
    LET j == job[w]
        ok == ~j.status.error
        keep == j.op = "create" \/ db.sync[j.e] \in Status
    IN /\ j # Idle /\ j.pc = "finish"
       /\ db' = [sync |-> IF ok /\ keep THEN [db.sync EXCEPT ![j.e] = j.status] ELSE db.sync,
                 app |-> Committed(j)]
       /\ fails' = IF j.op = "create" /\ ~ok THEN fails
                   ELSE [fails EXCEPT ![j.e] = IF ok THEN 0 ELSE @ + 1]
       /\ sched' = IF w = Sched THEN [sched EXCEPT !.cache = j.cache] ELSE sched
       /\ job' = [job EXCEPT ![w] = Idle]
       /\ UNCHANGED <<head, src, faults>>

FinishJob(w) ==
    LET j == job[w]
        ok == ~j.status.error
        keep == j.op = "create" \/ db.sync[j.e] \in Status
    IN /\ j # Idle /\ j.pc = "finish"
       /\ db' = IF ok
                THEN [sync |-> IF keep THEN [db.sync EXCEPT ![j.e] = j.status] ELSE db.sync,
                      app |-> Committed(j)]
                ELSE db
       /\ fails' = IF j.op = "create" /\ ~ok THEN fails
                   ELSE [fails EXCEPT ![j.e] = IF ok THEN 0 ELSE @ + 1]
       /\ sched' = IF w = Sched THEN [sched EXCEPT !.cache = j.cache] ELSE sched
       /\ job' = [job EXCEPT ![w] = Idle]
       /\ UNCHANGED <<head, src, faults>>

JobStep(w) == Apply(w) \/ ApplyFails(w) \/ ReloadAppMissing(w) \/ ReloadApps(w) \/ FinishJob(w)

-----------------------------------------------------------------------------
(* Scheduler loop: syncRunner and runSyncJobs (lines 412-466).             *)

\* The timer fires: time passes for every entry; the tick opens a
\* transaction and a RepoCache shared by the whole tick and lists the
\* entries. A listing error ends the loop for good.
Tick ==
    LET aged == [e \in Entries |->
                   IF db.sync[e] \in Status
                   THEN [db.sync[e] EXCEPT !.age = IF @ < Freq THEN @ + 1 ELSE Freq]
                   ELSE db.sync[e]]
    IN /\ sched.pc = "wait"
       /\ db' = [db EXCEPT !.sync = aged]
       /\ \/ /\ sched' = [pc |-> "scan", snap |-> aged, cache |-> EmptyCache,
                          todo |-> {e \in Entries : aged[e] \in Status}]
             /\ UNCHANGED faults
          \/ /\ ListCanFail /\ faults < MaxFaults
             /\ sched' = [sched EXCEPT !.pc = "stopped"]
             /\ faults' = faults + 1
       /\ UNCHANGED <<head, src, job, fails>>

\* The skip rules of lines 443-456, evaluated on the tick's snapshot of
\* the entry: not scheduled, not yet due, or failed too many times.
Due(e, s) == e \in Scheduled /\ s.age >= Freq /\ s.failures < MaxSyncFailureCount

SchedSkip(e) ==
    /\ sched.pc = "scan" /\ job[Sched] = Idle /\ e \in sched.todo
    /\ ~Due(e, sched.snap[e])
    /\ sched' = [sched EXCEPT !.todo = @ \ {e}]
    /\ UNCHANGED <<head, src, db, job, faults, fails>>

\* runSyncJob with no caller transaction and the tick's RepoCache.
SchedRun(e) ==
    /\ sched.pc = "scan" /\ job[Sched] = Idle /\ e \in sched.todo
    /\ Due(e, sched.snap[e])
    /\ job' = [job EXCEPT ![Sched] = NewJob("tick", e, sched.snap[e], sched.cache)]
    /\ sched' = [sched EXCEPT !.todo = @ \ {e}]
    /\ UNCHANGED <<head, src, db, faults, fails>>

\* All entries visited: the tick's RepoCache is cleaned up.
SchedDone ==
    /\ sched.pc = "scan" /\ job[Sched] = Idle /\ sched.todo = {}
    /\ sched' = [sched EXCEPT !.pc = "wait", !.cache = EmptyCache]
    /\ UNCHANGED <<head, src, db, job, faults, fails>>

SchedStep == Tick \/ SchedDone \/ \E e \in Entries : SchedSkip(e) \/ SchedRun(e)

-----------------------------------------------------------------------------
(* API calls, each with its own transaction and RepoCache.                 *)

\* CreateSyncEntry: a fresh id, persisted in the caller's transaction, then
\* one run with checkCommitHash true.
CreateSyncEntry(r, e) ==
    /\ job[r] = Idle /\ db.sync[e] = None
    /\ ~\E w \in Workers : job[w] # Idle /\ job[w].e = e
    /\ job' = [job EXCEPT ![r] = NewJob("create", e, ZeroStatus, EmptyCache)]
    /\ UNCHANGED <<head, src, db, sched, faults, fails>>

\* RunSync: GetSyncEntry, then one run in the caller's transaction.
RunSync(r, e) ==
    /\ job[r] = Idle /\ db.sync[e] \in Status
    /\ job' = [job EXCEPT ![r] = NewJob("run", e, db.sync[e], EmptyCache)]
    /\ UNCHANGED <<head, src, db, sched, faults, fails>>

DeleteSyncEntry(r, e) ==
    /\ job[r] = Idle /\ db.sync[e] \in Status
    /\ db' = [db EXCEPT !.sync[e] = Gone]
    /\ UNCHANGED <<head, src, job, sched, faults, fails>>

-----------------------------------------------------------------------------
(* Environment: pushes to the repositories, apps deleted out of band.      *)

PushCommit == head < MaxCommit /\ head' = head + 1 /\ UNCHANGED <<src, db, job, sched, faults, fails>>

PushSource(a) == src[a] < MaxSrc /\ src' = [src EXCEPT ![a] = @ + 1]
                 /\ UNCHANGED <<head, db, job, sched, faults, fails>>

DeleteApp(a) ==
    /\ db.app[a] # None /\ faults < MaxFaults
    /\ db' = [db EXCEPT !.app[a] = None] /\ faults' = faults + 1
    /\ UNCHANGED <<head, src, job, sched, fails>>

-----------------------------------------------------------------------------
Init ==
    /\ head = 1 /\ src = [a \in Apps |-> 1]
    /\ db = [sync |-> [e \in Entries |->
                         IF e \in InitEntries
                         THEN [ZeroStatus EXCEPT !.commit = 1, !.state = "Enabled",
                                                 !.age = 0, !.apps = AppsOf(e)]
                         ELSE None],
             app |-> [a \in Apps |-> IF Owner[a] \in InitEntries
                                     THEN [def |-> 1, src |-> 1] ELSE None]]
    /\ job = [w \in Workers |-> Idle]
    /\ sched = [pc |-> "wait", snap |-> [e \in Entries |-> None], todo |-> {}, cache |-> EmptyCache]
    /\ faults = 0 /\ fails = [e \in Entries |-> 0]

Next ==
    \/ SchedStep
    \/ \E w \in Workers : JobStep(w)
    \/ \E r \in Requesters, e \in Entries : CreateSyncEntry(r, e) \/ RunSync(r, e) \/ DeleteSyncEntry(r, e)
    \/ PushCommit
    \/ \E a \in Apps : PushSource(a) \/ DeleteApp(a)

\* The timer keeps firing and the scheduler keeps working through its tick;
\* a job that has started runs to its end. API callers owe nothing.
Fairness == WF_vars(SchedStep) /\ \A w \in Workers : WF_vars(JobStep(w))

Spec == Init /\ [][Next]_vars /\ Fairness
-----------------------------------------------------------------------------
(* Properties                                                              *)

\* A run is all or nothing: Apply and ReloadApp may fail after writing some
\* apps, and runSyncJob then rolls the whole transaction back (line 590), so
\* the committed apps of one entry were always deployed by one Apply, from
\* one commit of the apply file.
AppsOfEntryUniform ==
    \A e \in Entries : \A a, b \in AppsOf(e) :
        db.app[a] # None /\ db.app[b] # None => db.app[a].def = db.app[b].def

Synced(e) ==
    db.sync[e] \in Status =>
        /\ db.sync[e].commit = head
        /\ Policy[e] = "matched" =>
              \A a \in AppsOf(e) : db.app[a] = [def |-> head, src |-> src[a]]
Converges == <>[](\A e \in Entries : Synced(e))

\* Spec 4.3 and 8: after MaxSyncFailureCount consecutive failed runs of an
\* entry, the scheduler's circuit breaker keeps it from being run again.
BreakerHonoured ==
    [][job[Sched] = Idle /\ job'[Sched] # Idle
         => fails[job'[Sched].e] < MaxSyncFailureCount]_vars
=============================================================================
