------------------------------ MODULE RepoCache ------------------------------
(***************************************************************************)
(* The Repository Cache (part_000 lines 28-257): one instance per          *)
(* scheduler tick or ad-hoc operation, owned by one process. GetSha caches *)
(* the branch head per key, CheckoutRepo caches checkouts per key. A       *)
(* non-dev checkout clones into a temporary directory under the instance's *)
(* root; a dev checkout picks an unused name under the shared app_src      *)
(* directory (getUnusedRepoPath), creates it, and clones into it. Cleanup  *)
(* removes the root and sets it to "".                                     *)
(*                                                                         *)
(* All keys name one repository, branch and auth profile; key 0 asks for   *)
(* the branch head (commit ""), key c > 0 for commit c. Dev directory n is *)
(* the repository's name for n = 1 and the name with suffix n otherwise.  *)
(***************************************************************************)
EXTENDS Naturals, FiniteSets, FiniteSetsExt

CONSTANTS
    Procs,         \* processes, each using its own RepoCache instance
    Keys,          \* requested commits: 0 (branch head) and pinned commits
    MaxCommit,     \* commits pushed to the branch
    MaxNames,      \* directory names available under app_src
    MaxInst,       \* RepoCache instances created over the run
    MaxTmp,        \* temporary directories per instance
    MaxFaults,     \* remote failures (ref listing, clone, checkout)
    InitOccupied,  \* names under app_src already taken at start
    None

ASSUME 0 \in Keys /\ Keys \subseteq 0 .. MaxCommit /\ InitOccupied \subseteq 1 .. MaxNames

Names == 1 .. MaxNames
Insts == 1 .. MaxInst
Hashes == 1 .. MaxCommit
Dirs == [kind : {"dev"}, name : Names] \cup [kind : {"tmp"}, inst : Insts, seq : 1 .. MaxTmp]
CacheDir == [dir : Dirs, hash : Hashes]
Idle == [step |-> "idle"]
\* The errors CheckoutRepo returns: git failed, the clone found a
\* repository, or the file system failed.
ErrGit == [err |-> "git"]
ErrExists == [err |-> "exists"]
ErrFs == [err |-> "fs"]

VARIABLES
    head,    \* branch head on the remote
    appSrc,  \* appSrc[n]: the dev directory n under app_src
    tmp,     \* tmp[i]: temporary directories under instance i's root
    rc,      \* rc[p]: p's RepoCache: root (instance, 0 for ""), shaCache, cache
    pc,      \* pc[p]: the step of p's dev checkout in progress
    insts,   \* instances created so far
    faults,  \* remote failures so far
    last     \* last[p]: what p's last dev-mode CheckoutRepo returned
vars == <<head, appSrc, tmp, rc, pc, insts, faults, last>>

TypeOK ==
    /\ head \in Hashes /\ appSrc \in [Names -> {"absent", "empty", "repo"}]
    /\ tmp \in [Insts -> 0 .. MaxTmp] /\ insts \in 0 .. MaxInst /\ faults \in 0 .. MaxFaults
    /\ rc \in [Procs -> [inst : 0 .. MaxInst, sha : 0 .. MaxCommit, co : [Keys -> CacheDir \cup {None}]]]
    /\ pc \in [Procs -> {Idle} \cup [step : {"mkdir", "clone"}, k : Keys, name : Names]]
    /\ last \in [Procs -> {None} \cup CacheDir \cup {ErrGit, ErrExists, ErrFs}]

-----------------------------------------------------------------------------
(* getUnusedRepoPath (lines 236-248): the repository's own name if it does *)
(* not exist, else the first of name2, name3, ... that does not exist.     *)

RECURSIVE UnusedFrom(_, _)
UnusedFrom(occupied, count) ==
    IF count \notin occupied \/ count > MaxNames THEN count ELSE UnusedFrom(occupied, count + 1)

\* Mutant: the numeric suffixes start at 3.
UnusedRepoPathFrom3(occupied) ==
    IF 1 \notin occupied THEN 1 ELSE UnusedFrom(occupied, 3)

UnusedRepoPath(occupied) ==
    IF 1 \notin occupied THEN 1 ELSE UnusedFrom(occupied, 2)

Occupied == {n \in Names : appSrc[n] # "absent"}
\* Mutant: the requested commit ("" for the branch) is returned as the hash.
CloneHashOfKey(k) == k

\* The hash read from the checked-out HEAD.
CloneHash(k) == IF k = 0 THEN head ELSE k

-----------------------------------------------------------------------------
NewRepoCache(p) ==
    /\ rc[p].inst = 0 /\ insts < MaxInst
    /\ insts' = insts + 1
    /\ rc' = [rc EXCEPT ![p] = [inst |-> insts + 1, sha |-> 0, co |-> [k \in Keys |-> None]]]
    /\ UNCHANGED <<head, appSrc, tmp, pc, faults, last>>

\* GetSha on a miss (a hit changes nothing): list the remote refs, which
\* may fail, and cache the branch head.
GetSha(p) ==
    /\ rc[p].inst # 0 /\ pc[p] = Idle /\ rc[p].sha = 0
    /\ \/ faults < MaxFaults /\ faults' = faults + 1 /\ UNCHANGED rc
       \/ rc' = [rc EXCEPT ![p].sha = head] /\ UNCHANGED faults
    /\ UNCHANGED <<head, appSrc, tmp, pc, insts, last>>

\* A dev-mode CheckoutRepo finds the key in the cache and returns the cached
\* CacheDir, whichever mode created it (a non-dev hit changes nothing).
DevCheckoutHit(p, k) ==
    /\ rc[p].inst # 0 /\ pc[p] = Idle /\ rc[p].co[k] # None
    /\ last' = [last EXCEPT ![p] = rc[p].co[k]]
    /\ UNCHANGED <<head, appSrc, tmp, rc, pc, insts, faults>>

\* Mutant: the cache is not consulted before cloning.
CheckoutTempNoLookup(p, k) ==
    LET i == rc[p].inst
        d == [kind |-> "tmp", inst |-> i, seq |-> tmp[i] + 1]
    IN /\ i # 0 /\ pc[p] = Idle /\ tmp[i] < MaxTmp
       /\ tmp' = [tmp EXCEPT ![i] = @ + 1]
       /\ \/ faults < MaxFaults /\ faults' = faults + 1 /\ UNCHANGED rc
          \/ rc' = [rc EXCEPT ![p].co[k] = [dir |-> d, hash |-> CloneHash(k)]] /\ UNCHANGED faults
       /\ UNCHANGED <<head, appSrc, pc, insts, last>>

\* Non-dev miss: MkdirTemp under the root, clone and check out. A failed
\* clone leaves its temporary directory for Cleanup.
CheckoutTemp(p, k) ==
    LET i == rc[p].inst
        d == [kind |-> "tmp", inst |-> i, seq |-> tmp[i] + 1]
    IN /\ i # 0 /\ pc[p] = Idle /\ rc[p].co[k] = None /\ tmp[i] < MaxTmp
       /\ tmp' = [tmp EXCEPT ![i] = @ + 1]
       /\ \/ faults < MaxFaults /\ faults' = faults + 1 /\ UNCHANGED rc
          \/ rc' = [rc EXCEPT ![p].co[k] = [dir |-> d, hash |-> CloneHash(k)]] /\ UNCHANGED faults
       /\ UNCHANGED <<head, appSrc, pc, insts, last>>

\* Dev miss: pick the first unused name under app_src (a name beyond
\* MaxNames is out of the model's bound).
DevPick(p, k) ==
    LET n == UnusedRepoPath(Occupied)
    IN /\ rc[p].inst # 0 /\ pc[p] = Idle /\ rc[p].co[k] = None /\ n \in Names
       /\ pc' = [pc EXCEPT ![p] = [step |-> "mkdir", k |-> k, name |-> n]]
       /\ UNCHANGED <<head, appSrc, tmp, rc, insts, faults, last>>

\* MkdirAll (lines 178-180): creates the directory, and succeeds if it
\* already exists; its error is returned.
DevMkdir(p) ==
    LET n == pc[p].name IN
    /\ pc[p] # Idle /\ pc[p].step = "mkdir"
    /\ \/ /\ appSrc' = [appSrc EXCEPT ![n] = IF @ = "absent" THEN "empty" ELSE @]
          /\ pc' = [pc EXCEPT ![p].step = "clone"]
          /\ UNCHANGED <<faults, last>>
       \/ /\ faults < MaxFaults /\ faults' = faults + 1
          /\ pc' = [pc EXCEPT ![p] = Idle] /\ last' = [last EXCEPT ![p] = ErrFs]
          /\ UNCHANGED appSrc
    /\ UNCHANGED <<head, tmp, rc, insts>>

\* Mutant: the clone takes over a directory that already holds a repository.
DevCloneIntoExisting(p) ==
    LET n == pc[p].name
        k == pc[p].k
    IN /\ pc[p] # Idle /\ pc[p].step = "clone"
       /\ pc' = [pc EXCEPT ![p] = Idle]
       /\ appSrc' = [appSrc EXCEPT ![n] = "repo"]
       /\ rc' = [rc EXCEPT ![p].co[k] = [dir |-> [kind |-> "dev", name |-> n], hash |-> CloneHash(k)]]
       /\ last' = [last EXCEPT ![p] = rc'[p].co[k]]
       /\ UNCHANGED <<head, tmp, insts, faults>>

\* PlainClone into the directory and check out. Cloning refuses a directory
\* that already holds a repository; a failed clone empties the directory it
\* did not create but leaves it; a failed checkout leaves the clone.
DevClone(p) ==
    LET n == pc[p].name
        k == pc[p].k
        fail(err) == last' = [last EXCEPT ![p] = err]
    IN /\ pc[p] # Idle /\ pc[p].step = "clone"
       /\ pc' = [pc EXCEPT ![p] = Idle]
       /\ \/ /\ appSrc[n] = "repo" /\ fail(ErrExists)
             /\ UNCHANGED <<appSrc, rc, faults>>
          \/ /\ appSrc[n] # "repo" /\ faults < MaxFaults /\ fail(ErrGit)
             /\ appSrc' \in {appSrc, [appSrc EXCEPT ![n] = "repo"]}
             /\ faults' = faults + 1 /\ UNCHANGED rc
          \/ /\ appSrc[n] # "repo"
             /\ appSrc' = [appSrc EXCEPT ![n] = "repo"]
             /\ rc' = [rc EXCEPT ![p].co[k] = [dir |-> [kind |-> "dev", name |-> n], hash |-> CloneHash(k)]]
             /\ last' = [last EXCEPT ![p] = rc'[p].co[k]]
             /\ UNCHANGED faults
       /\ UNCHANGED <<head, tmp, insts>>

\* Cleanup: RemoveAll of the root, which holds every temporary directory of
\* the instance; dev directories are untouched. The maps are kept.
Cleanup(p) ==
    LET i == rc[p].inst IN
    /\ i # 0 /\ pc[p] = Idle
    /\ tmp' = [tmp EXCEPT ![i] = 0]
    /\ rc' = [rc EXCEPT ![p].inst = 0]
    /\ UNCHANGED <<head, appSrc, pc, insts, faults, last>>

Push == head < MaxCommit /\ head' = head + 1 /\ UNCHANGED <<appSrc, tmp, rc, pc, insts, faults, last>>

Init ==
    /\ head = 1
    /\ appSrc = [n \in Names |-> IF n \in InitOccupied THEN "repo" ELSE "absent"]
    /\ tmp = [i \in Insts |-> 0]
    /\ rc = [p \in Procs |-> [inst |-> 0, sha |-> 0, co |-> [k \in Keys |-> None]]]
    /\ pc = [p \in Procs |-> Idle]
    /\ insts = 0 /\ faults = 0
    /\ last = [p \in Procs |-> None]

Next ==
    \/ Push
    \/ \E p \in Procs :
          \/ NewRepoCache(p) \/ GetSha(p) \/ DevMkdir(p) \/ DevClone(p) \/ Cleanup(p)
          \/ \E k \in Keys : CheckoutTemp(p, k) \/ DevPick(p, k) \/ DevCheckoutHit(p, k)

Spec == Init /\ [][Next]_vars
-----------------------------------------------------------------------------
(* Properties                                                              *)

\* getUnusedRepoPath is first-fit (spec section 8): for the names taken in
\* app_src now, and any set of further names taken later, with a free name
\* left it returns the least free name.
UnusedRepoPathFirstFit ==
    \A occupied \in SUBSET Names :
        Occupied \subseteq occupied /\ occupied # Names =>
            UnusedRepoPath(occupied) = Min(Names \ occupied)

\* Persistent dev checkouts are collision-avoided (spec section 5): no two
\* live cache entries, of one process or of two, own the same directory
\* under app_src.
DevDirExclusive ==
    \A p, q \in Procs, k, l \in Keys :
        /\ rc[p].inst # 0 /\ rc[q].inst # 0
        /\ rc[p].co[k] # None /\ rc[q].co[l] # None
        /\ rc[p].co[k].dir.kind = "dev" /\ rc[p].co[k].dir = rc[q].co[l].dir
        => p = q /\ k = l

\* A dev checkout fails only when git does: the name picked for it is never
\* one another checkout is cloning into.
DevCheckoutNoCollision == \A p \in Procs : last[p] # ErrExists

\* Dev mode yields a persistent directory under app_src (spec 4.1), never a
\* temporary one that Cleanup deletes.
DevAnswerPersistent ==
    \A p \in Procs : last[p] \in CacheDir => last[p].dir.kind = "dev"

\* The cache refines its abstract promise: the commit a branch resolves to
\* and the checkout of each key are fixed by the first successful lookup of
\* an instance's life.
Memo == INSTANCE RepoCacheMemo WITH
    live <- [p \in Procs |-> rc[p].inst # 0],
    shaMemo <- [p \in Procs |-> IF rc[p].inst # 0 /\ rc[p].sha # 0 THEN rc[p].sha ELSE None],
    coMemo <- [p \in Procs |-> [k \in Keys |->
                 IF rc[p].inst # 0 /\ rc[p].co[k] # None THEN rc[p].co[k].hash ELSE None]]
MemoRefined == Memo!ASpec

=============================================================================
