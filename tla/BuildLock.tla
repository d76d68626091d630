------------------------------ MODULE BuildLock ------------------------------
(***************************************************************************)
(* The container build gate of container/command.go: acquireBuildLock     *)
(* (lines 50-75) and its caller BuildImage (lines 107-132). The gate is a *)
(* package-level buffered channel created under a mutex by the first      *)
(* caller with that caller's MaxConcurrentBuilds; a build sends its id     *)
(* into the channel, or gives up when its MaxBuildWaitSecs timer fires     *)
(* (the context is context.Background(), which is never done); release    *)
(* receives one id from the channel, whichever build sent it.              *)
(***************************************************************************)
EXTENDS Naturals, Sequences, FiniteSets

CONSTANTS
    Builders,   \* goroutines calling BuildImage
    Cap,        \* Cap[b]: config.MaxConcurrentBuilds in b's config
    Nil         \* the channel before its first use

VARIABLES
    chan,   \* buildLockChannel: Nil or [cap, ids] (ids in send order)
    pc      \* pc[b]: where b is in BuildImage
vars == <<chan, pc>>

Building == {b \in Builders : pc[b] = "building"}

TypeOK ==
    /\ chan = Nil \/ chan \in [cap : Nat, ids : Seq(Builders)]
    /\ pc \in [Builders -> {"idle", "waiting", "building"}]

\* mu.Lock; create the channel if nil with this caller's capacity; start the
\* timer.
Acquire(b) ==
    /\ pc[b] = "idle"
    /\ chan' = IF chan = Nil THEN [cap |-> Cap[b], ids |-> <<>>] ELSE chan
    /\ pc' = [pc EXCEPT ![b] = "waiting"]

\* The select's send case: a free slot takes the build id.
Send(b) ==
    /\ pc[b] = "waiting" /\ Len(chan.ids) < chan.cap
    /\ chan' = [chan EXCEPT !.ids = Append(@, b)]
    /\ pc' = [pc EXCEPT ![b] = "building"]

\* The select's timer case: DeadlineExceeded, nothing was sent. The select
\* may pick it even when a slot is free.
Timeout(b) ==
    /\ pc[b] = "waiting"
    /\ pc' = [pc EXCEPT ![b] = "idle"]
    /\ UNCHANGED chan

\* The build command ends, successfully or not; the deferred release
\* receives the oldest id from the channel.
Finish(b) ==
    /\ pc[b] = "building"
    /\ pc' = [pc EXCEPT ![b] = "idle"]
    /\ chan' = [chan EXCEPT !.ids = Tail(@)]

Init == chan = Nil /\ pc = [b \in Builders |-> "idle"]

Next == \E b \in Builders : Acquire(b) \/ Send(b) \/ Timeout(b) \/ Finish(b)

Spec == Init /\ [][Next]_vars

(* No property is checked on this module: the gate's safety (no more than  *)
(* cap builds, one slot per running build) follows from the buffered       *)
(* channel's semantics and the one deferred release, and its timeout is    *)
(* the only way a waiting build gives up; see README, "Not checked".       *)
=============================================================================
