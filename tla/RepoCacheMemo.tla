---------------------------- MODULE RepoCacheMemo ----------------------------
(***************************************************************************)
(* What a Repository Cache instance promises (spec sections 3, 4.1 and 8): *)
(* within one instance's life, the commit a branch resolves to and the     *)
(* checkout of a key are each fixed by the first successful lookup and     *)
(* returned unchanged afterwards; teardown forgets everything. The two     *)
(* tiers (commit resolution and checkout) are independent.                 *)
(***************************************************************************)
EXTENDS Naturals

CONSTANTS Procs, Keys, MaxCommit, None

\* Key 0 tracks the branch head; any other key pins that commit.
Hashes == 1 .. MaxCommit

VARIABLES head, live, shaMemo, coMemo
avars == <<head, live, shaMemo, coMemo>>

Forgotten == [k \in Keys |-> None]

AInit ==
    /\ head = 1
    /\ live = [p \in Procs |-> FALSE]
    /\ shaMemo = [p \in Procs |-> None]
    /\ coMemo = [p \in Procs |-> Forgotten]

Open(p) ==
    /\ ~live[p] /\ live' = [live EXCEPT ![p] = TRUE]
    /\ UNCHANGED <<head, shaMemo, coMemo>>

Close(p) ==
    /\ live[p] /\ live' = [live EXCEPT ![p] = FALSE]
    /\ shaMemo' = [shaMemo EXCEPT ![p] = None]
    /\ coMemo' = [coMemo EXCEPT ![p] = Forgotten]
    /\ UNCHANGED head

ResolveSha(p) ==
    /\ live[p] /\ shaMemo[p] = None
    /\ shaMemo' = [shaMemo EXCEPT ![p] = head]
    /\ UNCHANGED <<head, live, coMemo>>

ResolveCheckout(p, k) ==
    /\ live[p] /\ coMemo[p][k] = None
    /\ coMemo' = [coMemo EXCEPT ![p][k] = IF k = 0 THEN head ELSE k]
    /\ UNCHANGED <<head, live, shaMemo>>

Push == head < MaxCommit /\ head' = head + 1 /\ UNCHANGED <<live, shaMemo, coMemo>>

ANext ==
    \/ Push
    \/ \E p \in Procs : Open(p) \/ Close(p) \/ ResolveSha(p) \/ \E k \in Keys : ResolveCheckout(p, k)

ASpec == AInit /\ [][ANext]_avars
=============================================================================
