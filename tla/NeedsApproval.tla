---------------------------- MODULE NeedsApproval ----------------------------
(***************************************************************************)
(* The approval check of an app audit (internal/app/audit.go): Audit      *)
(* collects the app's loads, createApproveResponse its permissions, and    *)
(* needsApproval compares them with the loads and permissions approved     *)
(* last time. A permission is [plugin, method, isRead, args, secrets];     *)
(* isRead is Nil when the app does not set is_read (a nil pointer).        *)
(* Audit runs the app's Starlark file with a loader that replaces every    *)
(* plugin function by a dummy; what the script calls is not modelled,      *)
(* since .star helper files are loaded by App.loadStarlark, which is not   *)
(* in the sources.                                                         *)
(***************************************************************************)
EXTENDS Naturals, Sequences, SequencesExt

CONSTANTS
    LoadNames,   \* modules an app file may load
    Perms,       \* permissions an app may declare
    MaxLoads,    \* load statements in an app file
    MaxPerms,    \* permissions in an app's list
    Nil,         \* an unset is_read
    None,        \* no ApproveResult: none yet, or the audit failed
    Names        \* app names a source may declare

VARIABLES
    approved,   \* the app's Metadata: approved loads and permissions
    loadStmts,  \* the load statements of the app file last audited
    audit,      \* the ApproveResult of the last audit, or None
    name,       \* a.Metadata.Name
    audited     \* the audit has run
vars == <<approved, loadStmts, audit, name, audited>>

-----------------------------------------------------------------------------
(* Audit, lines 88-94: the load statements, each module kept once, in   *)
(* the order of its first load.                                            *)

RECURSIVE DedupFrom(_, _)
DedupFrom(loads, raw) ==
    IF raw = <<>> THEN loads
    ELSE DedupFrom(IF Contains(loads, Head(raw)) THEN loads ELSE Append(loads, Head(raw)), Tail(raw))

\* Mutant: a repeated module is appended again.
DedupKeepsRepeats(raw) == raw

Dedup(raw) == DedupFrom(<<>>, raw)

\* permEquals, lines 123-145: plugin and method; is_read set on both or on
\* neither, and equal when set; arguments and secrets element-wise.
PermEquals(a, b) ==
    /\ a.plugin = b.plugin /\ a.method = b.method
    /\ (a.isRead = Nil) = (b.isRead = Nil)
    /\ a.isRead # Nil /\ b.isRead # Nil => a.isRead = b.isRead
    /\ a.args = b.args
    /\ a.secrets = b.secrets

\* slices.EqualFunc with permEquals: same length and pairwise equal in order.
PermsEqualFunc(s, t) == Len(s) = Len(t) /\ \A i \in 1 .. Len(s) : PermEquals(s[i], t[i])

\* Mutant: a permission is compared by plugin and method only.
NeedsApprovalIgnoringFlags(r) ==
    \/ r.newLoads # r.approvedLoads
    \/ Len(r.newPerms) # Len(r.approvedPerms)
    \/ \E i \in 1 .. Len(r.newPerms) : r.newPerms[i].plugin # r.approvedPerms[i].plugin
                                     \/ r.newPerms[i].method # r.approvedPerms[i].method

\* needsApproval, lines 118-149.
NeedsApproval(r) ==
    \/ r.newLoads # r.approvedLoads
    \/ ~PermsEqualFunc(r.newPerms, r.approvedPerms)

-----------------------------------------------------------------------------
LoadLists == {Dedup(raw) : raw \in BoundedSeq(LoadNames, MaxLoads)}
PermLists == BoundedSeq(Perms, MaxPerms)

\* An approved app: loads and permissions recorded by an earlier audit.
Init ==
    /\ approved \in [loads : LoadLists, perms : PermLists]
    /\ loadStmts = <<>>
    /\ audit = None
    /\ name \in Names
    /\ audited = FALSE

\* createApproveResponse, lines 150-225: the result for the app's loads and
\* its permissions list (empty when the app declares none, lines 168-173).
CreateApproveResponse(raw, perms) ==
    LET r == [newLoads |-> Dedup(raw), newPerms |-> perms,
              approvedLoads |-> approved.loads, approvedPerms |-> approved.perms]
    IN [needsApproval |-> NeedsApproval(r)] @@ r

\* Where Audit stops: the file read (19-22); schema, params and builtins
\* (68-81); parsing (83-86); running the script (99-102), which calls
\* plugin functions; verifyConfig and the name (104-112); in
\* createApproveResponse (permissions not a list, an entry not a struct,
\* a bad attribute: 175-214); or not at all.
AuditStops == {"read", "setup", "parse", "init", "config", "perms", "ok"}
Ran(stop) == stop \notin {"read", "setup", "parse"}

\* Audit, lines 18-116: an error returns no result; a.Metadata.Name is set
\* (line 114) before createApproveResponse, which may still fail.
Audit ==
    \E stop \in AuditStops, raw \in BoundedSeq(LoadNames, MaxLoads), perms \in PermLists, n \in Names :
        /\ loadStmts' = IF Ran(stop) THEN raw ELSE loadStmts
        /\ name' = IF stop \in {"perms", "ok"} THEN n ELSE name
        /\ audit' = IF stop = "ok" THEN CreateApproveResponse(raw, perms) ELSE None

\* One audit of an approved app. An audit reads the approved metadata and
\* the source and carries nothing into the next one but the name, so one
\* audit per behaviour covers them all.
Next == ~audited /\ Audit /\ audited' = TRUE /\ UNCHANGED approved

Spec == Init /\ [][Next]_vars

-----------------------------------------------------------------------------
(* Properties                                                              *)

\* What an approval is about: the set of modules loaded and the permissions
\* granted, counted with multiplicity.
Changed(r) ==
    \/ ToSet(r.newLoads) # ToSet(r.approvedLoads)
    \/ ToBag(r.newPerms) # ToBag(r.approvedPerms)

\* The load list of an audit names every module the audited file loads
\* exactly once, in the order of first load.
LoadsDeduplicated ==
    audit # None =>
        LET new == audit.newLoads IN
        /\ ToSet(new) = ToSet(loadStmts)
        /\ \A i, j \in 1 .. Len(new) : i < j =>
              /\ new[i] # new[j]
              /\ \E k \in 1 .. Len(loadStmts) :
                    loadStmts[k] = new[i] /\ \A l \in 1 .. k : loadStmts[l] # new[j]

\* No change to what an app loads or is permitted goes unapproved: an audit
\* whose loads or permissions differ from the approved ones needs approval.
ChangeNeedsApproval == audit # None /\ Changed(audit) => audit.needsApproval

\* The comment of lines 151-152: the App entry is not updated by an audit,
\* since audits run while the app is running.
AuditLeavesAppUnchanged == [][name' = name]_vars

\* The TODO of line 147: only a change needs approval, so an app whose
\* permissions are merely listed in another order does not.
OnlyChangeNeedsApproval == audit # None /\ audit.needsApproval => Changed(audit)
=============================================================================
