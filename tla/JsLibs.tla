-------------------------------- MODULE JsLibs --------------------------------
(***************************************************************************)
(* Dev-mode JavaScript libraries of an app (AppDev.SetupJsLibs, part_001  *)
(* lines 100-160). On every reload the app's configured libraries become   *)
(* JsLibs; SetupJsLibs adds htmx and its SSE extension unless the list     *)
(* already has them, sets up every library not in jsCache (download into   *)
(* the app's source), and removes the files of cached libraries no longer  *)
(* listed. Reloads of one app are serialised by the app's init mutex.      *)
(*                                                                         *)
(* JsLibManager.Setup is not in the sources; for a library it is taken to  *)
(* download the URL into Target[l] with AppDev.downloadFile (lines 66-98), *)
(* as the comment on downloadFile says, so that the per-session memo       *)
(* filesDownloaded decides whether the file is written.                    *)
(*                                                                         *)
(* A library is a model value; the substring tests on its URL are given    *)
(* by Url[l], written down from the literal URLs in the MC module.         *)
(***************************************************************************)
EXTENDS Naturals, Sequences, SequencesExt

CONSTANTS
    Libs,          \* JS libraries (their URLs)
    Url,           \* Url[l]: [library, htmxOrg, ext, extSse]: LibType and substring tests
    DefaultHtmx,   \* https://unpkg.com/htmx.org@<version>/dist/htmx.min.js
    DefaultSse,    \* https://unpkg.com/htmx-ext-sse@2.2.2/sse.js
    Target,        \* Target[l]: the file Setup writes for l
    ConfigLists    \* library lists an app's config may hold

VARIABLES
    jsLibs,   \* a.JsLibs
    jsCache,  \* the libraries in a.jsCache (each mapped to Target[l])
    disk,     \* target files present in the app's source
    lastOk,   \* whether the last SetupJsLibs returned nil
    downloaded \* a.filesDownloaded: the libraries fetched into Target[l] this session
vars == <<jsLibs, jsCache, disk, lastOk, downloaded>>

Files == {Target[l] : l \in Libs}

TypeOK ==
    /\ jsLibs \in Seq(Libs) /\ jsCache \subseteq Libs
    /\ disk \subseteq Files /\ lastOk \in BOOLEAN /\ downloaded \subseteq Libs

\* The htmx checks of lines 102-113 and the libraries appended for them.
HasHtmx(libs) == \E i \in 1 .. Len(libs) : LET u == Url[libs[i]] IN u.library /\ u.htmxOrg /\ ~u.ext
HasHtmxSSE(libs) == \E i \in 1 .. Len(libs) : LET u == Url[libs[i]] IN u.library /\ u.htmxOrg /\ u.extSse
WithHtmx(libs) ==
    LET l1 == IF HasHtmx(libs) THEN libs ELSE Append(libs, DefaultHtmx)
    IN IF HasHtmxSSE(libs) THEN l1 ELSE Append(l1, DefaultSse)

\* AppDev.downloadFile (lines 66-98) of l's URL into Target[l]: a (url,
\* path) already fetched this session returns nil without writing;
\* otherwise the download either writes the file and records it, or fails.
DownloadFile(l, o, files, dl) ==
    CASE l \in dl -> [ok |-> TRUE, disk |-> files, dl |-> dl]
      [] o = "ok" -> [ok |-> TRUE, disk |-> files \cup {Target[l]}, dl |-> dl \cup {l}]
      [] OTHER    -> [ok |-> FALSE, disk |-> files, dl |-> dl]

\* The setup loop, lines 124-145, from the i-th library on: a cached
\* library is skipped; Setup fails before a target is known, or downloads
\* the file; a failed download falls back to an existing target file. An
\* error ends the loop and SetupJsLibs.
RECURSIVE SetupFrom(_, _, _, _, _, _)
SetupFrom(libs, i, outcome, cache, files, dl) ==
    IF i > Len(libs) THEN [cache |-> cache, disk |-> files, dl |-> dl, ok |-> TRUE]
    ELSE LET l == libs[i]
             d == DownloadFile(l, outcome[l], files, dl)
             Continue(c, f, g) == SetupFrom(libs, i + 1, outcome, c, f, g)
         IN CASE l \in cache -> Continue(cache, files, dl)
              [] outcome[l] # "errNoTarget" /\ d.ok -> Continue(cache \cup {l}, d.disk, d.dl)
              [] outcome[l] = "err" /\ Target[l] \in files -> Continue(cache \cup {l}, files, dl)
              [] OTHER -> [cache |-> cache, disk |-> files, dl |-> dl, ok |-> FALSE]

\* Lines 147-157: every cached library not in the list loses its file and
\* its cache entry (a failed Remove is only logged); filesDownloaded is
\* left as it is.
Cleanup(libs, cache, files) ==
    LET gone == cache \ ToSet(libs)
    IN [cache |-> cache \ gone,
        disk |-> files \ {Target[l] : l \in gone}]

\* An app reload: JsLibs is set from the config, then SetupJsLibs runs with
\* the outcome of each library's Setup chosen by the environment.
Reload(cfg) ==
    \E outcome \in [Libs -> {"ok", "err", "errNoTarget"}] :
        LET libs == WithHtmx(cfg)
            s == SetupFrom(libs, 1, outcome, jsCache, disk, downloaded)
            c == Cleanup(libs, s.cache, s.disk)
        IN /\ jsLibs' = libs
           /\ lastOk' = s.ok
           /\ jsCache' = IF s.ok THEN c.cache ELSE s.cache
           /\ disk' = IF s.ok THEN c.disk ELSE s.disk
           /\ downloaded' = s.dl

Init == jsLibs = <<>> /\ jsCache = {} /\ disk = {} /\ lastOk = TRUE /\ downloaded = {}

Next == \E cfg \in ConfigLists : Reload(cfg)

Spec == Init /\ [][Next]_vars

-----------------------------------------------------------------------------
(* Properties                                                              *)

\* After a successful SetupJsLibs every listed library is set up: it is in
\* jsCache and its file is in the app's source, also when it was removed
\* from the config (its file deleted at line 152) and added back later.
ListedLibsOnDisk ==
    lastOk => \A i \in 1 .. Len(jsLibs) : jsLibs[i] \in jsCache /\ Target[jsLibs[i]] \in disk

\* The htmx checks exist so that SetupJsLibs never lists a library twice: a
\* config without duplicates yields a JsLibs without duplicates.
NoDuplicateLibs == \A i, j \in 1 .. Len(jsLibs) : i < j => jsLibs[i] # jsLibs[j]
=============================================================================
