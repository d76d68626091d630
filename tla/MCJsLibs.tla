------------------------------- MODULE MCJsLibs -------------------------------
(* Instantiates JsLibs for TLC. The libraries and their URLs:              *)
(*   lodash    https://cdn.jsdelivr.net/npm/lodash@4/lodash.min.js         *)
(*   htmx19    https://unpkg.com/htmx.org@1.9.12/dist/htmx.min.js          *)
(*   sse19     https://unpkg.com/htmx.org@1.9.12/dist/ext/sse.js           *)
(*   htmxDef   https://unpkg.com/htmx.org@2.0.4/dist/htmx.min.js (default) *)
(*   sseDef    https://unpkg.com/htmx-ext-sse@2.2.2/sse.js (default)       *)
EXTENDS JsLibs

CONSTANTS lodash, htmx19, sse19, htmxDef, sseDef

MCLibs == {lodash, htmx19, sse19, htmxDef, sseDef}

\* All are plain libraries (LibType Library), then
\* Contains(url, "htmx.org"), Contains(url, "ext"), Contains(url, "ext/sse.js")
MCUrl == [l \in MCLibs |->
            CASE l = lodash  -> [library |-> TRUE, htmxOrg |-> FALSE, ext |-> FALSE, extSse |-> FALSE]
              [] l = htmx19  -> [library |-> TRUE, htmxOrg |-> TRUE,  ext |-> FALSE, extSse |-> FALSE]
              [] l = sse19   -> [library |-> TRUE, htmxOrg |-> TRUE,  ext |-> TRUE,  extSse |-> TRUE]
              [] l = htmxDef -> [library |-> TRUE, htmxOrg |-> TRUE,  ext |-> FALSE, extSse |-> FALSE]
              [] l = sseDef  -> [library |-> TRUE, htmxOrg |-> FALSE, ext |-> TRUE,  extSse |-> FALSE]]

\* Each library is downloaded to its own file.
MCTarget == [l \in MCLibs |-> l]

\* Configs without duplicates, of up to two libraries the user lists.
MCConfigs(users) == {<<>>} \cup {<<l>> : l \in users} \cup {<<l, m>> \in users \X users : l # m}
MCConfigLists == MCConfigs({lodash, htmx19, sse19, htmxDef})
MCConfigListsWithSse == MCConfigs({lodash, sseDef})
=============================================================================
