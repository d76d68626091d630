CONSTANTS
    lodash = lodash
    htmx19 = htmx19
    sse19 = sse19
    htmxDef = htmxDef
    sseDef = sseDef
    Libs <- MCLibs
    Url <- MCUrl
    DefaultHtmx = htmxDef
    DefaultSse = sseDef
    Target <- MCTarget
    ConfigLists <- MCConfigLists
SPECIFICATION Spec
INVARIANT ListedLibsOnDisk
