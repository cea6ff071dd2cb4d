\* Two requests in progress, for a tile, a GeoJSON and an H3 answer, the last two
\* at first without data; the clock runs past one lifetime of an entry
\* and one fetch.
CONSTANTS
    r1 = r1
    r2 = r2
    tile = tile
    geojson = geojson
    h3 = h3
    Requests = {r1, r2}
    Keys = {tile, geojson, h3}
    Awaiting = {tile}
    StoresEmpty = {geojson}
    Empty <- NothingAtFirst
    Ttl = 1
    MaxFetch = 1
    MaxVersion = 2
    MaxTime = 3
    None = None
SYMMETRY Symmetric
SPECIFICATION Spec
INVARIANTS
    TypeOK
    StalenessBounded
    BlockingNeverRaces
    EmptyNotSticky
PROPERTIES
    NeverBackInTime
\* The clock is bounded.
CHECK_DEADLOCK FALSE
