SPECIFICATION CacheSpec
CONSTANTS
    Versions = {v1, v2}
    NoFile = NoFile
    Builds = {b1, b2}
INVARIANT HitsAreFresh
CHECK_DEADLOCK FALSE
