CONSTANTS
    Paths = {a_lua, b_json}
    Reviewable = {a_lua}
    NoPath = NoPath
    MaxLen = 6

SPECIFICATION Spec

INVARIANT ChunksAreReviewableSegments

CHECK_DEADLOCK FALSE
