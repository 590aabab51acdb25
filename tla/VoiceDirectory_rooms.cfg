SPECIFICATION Spec
CONSTANTS
    streamer = streamer
    viewer = viewer
    first = first
    second = second
    lobby = lobby
    stage1 = stage1
    None = None
    s1 = s1
    s2 = s2
    s3 = s3
    Sessions = {s1, s2, s3}
    Users = {streamer, viewer}
    Channels = {lobby, stage1}
    Tokens = {first, second}
    UserOf <- TwoUsers
    Permitted <- Rights
    MaxSessions = 2
    MaxStreams = 0
    MaxEpoch = 1
SYMMETRY Interchangeable
CHECK_DEADLOCK FALSE
INVARIANTS
    NoGhosts
    StreamsStayInTheChannel
    PassEndsWithTheStay
PROPERTIES
    GroupLastsWithTheMembers
    StreamsEndWithTheirOwner
    UdpFollowsTheNewest
