SPECIFICATION NetStreamSpec
CONSTANTS
    Follower = {f1}
    NetWindow = 2
    MaxChanges = 2
    MaxAuthority = 2
CONSTRAINT NetStreamBound
INVARIANT NetworkStreamCurrent
