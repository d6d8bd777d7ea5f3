SPECIFICATION FairSpec
CONSTANTS
    n1 = n1
    n2 = n2
    pad = pad
    Trim <- MCTrim
    v1 = v1
    v2 = v2
    Names = {n1, n2, pad}
    Fields <- MCFields
    Values = {v1, v2}
    Asked <- MCAsked
    Drafts <- MCDrafts
    Requests = {q1, q2}
    NoUser = NoUser
    Torn = Torn
    Keep = Keep
    None = None
    MaxEdits = 1
    MaxFaults = 1
INVARIANT CacheFollowsFile
PROPERTY FileIsUserMap
PROPERTY RequestsAnswered
