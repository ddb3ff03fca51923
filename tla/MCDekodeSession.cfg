CONSTANTS
    t1 = t1  t2 = t2  c1 = c1  c2 = c2
    goodTok = goodTok  badTok = badTok  mockSid = mockSid  bogusSid = bogusSid
    Threads <- MCThreads
    Channels <- MCChannels
    Tokens <- MCTokens
    VALID_TOKEN <- goodTok
    SessionIds <- MCSessionIds
    MOCK_SESSION <- mockSid
    ServerOps <- MCServerOps
    RpcOps <- MCRpcOps
    MaxRpc = 3
SPECIFICATION Spec
SYMMETRY MCSymmetry
INVARIANTS TypeOK ResultFaithful

CHECK_DEADLOCK FALSE
