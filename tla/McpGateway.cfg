SPECIFICATION GwFairSpec
CONSTANTS
    Admin = {a1, a2}
    NoAdmin = noAdmin
    Worker = {w1, w2}
    Request = {r1, r2, r3}
    NoRequest = noRequest
    MaxDepth = 1
    MaxStart = 2
INVARIANT
    GatewayIsSound
PROPERTIES
    ThreadsAreJoined
    
