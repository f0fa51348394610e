SPECIFICATION Spec
CONSTANTS
    Peers = {h1, h2, h3}
    NoHost = NoHost
    Polite = {}
    Uploads = {u1, u2, u3}
    MaxActive = 2
    QueueTimeout = 1
    MaxSized = 2
CHECK_DEADLOCK FALSE
SYMMETRY HostUploadSymmetry
INVARIANTS
    UploadsLimited
    QueueConsistent
    OnlyNullLink
