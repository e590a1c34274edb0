SPECIFICATION Spec
CONSTANTS
    UdpMaxBytes = 4
    MaxSamples = 4
    Failed = Failed
    Requests <- MCRequests
INVARIANT TypeOK
INVARIANT DatagramsFit
INVARIANT EveryLineOnce
