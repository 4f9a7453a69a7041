CONSTANTS
    Base = 2
    CollectorHost = "little"
    Signal <- MCSignal
    Macs <- MCMacs
    LastFd = 9
    SocketFds = 2
SPECIFICATION Spec
INVARIANTS
    LastSignalIsSent
