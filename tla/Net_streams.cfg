SPECIFICATION FairSpec
CONSTANTS
    listener = listener
    caller = caller
    guest = guest
    None = None
    Cnns = {caller}
    Listeners = {}
    Askable = {caller}
    Fds = {1}
    MaxIn <- CallerTwice
    MaxOut <- CallerTwice
PROPERTIES
    StreamKept
    CloseNotified
CHECK_DEADLOCK FALSE
