SPECIFICATION FairSpec
CONSTANTS
    listener = listener
    caller = caller
    guest = guest
    None = None
    Cnns = {listener, guest}
    Listeners = {listener}
    Askable = {listener}
    Fds = {1, 2}
    MaxIn <- GuestOnce
    MaxOut <- GuestOnce
INVARIANTS
    TypeOK
    DescriptorsOwned
CHECK_DEADLOCK FALSE
PROPERTIES
    StreamKept
