CONSTANTS
    Username = alice
    SharedOpen = TRUE
    CallsMayFail = TRUE
    MaxTyped = 2
    MaxMessages = 3
SPECIFICATION FairSpec
INVARIANTS TypeInvariant LogOutlivesThreads OneWriter SuccessIsComplete
PROPERTIES ImplementsSession ClientEndsOrHangs
