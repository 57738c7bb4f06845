SPECIFICATION Spec
CONSTANTS
    c1 = c1
    c2 = c2
    Client = {c1, c2}
    Names <- MCNames
    Places <- MCPlaces
    HookConfigs <- MCHookConfigs
    KeysOf <- MCKeysOf
    Opened <- MCOpened
    MaxKeys = 5
\* Once MaxKeys are pressed the server waits for ever.
CHECK_DEADLOCK FALSE
INVARIANTS
    NoStaleBuffers
    WindowShowsSelections
    HistoriesAreSound
    RoundTrip
