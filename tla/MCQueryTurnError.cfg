SPECIFICATION Spec
CONSTANTS
    Intent <- MCIntent
    SelfIntent <- MCSelfIntent
    DomainOf <- MCDomainOf
    Switches <- MCSwitches
    MaxTurns = 2
    MaxRetries = 3
    NoIntent = NoIntent
    NoContext = NoContext
INVARIANT ErrorSurfaced
