SPECIFICATION FairSpec
CONSTANTS
    Actors = {a1}
    Poller = poller
    None = none
INVARIANTS ExchangeOwnsSession FeedbackExplained
PROPERTY StoreCatchesUp
