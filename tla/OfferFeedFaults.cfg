\* One offer, two connection slots, two fetches, one fault, and both writers.
SPECIFICATION Spec
CONSTANTS
    Offers = {o1}
    Conns = {c1, c2}
    NoConn = NoConn
    Fetches = {f1, f2}
    MaxCalls = 2
    MaxFaults = 1
    Writers = {TRUE, FALSE}
PROPERTIES
    FeedStaysAlive
    ServerLetsGo
    PendingOfferIsShown
    PushedOfferIsShown
