SPECIFICATION SpecView
CONSTANTS
    tab = tab
    stream1 = stream1
    stream2 = stream2
    other = other
    Tabs = {tab}
    Tab <- TabOf
    NoStream = NoStream
    Clients = {stream1, stream2, other}
    Session <- OneSession
    HUB_MAX_CLIENTS = 3
    HUB_MAX_PER_SESSION = 2
    MaxVersion = 2
    MaxAsked = 1
PROPERTIES
    SeesEveryState
    StreamsAreLetGo
