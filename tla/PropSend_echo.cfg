SPECIFICATION FairSpec
CONSTANTS
    client = client
    app = app
    wifi = wifi
    switch = switch
    p1 = p1
    p2 = p2
    ads = ads
    lan = lan
    Client = client
    Ads = ads
    NoTask = NoTask
    NoProp = NoProp
    NoName = NoName
    Task = {client, wifi}
    App = {client}
    Wifi = {wifi}
    Name = {switch}
    Echo = {switch}
    Prop = {p1, p2}
    Dest = {ads}
    Outcome = {"timeout", "s4xx", "conn"}
    MaxEchos = 3
INVARIANTS EchoCount ListenResumes EchoResent
PROPERTIES SendEnds
CHECK_DEADLOCK FALSE
