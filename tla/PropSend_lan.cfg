SPECIFICATION Spec
CONSTANTS
    client = client
    app = app
    wifi = wifi
    switch = switch
    p1 = p1
    p2 = p2
    ads = ads
    lan = lan
    Client = client
    Ads = ads
    NoTask = NoTask
    NoProp = NoProp
    NoName = NoName
    Task = {client, app, wifi}
    App = {app}
    Wifi = {wifi}
    Name = {switch}
    Echo = {switch}
    Prop = {p1, p2}
    Dest = {ads, lan}
    Outcome = {"s5xx", "down", "lan", "lan_clear"}
    MaxEchos = 1
INVARIANTS OneOwner
PROPERTIES SendKept
CHECK_DEADLOCK FALSE
