SPECIFICATION MCSpec
CONSTANTS
    Tunnels = {d, f}
    None = None
    Nil = None
    Claims = {d}
    Full = {f}
    Platforms = {"darwin", "linux", "windows"}
    MaxEvents = 8
    Parts = {"linux"}
    full = full
    bound = bound
    split = split
    bare = bare
    LinuxTunnels = {full, bound, split}
    LinuxFull = {full, bound}
    LinuxDNS = {full, split}
    LinuxBound = {bound, split}
    TableCfg <- MCTableCfg
    AutoTable = AutoTable
    Tables = {1, 2}
    Foreign = {}
    LinuxEvents = 4
    Adapters = {n1, n2}
    Endpoints4 = {e1, e2}
    Endpoints6 = {e3}
    WindowsEvents = 4
    Gateways = {g1, g2}
    Endpoints = {e1, e2}
    Services = {wifi, usb}
    MaxRestarts = 1
    home = home
    Home = Home
    work = work
    stored = stored
    imported = imported
    old1 = old1
    old2 = old2
    FileOps = 2
    HistoryEvents = 5
    MaxRows = 2
    Buttons = {b1, b2}
    Old = Old
    InstallEvents = 4
    MacEvents = 4
    SettingsEvents = 3
    Periods = 5
    TriggerEvents = 3
INVARIANT
    DNSExact
CHECK_DEADLOCK FALSE
