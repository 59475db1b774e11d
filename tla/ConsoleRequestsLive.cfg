\* Two connections for one slot, every kind of line but a shutdown.
CONSTANTS
    Consoles = {c1, c2}
    MaxOpen = 1
    MaxLines = 2
    Commands = {"ignored", "plain", "shell", "exit", "eot"}
    Main = Main
    None = None
SPECIFICATION FairSpec
INVARIANTS SlotLimit
PROPERTIES ServiceSpec RequestsServed ClosedConsoleFreed
