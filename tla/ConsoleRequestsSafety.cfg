\* Two connections served at once, every kind of request. The lines that make
\* no request are in ConsoleRequestsLive.cfg.
CONSTANTS
    Consoles = {c1, c2}
    MaxOpen = 2
    MaxLines = 2
    Commands = {"plain", "shell", "exit", "shutdown"}
    Main = Main
    None = None
SPECIFICATION Spec
SYMMETRY ConsoleSymmetry
INVARIANTS TypeOK UseCountExact HeldConsoleAlive ExecutedInOrder ShellModeSynchronised
\* After a shutdown every thread comes to rest.
CHECK_DEADLOCK FALSE
