SPECIFICATION RegistrySpec
\* Every process runs once: the system stops when all are gone.
CHECK_DEADLOCK FALSE
CONSTANTS
    d1 = d1
    c1 = c1
    c2 = c2
    c3 = c3
    a = a
    b = b
    n = n
    Unreadable = Unreadable
    NoPeer = NoPeer
    Conductor = {c1, c2, c3}
    Dashboard = {d1}
    Name = {a, b, n}
    NamesOf <- OneDashboardNames
    Launcher <- OneDashboardLauncher
INVARIANTS
    RegistryTypeOK
    UniqueNames
    UndisturbedIsExact
    ConductorFound
