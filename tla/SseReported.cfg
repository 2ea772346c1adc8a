SPECIFICATION AllSpec
CONSTANTS
    MaxId = 3
    Bsp = 1
    Dos = Dos
    Image = Image
    Kernel = Kernel
    Tables <- SmallTables
    Limits <- SmallLimits
    Machines <- SmallMachines
    Settings <- AllSettings
    Procs = 2
    Percents = {100}
    DWord = 256
    Icon = {i1, i2, i3}
    NoIcon = NoIcon
INVARIANTS
    SseReportedIsEnabled
CHECK_DEADLOCK FALSE
