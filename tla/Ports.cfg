CONSTANTS
    s1 = s1  s2 = s2
    ownPath = ownPath  jdkPath = jdkPath  pathJava = pathJava
    Unset = Unset
    Servers = {s1, s2}
    Ports = {80, 25565}
    DefaultPort = 25565
    LowestPort = 1024
    RconPorts = {25575, 25576}
    Paths = {ownPath, jdkPath, pathJava}
    SystemJava = pathJava
    Outputs <- SomeOutputs
    Unparsable = Unparsable
    StartScenarios <- PortsOrJava
SPECIFICATION StartsSpec
INVARIANTS PortsApart ServesAsStarted BestJava
CHECK_DEADLOCK FALSE
SYMMETRY ServerSymmetry
