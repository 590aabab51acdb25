SPECIFICATION FairSpec
CONSTANTS
    alice = alice  bob = bob  phone = phone  desktop = desktop
    a1 = a1  a2 = a2  b1 = b1  b2 = b2  b3 = b3  c1 = c1
    None = None
    Sessions = {a1, a2, b1, b2, b3}
    Users = {alice, bob}
    Devices = {phone, desktop}
    CallIds = {c1}
    Logins <- TwoDevices
    MaxDevices = 2
    MaxCallsPerCaller = 1
INVARIANTS IndexMatchesCalls PartiesStandForTheirSides EveryCallCanEnd
PROPERTIES KeepsThePromise NobodyLeftRinging TalkersAreNotCutOff SignalsStayInTheCall
    RingingEnds AbandonedCallEnds
CHECK_DEADLOCK FALSE
