SPECIFICATION Spec
CONSTANTS
    w = w
    a = a
    b = b
    watcher = watcher
    target = target
    phone = phone
    laptop = laptop
    tablet = tablet
    None = None
    Sessions = {w, a, b}
    Users = {watcher, target}
    Devices = {phone, laptop, tablet}
    Statuses = {"online", "invisible"}
    Logins <- WatchedLogins
    Changers = {a, b}
    Idlers = {a}
    Subscribers = {w, b}
    MaxDevices = 2
CHECK_DEADLOCK FALSE
PROPERTY NeverFlashesOnline
