SPECIFICATION DeviceEventsSpec
CONSTANTS
    OwnerDevices = {d1}
    Certificates = {c1}
    NoOwner = NoOwner
    MaxDeviceEvents = 2
PROPERTIES RemovalReleases
CHECK_DEADLOCK FALSE
