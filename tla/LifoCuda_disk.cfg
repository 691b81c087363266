CONSTANTS
    MaxBuffers = 5
    DeviceCapacity = 2
    HostCapacity = 1
SPECIFICATION FairSpec
PROPERTIES IsDeviceStack OnlyLostWakeupsHangIt
