CONSTANTS
  UsbPortPowerInS3 <- MCLiveUsbPortPowerInS3
  ResetCallers <- MCLiveResetCallers
SPECIFICATION Spec
PROPERTY PowerAbstractSpec
PROPERTY RestartHappens
