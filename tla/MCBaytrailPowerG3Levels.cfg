CONSTANTS
  UsbPortPowerInS3 <- MCLiveUsbPortPowerInS3
  ResetCallers <- MCLiveResetCallers
SPECIFICATION Spec
INVARIANT G3LinesAtG3Level
