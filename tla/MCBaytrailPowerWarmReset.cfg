CONSTANTS
  UsbPortPowerInS3 <- MCUsbPortPowerInS3
  ResetCallers <- MCResetCallers
SPECIFICATION Spec
INVARIANT WarmResetPulseHeld
