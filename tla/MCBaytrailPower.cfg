CONSTANTS
  UsbPortPowerInS3 <- MCUsbPortPowerInS3
  ResetCallers <- MCResetCallers
SPECIFICATION Spec
INVARIANT TypeOK
INVARIANT PwrokRequiresRails
INVARIANT DeepSleepMatchesAp
PROPERTY HookOrder
