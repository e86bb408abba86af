CONSTANTS
  Missing = Missing
  Keep = 2
  MaxBytes = 3
  Sizes = {1, 4}
  MaxSerial = 4
  MaxAudits = 2
SPECIFICATION ProtectionSpec
INVARIANT ReleaseRecoverable
INVARIANT IndependentCopyFollows
PROPERTY ReceiptWasDrilled
