CONSTANTS
  NumWords <- MCNumWords
  MaxSamples <- MCMaxSamples
  MaxReads <- MCMaxReads
SPECIFICATION Spec
INVARIANT TypeOK
INVARIANT SnapshotConsistent
