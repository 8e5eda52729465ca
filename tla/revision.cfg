SPECIFICATION RevisionSpec
CONSTANTS
  Fan = 2
  MaxDepth = 2
  Records <- MCRecords
  PayloadBytes <- MCPayloadBytes
  MaxRecordsPerLeaf = 2
  MaxReferences = 3
  ShardTargetBytes = 5
  ShardPlaintextBytes = 6
  CumulativeBytes = 12
  Snapshots <- MCSnapshots
  Tombstones = {t3}
  Observations = {o1}
  Identity <- MCIdentity
  Target <- MCTarget
  Agrees <- MCAgrees
  RootEpoch <- MCRootEpoch
  WireBytes <- MCWireBytes
  Epochs = {e1, e2, e3}
  Active = e1
  Past = e2
  Older = e3
  MaxEntries = 3
  MaxObservations = 1
  MaxRequiredEpochs = 2
  LiveWitnessWireBytes = 4
  MaxSlips = 1
  s1 = s1
  s2 = s2
  s3 = s3
  t3 = t3
  o1 = o1
  e1 = e1
  e2 = e2
  e3 = e3
INVARIANTS ExactCover PlanFits CoverChecked
           WriterMeetsReader AcceptedAsRooted AcceptedIsCatalog PreflightSparesDownloads
PROPERTY PlanExact
CHECK_DEADLOCK FALSE
