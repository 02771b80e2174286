SPECIFICATION FairSpec
CONSTANTS
  Sectors = 16
  MaxCount = 16
  Polls = 2
  FAT_EOC_START = 10
  MaxLfn = 2
  BaseLen = 2
  ExtLen = 1
  ClusterBytes = 16
  Width = 64
  BytesPerSector = 8
  SectorsPerCluster = 2
  EntriesPerSector = 3
  Disks <- MCDisks
  Path <- MCPath
INVARIANTS TypeOK WordsOffered ChainsRight SegmentsRight  
PROPERTIES ImplementsSectorReader ErrorsStick AlwaysEnds 
