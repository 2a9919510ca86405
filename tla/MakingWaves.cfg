\* Two difficulties, two readers, a queue that two commands overflow.
SPECIFICATION FairSpec
CONSTANTS
  Levels = {"easy", "hard"}
  QueueSize = 2
  MaxReaders = 2
INVARIANTS WavesTypeOK VoyageIsEarned ScreenAgreesWithNode OneReaderPerPort
PROPERTIES DifficultyArrives VoyageBegins
