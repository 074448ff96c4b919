SPECIFICATION ReaderFairSpec
CONSTANTS
  Clips = 3
  ClipLength = 3
  FailLimit = 3
  MaxDelay = 4
  MaxDoubling = 2
INVARIANTS MarkTellsSource
PROPERTIES ClipsInSequence HotSwapsBack FailsOverToClips
