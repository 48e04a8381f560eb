SPECIFICATION DSpec
CONSTANTS
  Handlers = {h1, h2}
  Objects = 2
  Names = {ab, aab}
  Segment <- MCSegment
  Instants = {1}
  Buckets = 2
  MaxAttempts = 3
  None = None
INVARIANTS DTypeOK LateOnesAreSafe PanicAppliesNothing HistogramIsTrue OnlyPanicsGoUncounted
INVARIANTS TrailWithinCounters RecordIDsUnique AnswerNamesItsRecord
SYMMETRY Symmetry
