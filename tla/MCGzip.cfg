\* Two workers, chunks of two bytes, a stream of up to nine bytes, in both formats,
\* a write of the header that may fail, and up to two writes of chunks and of the
\* trailer that do.
CONSTANTS
    NThreads = 2
    MaxBatch = 1
    Jobs <- MCJobs
    Children <- MCChildren
    DeflateTypes = {"GZIP", "RAW"}
    ChunkSize = 2
    MaxBytes = 9
    MaxWrite = 3
    MaxErrors = 2
SPECIFICATION Spec
INVARIANTS
    OutputInOrder
    BuffersConsistent
    ClosedStreamComplete
    ErrorReported
PROPERTIES
    CallsReturn
CHECK_DEADLOCK FALSE
