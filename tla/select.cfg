SPECIFICATION BenchSpec
CONSTANTS
    Parts = {"select"}
    Caller = {"trim1", "trim2", "insert", "other"}
    Jobs <- MCJobs
    Row = {1, 2, 3, 4, 5, 6, 7, 8}
    Field <- MCField
    Rows = {1, 2, 3, 4}
    ReserveSize = 2
    BatchSize = 1
    MaxOpenConns = 2
    SelectRow <- MCSelectRow
    SelectField <- MCSelectField
    Value <- MCValue
    Calls <- MCCalls
    SelectBatch = 2
    NoLimit = 100
    None = None
INVARIANTS ResultAddsUp KeysetIsExact
PROPERTY SelectReturns
CHECK_DEADLOCK FALSE
