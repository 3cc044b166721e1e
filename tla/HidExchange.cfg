CONSTANTS
    Users = {u1, u2}
    MaxRequests = 3
    QueueLimit = 0
    Mishaps = {"skip_read", "shared", "write_fail", "unplug", "lost_submit", "late_event", "foreign_event", "events_error"}
    None = None
    Failed = Failed
SPECIFICATION FairSpec
INVARIANTS TypeOK OwnReply QueueBounded CloseSafe
PROPERTIES Released CloseReturns InOrder
CHECK_DEADLOCK FALSE
