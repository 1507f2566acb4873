SPECIFICATION Spec
CONSTANTS
    Workers = {"u", "v"}
    TopicOf <- MCTopics
    FailTopics = {}
    MaxSends = 2
INVARIANT EverySendHasFile
CHECK_DEADLOCK FALSE
