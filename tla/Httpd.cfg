SPECIFICATION HttpFairSpec
VIEW HttpView
CONSTANTS
    NUMBER_OF_CONNECTION_THREAD = 2
    MAX_PERSISTENT_CONNECTION = 1
    NULL = NULL
INVARIANTS
    ListenClosed
    CountExact
    KeepAliveBound
    AnswerLeaves
    AnswerOnce
    SharedBufOwn
    SessionOwn
    MutexExact
PROPERTY Offered
