SPECIFICATION FairSpec
CONSTANT
    Request = {q1, q2, q3}
INVARIANTS
    TypeOK
    AnsweredOnce
PROPERTY
    Fulfilled
CHECK_DEADLOCK FALSE
