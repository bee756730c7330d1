SPECIFICATION HandshakeFairSpec
PROPERTY DestructorReturns
CHECK_DEADLOCK FALSE
