CONSTANT W = 1
SPECIFICATION Spec
INVARIANTS CalledAtMostOnce OwnReplyOnly IInv
PROPERTIES EveryInviteAnswered ImplementsInviteCallbacks
CHECK_DEADLOCK FALSE
