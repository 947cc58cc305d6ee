SPECIFICATION Spec
INVARIANT ClickIsNeverFailedBefore
