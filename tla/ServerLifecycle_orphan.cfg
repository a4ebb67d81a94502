SPECIFICATION LifecycleFairSpec
PROPERTY StopTerminatesChild
CHECK_DEADLOCK FALSE
