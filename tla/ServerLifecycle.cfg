SPECIFICATION LifecycleFairSpec
INVARIANTS
  LifecycleTypeOK
  ForwardSupervisedWhileServing
PROPERTIES
  ServesOrExits
  SignalEndsProcess
\* The process ends.
CHECK_DEADLOCK FALSE
