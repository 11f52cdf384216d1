SPECIFICATION Spec
CONSTANT OtherKey = {"execution_time"}
CHECK_DEADLOCK FALSE
INVARIANTS OwnFrameSettles LiveAnswersUsable BareFailureNeverOk JobLogKept
