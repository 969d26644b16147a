SPECIFICATION Spec
CONSTANT Inputs <- Documents
INVARIANTS Faithful Prompt
CHECK_DEADLOCK FALSE
