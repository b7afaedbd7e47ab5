SPECIFICATION Spec
CONSTANTS MaxPolls = 2 Addresses = 3
INVARIANT AcceptsWhenServing
CHECK_DEADLOCK FALSE
