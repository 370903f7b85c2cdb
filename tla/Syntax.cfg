SPECIFICATION Spec
CONSTANT MaxLength = 5
INVARIANT TypeOK AcceptsWellFormed
CHECK_DEADLOCK FALSE
