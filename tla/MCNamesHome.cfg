CONSTANT Programs <- MCPrograms
SPECIFICATION Spec
INVARIANT CodeRespectsPrivate
CHECK_DEADLOCK FALSE
