CONSTANT Programs <- MCPrograms
SPECIFICATION Spec
INVARIANTS TypeOK PrivateStaysHome PlainUsesAgree DefinitionsApart
CHECK_DEADLOCK FALSE
