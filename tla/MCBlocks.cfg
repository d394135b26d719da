SPECIFICATION Spec
CONSTANT Vocabularies <- Structured
INVARIANTS TypeOK ParsedByRules NestingKept SemaExact JumpsBind
CHECK_DEADLOCK FALSE
