SPECIFICATION Spec
INVARIANTS ReadsThisInput NothingExcessiveExpanded
