CONSTANT Settings <- AllSettings
SPECIFICATION Spec
INVARIANTS InfoTrue CopiesAgree OwlIsSpent
PROPERTIES LoadsWhole OpensLatest RetriesSuffice OwlKeepsTheRest
CHECK_DEADLOCK FALSE
