SPECIFICATION Spec
CONSTANT Path <- AllPaths
INVARIANTS TypeOK MarksMatchWhatIsShown LivePagesAreReal
PROPERTY SheetsSettle
