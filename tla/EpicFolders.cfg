SPECIFICATION Spec
CONSTANTS
    Absent = Absent
    Games = {"a", "b"}
    Files = {"f1"}
    Versions = 1
    JournalEvery = 2
    Titled <- SameTitle
    Suffixed <- OwnSuffix
INVARIANTS
    OneGamePerFolder
