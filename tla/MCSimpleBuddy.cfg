SPECIFICATION Spec
CONSTANT BaseLevel = 3
INVARIANTS
    TypeOK
    ReadsWhatIsUsed
PROPERTY
    ImplementsAllocator
