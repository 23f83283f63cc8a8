CONSTANT Cases = 2
SPECIFICATION FairSpec
INVARIANTS TypeOK OverShowsAll
PROPERTIES NeverGoesBack EndIsShown
