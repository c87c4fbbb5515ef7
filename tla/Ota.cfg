CONSTANT
    Images = {factory, release, hotfix}
SPECIFICATION OtaSpec
INVARIANT AlwaysBootable
INVARIANT FallbackIntact
PROPERTY RevertStaysVisible
PROPERTY ImplementsRollback
