SPECIFICATION Spec
CONSTANT Starters = {s1, s2, s3}
SYMMETRY Perms
INVARIANTS TypeOK StaleFileNeverBlocks SomebodyServes
PROPERTIES OnlyRacesSteal
