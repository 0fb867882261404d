SPECIFICATION Spec
CONSTANT Starters = {s1, s2, s3}
SYMMETRY Perms
PROPERTIES LiveListenerNeverStolen
