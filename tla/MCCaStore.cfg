CONSTANT MaxGen = 4
SPECIFICATION CaSpec
INVARIANTS CaTypeOK NeverMixed WholeUnlessTorn
PROPERTY PairStays
CHECK_DEADLOCK FALSE
