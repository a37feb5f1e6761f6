CONSTANT MaxLeaves = 130
SPECIFICATION Spec
INVARIANT NodeArithmeticMatchesReference
INVARIANT PeaksMatchReference
