CONSTANTS
    MaxLeaves = 8
    FakeId = FakeId
    Junk = Junk
SPECIFICATION Spec
INVARIANT ReferenceProofAccepted
INVARIANT AcceptedIsReference
