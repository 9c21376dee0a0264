\* Every body of up to five bytes; a line may be three bytes long.
CONSTANTS
    MaxLine = 3
    MaxSnippet = 2
    MaxDrain = 2
    MaxBytes = 5
SPECIFICATION Spec
INVARIANTS ChunksAreTheLines StreamFailsForAReason BodyIsClosed FailureIsNamed
PROPERTY CallsEnd
