SPECIFICATION MCSpec
CONSTANTS
    app = app
    audit = audit
    Files = {app, audit}
    NoFile = NoFile
    Cuts = {"text", "line end", "separator"}
    ContextLines = 2
    MaxBuffer = 2
    MaxLines = 3
    MaxRotations = 1
    MaxUnwatches = 1
INVARIANTS LinesReadFaithfully ContextContiguous ErrorsInOrder
PROPERTIES EveryLineRead EveryErrorEmitted
