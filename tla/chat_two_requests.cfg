SPECIFICATION Spec
CONSTANTS
    Offer = {o1}
    Followup = {f1}
    Handler = {h1, h2}
    Text = {x1}
    Thresholds = 2
    MaxCrashes = 1
    NoText = NoText
    NoId = NoId
SYMMETRY Requests
INVARIANT DeclinedHasReason
 
