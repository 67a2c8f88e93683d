SPECIFICATION Spec
CONSTANTS
    Milestone <- Landmarks
    Absent = Absent
    NoRow = NoRow
    MaxFailures = 2
INVARIANT VisitsWereBooked
INVARIANT QuotesRestOnAnInspection
INVARIANT WarrantyWasReviewed
INVARIANT RowsTellWholePaths
