SPECIFICATION FairSpec
CONSTANTS
    Offer = {o1}
    Followup = {f1}
    Handler = {h1}
    Text = {x1}
    Thresholds = 2
    MaxCrashes = 0
    NoText = NoText
    NoId = NoId
 
 
 
PROPERTY QuestionsClose
