CONSTANTS
    r1 = r1
    r2 = r2
    ann = ann
    bob = bob
    month = month
    docs = docs
    pics = pics
    c1 = c1
    c2 = c2
    Requests = {r1, r2}
    Users = {ann, bob}
    Names = {month, docs, pics}
    Contents = {c1}
    MaxLength = 4
    Calls <- MCCalls
SPECIFICATION FairSpec
PROPERTIES EveryRequestEnds RequestsShrink
