\* A chain of two points, two transfers of the first, any sequence of calls.
SPECIFICATION ServiceSpec
CONSTANTS
    MaxPoint = 2
    MaxTask = 1
    Dests = {1}
    Parent <- OneChain
    Requests <- SomeRequests
INVARIANTS UnlistedBundleResumable
PROPERTIES AnswersAreTrue ImplementsCatalog
