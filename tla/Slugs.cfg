SPECIFICATION Spec
CONSTANTS
    Resources = {x, y}
    Requests = {r1, r2}
    None = None
    Titles <- MCTitles
    Slugs <- MCSlugs
    Candidates <- MCCandidates
    Attempts = 2
CONSTRAINT Undisturbed
SYMMETRY Symmetric
INVARIANTS RedirectsPointHome OldLinksLead
