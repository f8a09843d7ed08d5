\* Three files of which two fit, two sends, two drafts, two rewrites.
CONSTANTS
    Files = {f1, f2, f3}
    MaxFiles = 2
    MaxEdits = 2
    MaxSends = 2
    MaxFetches = 2
SYMMETRY Symmetry
SPECIFICATION Spec
INVARIANTS SendsAreAcceptable ClearingIsOfWhatWasSent RewriteIsOfDraft
CHECK_DEADLOCK FALSE
