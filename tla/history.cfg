\* One reader, asking, looking and searching, against every order of six requests.
CONSTANTS
    Key <- MCKey
    Request <- MCRequest
SPECIFICATION Spec
INVARIANTS
    HistoryComplete
    SupersededIsInvalidated
    HitsFitTogether
