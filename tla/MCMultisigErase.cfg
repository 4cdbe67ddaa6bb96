\* Two users, one workflow (created for both, or a legacy row without a
\* threshold), two fair requests in flight, account erases included.
SPECIFICATION FairSpec
CONSTANTS
    User = {u1, u2}
    NoUser = NoUser
    Wf = {w1}
    LegacyWf = {w1}
    Req = {r1, r2}
    SubmittedLists <- TwoSigners
    Offered = {"sign", "reject", "delete", "erase"}
INVARIANTS
    DecisionStillValid
    StatusMatchesSignatures
    ReleasedRecipientsKeyed
PROPERTIES
    KeysOnlyAtRelease
    RequestsReturn
CHECK_DEADLOCK FALSE
