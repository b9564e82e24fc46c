\* Three approvals and a rejection of a return of two lines, two faults.
CONSTANTS
    a1 = a1
    a2 = a2
    a3 = a3
    j1 = j1
    Approvals <- ThreeApprovals
    Rejections <- OneRejection
    Lines = 2
    Tries = 2
    MaxFaults = 2
SPECIFICATION Spec
INVARIANTS RefundedMeansDone RejectedIsUntouched RestockedOncePerSlip
\* Every request ends.
CHECK_DEADLOCK FALSE
