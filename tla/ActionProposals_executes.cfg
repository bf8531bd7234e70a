SPECIFICATION Spec
CONSTANTS
    proposal = proposal
    slot = slot
    NoSlot = NoSlot
    NoProposal = NoProposal
    Threads = {t1, t2}
    Editors = {e1, e2}
    Proposals <- MCProposals
    HardLimited <- MCHardLimited
    Writes <- MCProposals
    Slots <- MCSlots
    SlotOf <- MCSlotOf
    MaxAttempts = 3
    MaxFaults = 2
INVARIANTS RunsAtMostOnce ReversedOnce StaleOnlyByOverlap
PROPERTIES ImplementsProposalLedger ClaimsEnd
