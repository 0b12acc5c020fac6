SPECIFICATION FairSpec
CONSTANT Requests = {r1, r2, r3}
INVARIANTS TypeOK NoMissedRequirement RequirementSound
PROPERTY RequirementFollows
