CONSTANTS
    Request = {r1, r2, r3}
    v1 = v1
    Voter = {v1}
    VoterOf <- Posters
    Editor = {e1}
    NoReq = NoReq
SPECIFICATION FairSpec
CHECK_DEADLOCK FALSE
INVARIANTS TypeOK DeletesWhatItRead ScoreCountsVotes
PROPERTY Answered
