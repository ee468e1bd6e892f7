SPECIFICATION FairSpec
INVARIANTS
    CommandIsTheAnswers
PROPERTIES
    BackLeadsOut
