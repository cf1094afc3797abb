\* Two services with a ladder and the Drifter; three terms and one beyond; the
\* benefits of a career can pay for a crisis of one price, not of the other.
CONSTANTS
    Careers <- MCCareers
    Drifter = "Drifter"
    Ladderless = {"Drifter"}
    Drafts = {"Army"}
    TopRank = 2
    ExtraBenefits <- MCExtraBenefits
    max_terms = 3
    cash_benefit_roll_max = 1
    aging_start_age = 4
    Prices = {1, 2}
    NoCareer = NoCareer
    NoStep = NoStep
    NoInput = NoInput
    MaxCareers = 4
    MaxForced = 1
    MaxCredits = 2
    MaxUnanswered = 1
SPECIFICATION Spec
INVARIANTS
    TypeOK
    TermsCapped
    NobodyWalksAtZero
    OneMishapEach
PROPERTIES
    TrainingIsExact
    BenefitsAreExact
    FullTrainingOnce
    CareIsPaidInFull
