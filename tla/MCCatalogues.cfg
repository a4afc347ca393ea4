SPECIFICATION CataloguesSpec
CONSTANTS
    v1 = v1
    v2 = v2
    w3 = w3
    PlanVersions = {v1, v2}
    Clients = {s1, s2}
    Senders = {h1, h2}
    MaxRevision = 3
    NoPlan = none
    Versions = {v1, v2}
    Editors = {h1, h2}
    Consents = {c1}
    MaxTexts = 3
    BadTexts = {2}
    NoVersion = none
    Numbers = {1, 2}
    Signers = {s1, s2}
    Handlers = {h1, h2}
    NoSigner = none
    Offers = {v1, v2}
    NoOffer = none
    Articles = {v1, v2}
    Standing = {w3}
    Curators = {h1, h2}
    Audience <- AudienceOf
    Classification <- ClassificationOf
    Claim <- ClaimOf
    NoArticle = none
    NoClaim = none
    Reads = {r1, r2}
    Connections = 2
    Threshold = 2
    ResetOutlasts = TRUE
    Persons = {"p1", "p2"}
    Agreements = {"c1", "c2", "c3"}
    Installments = {"i1", "i2", "i3"}
    Holder <- HolderOf
    ContractOf <- ContractOfEach
    Due <- DueOn
    Documents = {1, 2, 3}
    Exact <- ExactOf
    Normalized <- NormalizedOf
    Consumers = {c1}
    LastDay = 2
    NoDate = 9
    Nobody = "nobody"
SYMMETRY Symmetry
INVARIANTS
    LegalTextsStand
    ContractsBindWhatWasAgreed
    AnswersAreGrounded
    MasterIsReadRight
PROPERTIES
    PlanIsCatalogue
    ArticlesAreInForce
CHECK_DEADLOCK FALSE
