SPECIFICATION MCSpec
CONSTANTS
    r1 = r1
    r5 = r5
    main = main
    side = side
    lead = lead
    done = done
    extra = extra
    deal = deal
    fresh = fresh
    acme = acme
    bolt = bolt
    cord = cord
    nova = nova
    p1 = p1
    log = log
    e1 = e1
    e2 = e2
    f1 = f1
    column = column
    known = known
    seg = seg
    spring = spring
    s1 = s1
    hot = hot
    flow = flow
    None = None
    Requests = {r2, r3, r4}
    PipelineIds = {main, side}
    StageIds = {lead, done, extra}
    DealIds = {deal, fresh}
    Calls <- DealCalls
    TicketCalls <- CallsOfTickets
    CompanyIds = {acme, bolt, cord, nova}
    ContactIds = {p1}
    ActivityIds = {log}
    SeedParents <- CompanyRows
    CompanyCalls <- CallsOfCompanies
    Emails = {e1, e2}
    Forms = {f1}
    Columns = {column}
    ColumnForm <- FormOfColumns
    EmailColumns = {column}
    SeedContacts <- ContactsAtFirst
    SubmissionCalls <- CallsOfSubmissions
    Segments = {seg}
    SeedCampaigns <- CampaignRows
    SeedSends <- SendRows
    CampaignCalls <- CallsOfCampaigns
    Contacts <- ContactRows
    SeedOwners <- OwnerRows
    RulesetCalls <- CallsOfRulesets
    SeedPipelines <- PipelineRows
    SeedStages <- StageRows
    SeedDeals <- DealRows
SYMMETRY MCSymmetry
PROPERTY SubmittersAreFoundOrCreated
CHECK_DEADLOCK FALSE
