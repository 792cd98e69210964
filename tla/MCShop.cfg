SPECIFICATION MCSpec
CONSTANTS
    Watch = {1, 2}
    brandOf <- Brands
    categoryOf <- Categories
    priceOf <- Prices
    found <- Found
    suits <- Suits
    MaxStock = 2
    ListLimit = 3
    SummaryMax = 1
    Url <- Urls
    Bound = {15}
    SliderEnd = 20
    Sort = {"preis-asc"}
    PerPage = 1
    NoWatch = NoWatch
    MaxFilters = 1
    MaxFetches = 2
    MaxCart = 2
    Question = {1, 2, 3}
    MaxPolls = 3
INVARIANTS
    ShownIsAsked
    PagesPartition
    AnswersFollowQuestions
PROPERTIES
    ChatFrees
