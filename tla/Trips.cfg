\* Every pair of interfaces, every value, and strange ones; every order to the
\* registry, and odd ones; every way to serve and to call two interfaces.
SPECIFICATION TripsSpec
CONSTANTS
    Bits <- MCBits
    Chars <- MCChars
    Before <- MCBefore
    Interfaces <- MCInterfaces
    Strings <- MCStrings
    MaxList = 2
    Strange <- MCStrange
    Numerals = {"0", "1"}
    Orders <- MCOrders
    Outcomes <- MCOutcomes
    StrangeMessages <- MCStrangeMessages
    StrangeReplies <- MCStrangeReplies
    Providers = {"p", "q"}
    Texts <- MCTexts
    Functions <- MCFunctions
    Satisfies <- MCSatisfies
    NewerThan <- MCNewerThan
    MaxServing = 2
INVARIANTS
    TripsTypeOK
    EqualDigestsAgree
    ShapesCanBeSent
    NeverIllTyped
    NumbersKeepTheirValue
    FieldsGoByName
    OneFormOfEach
    StoreIsAskedWhatIsSaid
    AnswerIsTheStores
    NamesSurvive
    CallsReachTheirInterface
CHECK_DEADLOCK FALSE
