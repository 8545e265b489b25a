SPECIFICATION Spec
CONSTANTS
    f1 = f1 f2 = f2 mail1 = mail1 mail2 = mail2 mail3 = mail3
    text1 = text1 w1 = w1
    None = None
    Phones = {f1}
    Mails = {mail1}
    Numbered = {}
    Looped = {}
    Texts = {text1}
    Processes = {w1}
    Slots = {1, 2}
    Moments <- WeekMoments
    SubmitLimit = 2
    RegisterLimit = 1
    DayLength = 2880
    SameWidth = 2
    MaxNumber = 4
    Mixes <- WebAndCalls
    Holidays = {5}
    YearLength = 9
    FirstWeekday = 1
    MaxLoops = 9
CHECK_DEADLOCK FALSE
INVARIANTS
    TypeOK
    NumbersNeverMeet
    ConfirmedIsCommitted
    UploadIsOnDisk
    DayIsLimited
    DeadlineIsWorkedOut
