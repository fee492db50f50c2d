SPECIFICATION MCSpec
CONSTANTS
    Texts = {t1}
    Blank = Blank
    Key = Key
    Model = Model
    MaxAsks = 1
    MaxImages = 0
    MaxApps = 0
    MaxTogether = 1
PROPERTY
    AnswerSurvives
