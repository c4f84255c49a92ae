SPECIFICATION Spec
CONSTANTS
    Blocks <- MCBlocks
    Count <- MCCount
    Rtl = {"ooe"}
    Channels <- MCChannels
    Src <- MCSrc
    Dst <- MCDst
    Lockstep = {"ops"}
    LatencyMatch <- MCMatch
    NoticeOf <- MCNotice
    Rate <- MCRate
    Fields <- MCFields
    BindingKey <- MCKey
    NoticeKeys = {"id"}
    Common <- MCCommon
    AnsweredBy <- MCAnswered
    MAX_STAGES = 2
    CCV_LAT_HOP = 2
    Confs <- MCConfs
    Firsts <- MCFirsts
    MaxEdits = 1
    MaxKills = 1
CHECK_DEADLOCK FALSE
INVARIANTS
    HostsAgree
    RepeatersChecked
    CopiesLevel
    NothingStale
    LatencyHeld
    HostedCarries
