SPECIFICATION FairSpec
CONSTANTS
    Promotion = {p1}
    Absent = Absent
    NoJob = NoJob
    Lasts = 1
    Failures = {"step", "request", "job", "early"}
    MaxNow = 3
CHECK_DEADLOCK FALSE
INVARIANTS
    TypeOK
    AnnouncementsSuffice
    StaleIsNeverForgotten
    ExpireJobIsTheFallback
PROPERTIES
    OneFailureConverges
